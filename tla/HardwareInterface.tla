------------------------- MODULE HardwareInterface -------------------------
(***************************************************************************)
(* The receive loop of a hardware control script: datagrams, the command   *)
(* being executed, and the exceptions that can hit any line, which are     *)
(* KeyboardInterrupts (Ctrl-C reaches the scripts and main.c sends them    *)
(* one more) and a device that fails.  close() is the one of a class that  *)
(* drives GPIO pins; `energised' says whether a command left them driven.  *)
(***************************************************************************)
EXTENDS Naturals, Sequences

CONSTANTS Commands,    \* capability and argument of the class's commands
          Others,      \* datagrams that name no command, but decode
          Garbled,     \* datagrams that do not decode
          Guarded,     \* close() retries its work when interrupted
          MaxRaised,   \* exceptions raised from outside
          MaxPending   \* bound: datagrams waiting in the socket

Datagrams == Commands \cup Others \cup Garbled

ASSUME InterfaceAssumption ==
  /\ Commands \cap (Others \cup Garbled) = {} /\ Others \cap Garbled = {}
  /\ Guarded \in BOOLEAN
  /\ MaxRaised \in 0 .. 2
  /\ MaxPending \in Nat

VARIABLES
  pc,         \* what the script does next
  handler,    \* whose except clause runs: "none", "command" or "script"
  guard,      \* inside the try of close()
  sockin,     \* the socket is open
  pending,    \* datagrams in the socket
  energised,  \* output pins are driven
  raised      \* exceptions so far

control == <<pc, handler, guard>>
vars == <<pc, handler, guard, sockin, pending, energised, raised>>

Init ==
  /\ pc = "receive" /\ handler = "none" /\ guard = FALSE
  /\ sockin = TRUE /\ pending = <<>>
  /\ energised = FALSE /\ raised = 0
-----------------------------------------------------------------------------
Arrive(d) ==
  /\ sockin /\ Len(pending) < MaxPending
  /\ pending' = Append(pending, d)
  /\ UNCHANGED <<control, sockin, energised, raised>>

\* The script's own except clause takes over.
ToScriptHandler == pc' = "except" /\ handler' = "script" /\ guard' = FALSE

Received(kind) ==
  /\ pc = "receive" /\ sockin /\ pending # <<>> /\ Head(pending) \in kind
  /\ pending' = Tail(pending)
  /\ UNCHANGED <<sockin, energised, raised>>

\* Not two words, or not a command of the class: printed at most.
Ignore == Received(Others) /\ UNCHANGED control

Undecodable == Received(Garbled) /\ ToScriptHandler

Execute == Received(Commands) /\ pc' = "execute" /\ UNCHANGED <<handler, guard>>

\* recvfrom on the socket that an earlier failure closed.
ReceiveFails ==
  /\ pc = "receive" /\ ~sockin
  /\ ToScriptHandler
  /\ UNCHANGED <<sockin, pending, energised, raised>>
-----------------------------------------------------------------------------
Actuate ==
  /\ pc = "execute" /\ ~energised
  /\ energised' = TRUE
  /\ UNCHANGED <<control, sockin, pending, raised>>

\* A faulty variant: the pins keep their last pattern.
PinsHeld == UNCHANGED energised

\* The end of spin and of Extender: every output off.
OutputsOff == energised' = FALSE

Finish ==
  /\ pc = "execute" /\ pc' = "receive"
  /\ OutputsOff
  /\ UNCHANGED <<handler, guard, sockin, pending, raised>>
-----------------------------------------------------------------------------
\* The bare except of execute_command.
ToCommandHandler ==
  /\ pc = "execute"
  /\ pc' = "except" /\ handler' = "command"
  /\ UNCHANGED guard

\* KeyboardInterrupt inside the try of close(): its handler does the same work.
RetryClose ==
  /\ guard
  /\ pc' = "cleanup" /\ guard' = FALSE
  /\ UNCHANGED handler

\* An exception leaves the command's handler for start(), and start()'s own
\* handler for the interpreter, which ends the process.
Escape ==
  /\ ~guard /\ pc # "execute"
  /\ \/ handler # "script" /\ ToScriptHandler
     \/ handler = "script" /\ pc' = "ended" /\ UNCHANGED <<handler, guard>>

Interrupt ==
  /\ pc # "ended" /\ raised < MaxRaised
  /\ ToCommandHandler \/ RetryClose \/ Escape
  /\ sockin' = (sockin /\ pc' # "ended")
  /\ raised' = raised + 1
  /\ UNCHANGED <<pending, energised>>

\* The command itself raises: a device cannot be reached, an output fails.
Fail ==
  /\ raised < MaxRaised
  /\ ToCommandHandler
  /\ raised' = raised + 1
  /\ UNCHANGED <<sockin, pending, energised>>
-----------------------------------------------------------------------------
(* close(), called by either handler.                                      *)

Close ==
  /\ pc = "except"
  /\ pc' = "cleanup" /\ guard' = Guarded
  /\ UNCHANGED <<handler, sockin, pending, energised, raised>>

\* A faulty variant: the pins are left to the base class.
NoCleanup == UNCHANGED energised

GPIOCleanup == energised' = FALSE

Cleanup ==
  /\ pc = "cleanup" /\ pc' = "sockets"
  /\ GPIOCleanup
  /\ UNCHANGED <<handler, guard, sockin, pending, raised>>

\* A faulty variant: only the device's socket is closed.
SockinKept == UNCHANGED sockin

SockinClosed == sockin' = FALSE

\* After the command's handler the loop goes on, on a closed socket.
CloseSockets ==
  /\ pc = "sockets"
  /\ SockinClosed
  /\ guard' = FALSE /\ handler' = "none"
  /\ pc' = IF handler = "command" THEN "receive" ELSE "ended"
  /\ UNCHANGED <<pending, energised, raised>>
-----------------------------------------------------------------------------
Step == Ignore \/ Undecodable \/ Execute \/ ReceiveFails \/ Actuate \/ Finish
        \/ Close \/ Cleanup \/ CloseSockets

Next == (\E d \in Datagrams : Arrive(d)) \/ Step \/ Interrupt \/ Fail

Spec == Init /\ [][Next]_vars

\* The process runs: no command of a class loops forever.
FairSpec == Spec /\ WF_vars(Step)
-----------------------------------------------------------------------------
(* Properties.                                                             *)

TypeOK ==
  /\ pc \in {"receive", "execute", "except", "cleanup", "sockets", "ended"}
  /\ handler \in {"none", "command", "script"}
  /\ guard \in BOOLEAN /\ sockin \in BOOLEAN /\ energised \in BOOLEAN
  /\ pending \in Seq(Datagrams)
  /\ raised \in 0 .. MaxRaised

\* Whatever line two exceptions hit, a script never ends with its pins driven.
LeftOff == pc = "ended" => ~energised

\* A script that waits for a command does not drive its pins, and neither does
\* one that goes round the loop once more after execute_command has closed.
QuietWhileWaiting == pc = "receive" => ~energised

\* Once the socket is closed, by whichever handler, nothing is driven again.
ClosedForGood == [][~sockin => ~energised' /\ ~sockin']_vars

\* Where the pins can be driven, and how many exceptions it took to get there.
EnergisedWhere ==
  energised =>
    \/ pc = "execute"
    \/ pc \in {"except", "cleanup"} /\ handler = "command" /\ raised >= 1
    \/ pc \in {"except", "cleanup"} /\ handler = "script" /\ raised >= 2

\* Which handler runs at which step.
HandlerTracked ==
  /\ pc \in {"receive", "execute"} => handler = "none" /\ ~guard
  /\ pc \in {"except", "cleanup", "sockets"} => handler # "none"
  /\ pc = "except" => ~guard
  /\ pc = "execute" => sockin

\* The inductive invariant behind the theorems of HardwareInterfaceProofs.
IInv ==
  /\ TypeOK /\ HandlerTracked /\ EnergisedWhere
  /\ ~sockin => ~energised

\* execute_command swallows even a KeyboardInterrupt; the script ends all the
\* same.  main.c relies on it and never waits for its children.
InterruptEnds == (raised > 0) ~> (pc = "ended")
=============================================================================
