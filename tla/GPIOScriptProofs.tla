-------------------------- MODULE GPIOScriptProofs --------------------------
(* Theorems about HardwareInterface, for any class of commands; about      *)
(* FocusMotor, for commands of any length and any travel; and about the    *)
(* focus script, which is both: what was proved of each on its own holds   *)
(* of the script.                                                          *)
EXTENDS GPIOScript, TLAPS

(* HardwareInterface.                                                      *)

LEMMA InterfaceInit == Init => IInv
<1> SUFFICES ASSUME Init PROVE IInv
  OBVIOUS
<1>1. raised \in 0 .. MaxRaised /\ pending \in Seq(Datagrams)
  BY InterfaceAssumption DEF InterfaceAssumption, Init
<1>2. guard \in BOOLEAN /\ sockin \in BOOLEAN /\ energised \in BOOLEAN
  BY DEF Init
<1> QED
  BY <1>1, <1>2 DEF Init, IInv, TypeOK, HandlerTracked, EnergisedWhere

\* Taking a datagram leaves a sequence of datagrams.
LEMMA ReceivedType ==
  ASSUME TypeOK, NEW kind, Received(kind)
  PROVE  pending' \in Seq(Datagrams)
  BY DEF TypeOK, Received

\* Arrivals and the steps of the loop before and after a command.
LEMMA LoopInv ==
  ASSUME IInv, \/ \E d \in Datagrams : Arrive(d)
               \/ Ignore \/ Undecodable \/ Execute \/ ReceiveFails
               \/ Actuate \/ Finish
  PROVE  IInv'
<1>1. CASE \E d \in Datagrams : Arrive(d)
  BY <1>1 DEF Arrive, IInv, TypeOK, HandlerTracked, EnergisedWhere, control
<1>2. CASE Ignore
  BY <1>2, ReceivedType DEF Ignore, Received, IInv, TypeOK, HandlerTracked, EnergisedWhere,
     control
<1>3. CASE Undecodable
  BY <1>3, ReceivedType DEF Undecodable, Received, ToScriptHandler, IInv,
     TypeOK, HandlerTracked, EnergisedWhere
<1>4. CASE Execute
  BY <1>4, ReceivedType DEF Execute, Received, IInv, TypeOK, HandlerTracked, EnergisedWhere
<1>5. CASE ReceiveFails
  BY <1>5 DEF ReceiveFails, ToScriptHandler, IInv, TypeOK, HandlerTracked, EnergisedWhere
<1>6. CASE Actuate
  BY <1>6 DEF Actuate, IInv, TypeOK, HandlerTracked, EnergisedWhere, control
<1>7. CASE Finish
  BY <1>7 DEF Finish, OutputsOff, IInv, TypeOK, HandlerTracked, EnergisedWhere
<1> QED
  BY <1>1, <1>2, <1>3, <1>4, <1>5, <1>6, <1>7

\* One more exception, counted.
LEMMA RaisedType ==
  ASSUME TypeOK, raised < MaxRaised, raised' = raised + 1
  PROVE  raised' \in 0 .. MaxRaised
  BY InterfaceAssumption DEF InterfaceAssumption, TypeOK

\* Exceptions, at any line.
LEMMA ExceptionInv ==
  ASSUME IInv, Interrupt \/ Fail
  PROVE  IInv'
<1>1. raised' \in 0 .. MaxRaised
  BY RaisedType DEF Interrupt, Fail, IInv
<1>2. (ToCommandHandler \/ RetryClose \/ Escape) /\ pc # "ended"
  BY DEF Interrupt, Fail, ToCommandHandler
<1>3. sockin' \in BOOLEAN /\ (~sockin' => ~sockin \/ pc' = "ended")
  <2>1. CASE Interrupt
    BY <2>1 DEF Interrupt
  <2>2. CASE Fail
    BY <2>2 DEF Fail, IInv, TypeOK
  <2> QED
    BY <2>1, <2>2
<1>4. TypeOK'
  <2>1. pc' \in {"receive", "execute", "except", "cleanup", "sockets", "ended"}
        /\ handler' \in {"none", "command", "script"}
    BY <1>2 DEF ToCommandHandler, RetryClose, Escape, ToScriptHandler, IInv,
                TypeOK
  <2>2. guard' \in BOOLEAN
    BY <1>2 DEF ToCommandHandler, RetryClose, Escape, ToScriptHandler, IInv,
                TypeOK
  <2> QED
    BY <1>1, <1>3, <2>1, <2>2 DEF Interrupt, Fail, IInv, TypeOK
<1>5. HandlerTracked'
  <2>1. CASE ToCommandHandler
    BY <2>1 DEF ToCommandHandler, IInv, HandlerTracked
  <2>2. CASE RetryClose
    BY <1>2, <2>2 DEF RetryClose, IInv, TypeOK, HandlerTracked
  <2>3. CASE Escape
    BY <2>3 DEF Escape, ToScriptHandler, HandlerTracked
  <2> QED
    BY <1>2, <2>1, <2>2, <2>3
<1>6. EnergisedWhere'
  <2> SUFFICES ASSUME energised PROVE EnergisedWhere'
    BY DEF Interrupt, Fail, EnergisedWhere
  <2>1. raised \in 0 .. 1 /\ raised' = raised + 1
    <3>1. raised < MaxRaised /\ raised' = raised + 1
      BY DEF Interrupt, Fail
    <3>2. raised \in 0 .. MaxRaised
      BY DEF IInv, TypeOK
    <3> QED
      BY <3>1, <3>2, InterfaceAssumption DEF InterfaceAssumption
  <2> QED
    BY <1>2, <2>1 DEF ToCommandHandler, RetryClose, Escape, ToScriptHandler,
       IInv, HandlerTracked, EnergisedWhere
<1>7. ~sockin' => ~energised'
  <2>1. energised' = energised
    BY DEF Interrupt, Fail
  <2>2. energised => pc' # "ended"
    BY <1>6, <2>1 DEF EnergisedWhere
  <2> QED
    BY <1>3, <2>1, <2>2 DEF IInv
<1> QED
  BY <1>4, <1>5, <1>6, <1>7 DEF IInv

\* close(), from either handler.
LEMMA CloseInv ==
  ASSUME IInv, Close \/ Cleanup \/ CloseSockets
  PROVE  IInv'
<1>1. CASE Close
  BY <1>1, InterfaceAssumption DEF InterfaceAssumption, Close, IInv, TypeOK,
     HandlerTracked, EnergisedWhere
<1>2. CASE Cleanup
  BY <1>2 DEF Cleanup, GPIOCleanup, IInv, TypeOK, HandlerTracked, EnergisedWhere
<1>3. CASE CloseSockets
  BY <1>3 DEF CloseSockets, SockinClosed, IInv, TypeOK, HandlerTracked, EnergisedWhere
<1> QED
  BY <1>1, <1>2, <1>3

LEMMA InterfaceNext ==
  ASSUME IInv, [Next]_vars
  PROVE  IInv'
<1>1. CASE UNCHANGED vars
  BY <1>1 DEF vars, IInv, TypeOK, HandlerTracked, EnergisedWhere
<1> QED
  BY <1>1, LoopInv, ExceptionInv, CloseInv DEF Next, Step

THEOREM InterfaceInvariant == Spec => []IInv
  BY InterfaceInit, InterfaceNext, PTL DEF Spec

\* Two exceptions at any two lines never leave the pins driven.
THEOREM NeverLeftOn == Spec => []LeftOff
<1>1. IInv => LeftOff
  BY DEF IInv, EnergisedWhere, LeftOff
<1> QED
  BY <1>1, InterfaceInvariant, PTL

\* A script at recvfrom does not drive its pins.
THEOREM QuietAtReceive == Spec => []QuietWhileWaiting
<1>1. IInv => QuietWhileWaiting
  BY DEF IInv, EnergisedWhere, QuietWhileWaiting
<1> QED
  BY <1>1, InterfaceInvariant, PTL

\* After the socket was closed nothing is driven, and it stays closed.
THEOREM StaysClosed == Spec => ClosedForGood
<1>1. IInv /\ IInv' /\ [Next]_vars => [~sockin => ~energised' /\ ~sockin']_vars
  <2> SUFFICES ASSUME IInv, IInv', Next, ~sockin
               PROVE  ~sockin'
    BY DEF IInv
  <2> QED
    BY DEF Next, Step, Arrive, Ignore, Undecodable, Execute, Received,
       ReceiveFails, Actuate, Finish, Interrupt, Fail, Close, Cleanup,
       CloseSockets, SockinClosed
<1> QED
  BY <1>1, InterfaceInvariant, PTL DEF Spec, ClosedForGood
-----------------------------------------------------------------------------
(* FocusMotor.                                                             *)

\* The table of switch goes round the coils in the order in which they stand.
LEMMA CoilsInOrder ==
  ASSUME NEW p \in Phases
  PROVE  Coils[p] = Held[p]
<1>1. CASE p = 0
  BY <1>1 DEF Coils, Held, Phases
<1>2. CASE p = 1
  BY <1>2 DEF Coils, Held, Phases
<1>3. CASE p = 2
  BY <1>3 DEF Coils, Held, Phases
<1>4. CASE p = 3
  BY <1>4 DEF Coils, Held, Phases
<1>5. CASE p = 4
  BY <1>5 DEF Coils, Held, Phases
<1>6. CASE p = 5
  BY <1>6 DEF Coils, Held, Phases
<1>7. CASE p = 6
  BY <1>7 DEF Coils, Held, Phases
<1>8. CASE p = 7
  BY <1>8 DEF Coils, Held, Phases
<1> QED
  BY <1>1, <1>2, <1>3, <1>4, <1>5, <1>6, <1>7, <1>8 DEF Phases

\* No two phases have the same pattern.
LEMMA CoilsInjective ==
  ASSUME NEW p \in Phases, NEW q \in Phases, Coils[p] = Coils[q]
  PROVE  p = q
  BY DEF Coils, Phases

\* Stepping by one goes with the remainder.
LEMMA StepModulo ==
  ASSUME NEW n \in Int, NEW d \in {1, -1}
  PROVE  /\ n % 8 \in Phases
         /\ ((n % 8) + d) % 8 = (n + d) % 8
  BY DEF Phases

\* A rotor that is at most a half step off turns to where a pattern points.
LEMMA RotorFollows ==
  ASSUME NEW n \in Int, rotor \in Int, rotor \in (n - 1) .. (n + 1),
         Turn(Coils[n % 8])
  PROVE  rotor' = n
<1>1. n \in Pulled(Coils[n % 8])
  BY CoilsInOrder, StepModulo DEF Pulled
<1>2. \A r \in Pulled(Coils[n % 8]) : r = n
  <2> SUFFICES ASSUME NEW r \in Pulled(Coils[n % 8]) PROVE r = n
    OBVIOUS
  <2>1. r \in Int /\ r \in (n - 2) .. (n + 2) /\ Coils[r % 8] = Coils[n % 8]
    BY CoilsInOrder, StepModulo DEF Pulled
  <2>2. r % 8 = n % 8
    BY <2>1, StepModulo, CoilsInjective
  <2> QED
    BY <2>1, <2>2
<1> QED
  BY <1>1, <1>2 DEF Turn

LEMMA MotorStarts == MotorInit => MotorIInv
  BY DEF MotorInit, MotorIInv, MotorTypeOK, NoDrift, travelled, Phases, Off

LEMMA FocusInv ==
  ASSUME MotorIInv, NEW size \in {1, 2}, NEW d \in {1, -1}, Focus(size, d)
  PROVE  MotorIInv'
<1>1. left' \in Nat /\ target' \in Int /\ travelled' = travelled
  BY MotorAssumption DEF MotorAssumption, Focus, MotorIInv, MotorTypeOK, travelled
<1> QED
  BY <1>1 DEF Focus, MotorIInv, MotorTypeOK, NoDrift, Phases

LEMMA SpinInv ==
  ASSUME MotorIInv, Spin
  PROVE  MotorIInv' /\ rotor' % 8 = phase' /\ phase' \in Phases
<1>1. travelled \in Int /\ travelled' = travelled + direction
  BY DEF Spin, MotorIInv, MotorTypeOK, travelled
<1>2. rotor' = travelled
  BY <1>1, RotorFollows DEF Spin, MotorIInv, MotorTypeOK, NoDrift
<1>3. state' = travelled' % 8 /\ state' \in Phases
  BY <1>1, StepModulo DEF Spin, NextPhase, MotorIInv, MotorTypeOK
<1> QED
  BY <1>1, <1>2, <1>3 DEF Spin, MotorIInv, MotorTypeOK, NoDrift

LEMMA SwitchOffInv ==
  ASSUME MotorIInv, SwitchOff
  PROVE  MotorIInv'
  BY DEF SwitchOff, StateKept, MotorIInv, MotorTypeOK, NoDrift, travelled, Off

LEMMA CutShortInv ==
  ASSUME MotorIInv, CutShort
  PROVE  MotorIInv'
<1>1. travelled \in Int /\ target' = travelled /\ left' = 0
  BY DEF CutShort, MotorIInv, MotorTypeOK, travelled
<1>2. travelled' = travelled
  BY <1>1 DEF CutShort, MotorIInv, MotorTypeOK, travelled
<1> QED
  BY <1>1, <1>2 DEF CutShort, MotorIInv, MotorTypeOK, NoDrift, Off

LEMMA MotorKeeps ==
  ASSUME MotorIInv, [MotorNext]_motor
  PROVE  MotorIInv'
<1>1. CASE UNCHANGED motor
  BY <1>1 DEF motor, MotorIInv, MotorTypeOK, NoDrift, travelled
<1> QED
  BY <1>1, FocusInv, SpinInv, SwitchOffInv, CutShortInv DEF MotorNext

THEOREM MotorInvariant == MotorSpec => []MotorIInv
  BY MotorStarts, MotorKeeps, PTL DEF MotorSpec

\* The position error never adds up, whatever the sequence of commands.
THEOREM PositionKept == MotorSpec => []NoDrift
<1>1. MotorIInv => NoDrift
  BY DEF MotorIInv
<1> QED
  BY <1>1, MotorInvariant, PTL

\* The rotor follows every pattern that is energised.
THEOREM EveryStepFollowed == MotorSpec => NeverSlips
<1>1. MotorIInv /\ [MotorNext]_motor => [phase' # Off => Held[rotor' % 8] = Coils[phase']]_motor
  <2> SUFFICES ASSUME MotorIInv, MotorNext, phase' # Off
               PROVE  Held[rotor' % 8] = Coils[phase']
    BY DEF motor
  <2>1. CASE Spin
    BY <2>1, SpinInv, CoilsInOrder
  <2> QED
    BY <2>1 DEF MotorNext, Focus, SwitchOff, CutShort
<1> QED
  BY <1>1, MotorInvariant, PTL DEF MotorSpec, NeverSlips
-----------------------------------------------------------------------------
(* GPIOScript.                                                             *)

LEMMA SizeAndDirection ==
  ASSUME NEW command
  PROVE  Size(command) \in {1, 2} /\ Direction(command) \in {1, -1}
BY DEF Size, Direction

\* A half step is the first that drives the pins, or they are driven already.
LEMMA DriveMapped ==
  ASSUME TypeOK, Drive
  PROVE  [Next]_vars
<1>1. CASE energised = TRUE
  BY <1>1 DEF Drive, DriveFreely, vars, control
<1>2. CASE energised = FALSE
  <2>1. Actuate
    BY <1>2 DEF Drive, DriveFreely, Actuate
  <2> QED
    BY <2>1 DEF Next, Step
<1> QED
  BY <1>1, <1>2 DEF TypeOK

LEMMA InterfaceStep ==
  ASSUME TypeOK, [ScriptNext]_allVars
  PROVE  [Next]_vars
<1>1. CASE ScriptStep
  <2>1. CASE ExecuteFocus
    BY <2>1 DEF ExecuteFocus, Next, Step
  <2>2. CASE Drive
    BY <2>2, DriveMapped
  <2>3. CASE FinishFocus
    BY <2>3 DEF FinishFocus, Next, Step
  <2>4. CASE CleanupPins
    BY <2>4 DEF CleanupPins, Next, Step
  <2>5. CASE Ignore \/ Undecodable \/ ReceiveFails \/ Close \/ CloseSockets
    BY <2>5 DEF Next, Step
  <2> QED
    BY <1>1, <2>1, <2>2, <2>3, <2>4, <2>5 DEF ScriptStep
<1>2. CASE (\E d \in Datagrams : Arrive(d)) \/ Interrupt \/ Fail
  BY <1>2 DEF Next
<1>3. CASE UNCHANGED allVars
  BY <1>3 DEF allVars, vars
<1> QED
  BY <1>1, <1>2, <1>3 DEF ScriptNext

LEMMA MotorStep ==
  ASSUME [ScriptNext]_allVars
  PROVE  [MotorNext]_motor
<1>1. CASE ExecuteFocus
  BY <1>1, SizeAndDirection DEF ExecuteFocus, MotorNext
<1>2. CASE Drive
  BY <1>2 DEF Drive, DriveFreely, MotorNext
<1>3. CASE FinishFocus
  BY <1>3 DEF FinishFocus, MotorNext
<1>4. CASE CleanupPins
  BY <1>4 DEF CleanupPins, MotorNext
<1>5. CASE UNCHANGED motor
  BY <1>5
<1>6. CASE UNCHANGED allVars
  BY <1>6 DEF allVars
<1> QED
  BY <1>1, <1>2, <1>3, <1>4, <1>5, <1>6 DEF ScriptNext, ScriptStep

\* The script implements the receive loop of HardwareInterface.
THEOREM ScriptIsInterface == ScriptSpec => ImplementsInterface
<1>1. ScriptInit => Init /\ IInv
  BY InterfaceInit DEF ScriptInit
<1>2. IInv /\ [ScriptNext]_allVars => [Next]_vars /\ IInv'
  BY InterfaceStep, InterfaceNext DEF IInv
<1> QED
  BY <1>1, <1>2, PTL DEF ScriptSpec, ImplementsInterface, Spec

\* The script moves the motor only as FocusMotor does.
THEOREM ScriptIsMotor == ScriptSpec => ImplementsMotor
<1>1. ScriptInit => MotorInit
  BY DEF ScriptInit
<1>2. [ScriptNext]_allVars => [MotorNext]_motor
  BY MotorStep
<1> QED
  BY <1>1, <1>2, PTL DEF ScriptSpec, ImplementsMotor, MotorSpec

\* So its rotor stays within half a step, through commands and interrupts.
THEOREM ScriptKeepsPosition == ScriptSpec => []NoDrift
  BY ScriptIsMotor, PositionKept, PTL DEF ImplementsMotor

\* `energised' is what switch last did: LeftOff speaks of the coils.
THEOREM EnergisedIsPhase == ScriptSpec => []PinsAgree
<1>1. ScriptInit => PinsAgree
  BY DEF ScriptInit, Init, MotorInit, PinsAgree
<1>2. ASSUME MotorIInv, PinsAgree, [ScriptNext]_allVars
      PROVE  PinsAgree'
  <2>1. CASE ExecuteFocus
    BY <1>2, <2>1 DEF ExecuteFocus, Execute, Received, Focus, PinsAgree
  <2>2. CASE Drive
    BY <1>2, <2>2 DEF Drive, DriveFreely, Spin, PinsAgree, MotorIInv, MotorTypeOK, Phases, Off
  <2>3. CASE FinishFocus
    BY <2>3 DEF FinishFocus, Finish, OutputsOff, SwitchOff, PinsAgree
  <2>4. CASE CleanupPins
    BY <2>4 DEF CleanupPins, Cleanup, GPIOCleanup, CutShort, PinsAgree
  <2>5. CASE /\ \/ Ignore \/ Undecodable \/ ReceiveFails \/ Close \/ CloseSockets
                \/ (\E d \in Datagrams : Arrive(d)) \/ Interrupt \/ Fail
             /\ UNCHANGED motor
    BY <1>2, <2>5 DEF Ignore, Undecodable, ReceiveFails, Close, CloseSockets, Arrive,
       Received, Interrupt, Fail, motor, PinsAgree
  <2>6. CASE UNCHANGED allVars
    BY <1>2, <2>6 DEF allVars, vars, motor, PinsAgree
  <2> QED
    BY <1>2, <2>1, <2>2, <2>3, <2>4, <2>5, <2>6 DEF ScriptNext, ScriptStep
<1> QED
  BY <1>1, <1>2, ScriptIsMotor, MotorInvariant, PTL DEF ScriptSpec, ImplementsMotor
=============================================================================
