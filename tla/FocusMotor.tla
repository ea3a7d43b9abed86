----------------------------- MODULE FocusMotor -----------------------------
(***************************************************************************)
(* The stepper motor of gpio_focus_motor.py.  A command energises one coil *)
(* pattern after the other; `state' is the pattern to energise next and is *)
(* kept from command to command.  The rotor, counted from where coil 4     *)
(* holds it, follows a pattern that pulls it at most one half step, and    *)
(* slips otherwise.                                                        *)
(***************************************************************************)
EXTENDS Integers

CONSTANTS STEP_SIZE,  \* half steps of a "+" command, 50 in the code
          MaxTravel   \* bound: half steps away from the start

ASSUME MotorAssumption ==
  /\ STEP_SIZE \in Nat \ {0}
  /\ MaxTravel \in Nat

VARIABLES
  state,      \* the next phase to energise
  phase,      \* the phase that is energised, or Off
  target,     \* half steps commanded since the start
  direction,  \* of the command being executed
  left,       \* half steps of it still to do
  rotor       \* half steps the rotor has made

motor == <<state, phase, target, direction, left, rotor>>

Phases == 0 .. 7
Off == 8

MotorInit ==
  /\ state = 0 /\ phase = Off
  /\ target = 0 /\ direction = 1 /\ left = 0
  /\ rotor = 0

\* A faulty variant: two rows of the table are swapped.
SwappedCoils ==
  [p \in Phases |-> CASE p = 0 -> {4}  [] p = 1 -> {3, 4} [] p = 2 -> {3}
                      [] p = 3 -> {2}  [] p = 4 -> {2, 3} [] p = 5 -> {1, 2}
                      [] p = 6 -> {1}  [] p = 7 -> {1, 4}]

\* The outputs IN1 to IN4 that switch sets high.
Coils ==
  [p \in Phases |-> CASE p = 0 -> {4}     [] p = 1 -> {3, 4} [] p = 2 -> {3}
                      [] p = 3 -> {2, 3}  [] p = 4 -> {2}    [] p = 5 -> {1, 2}
                      [] p = 6 -> {1}     [] p = 7 -> {1, 4}]

\* The motor: coil c stands 2 * (4 - c) half steps round the circle of 8, and a
\* rotor is held where it is by the coils at most one half step away.
Held == [p \in Phases |-> {c \in 1 .. 4 : (p + 2 * c) % 8 \in {7, 0, 1}}]

\* The positions next to the rotor, itself included, that a pattern holds.
Pulled(pattern) ==
  {r \in {rotor - 1, rotor, rotor + 1} : Held[r % 8] = pattern}

Turn(pattern) ==
  \/ rotor' \in Pulled(pattern)
  \/ Pulled(pattern) = {} /\ UNCHANGED rotor

\* Focus: one or two steps' worth, in either direction.
Focus(size, d) ==
  /\ left = 0 /\ phase = Off
  /\ left' = size * STEP_SIZE /\ direction' = d
  /\ target' = target + d * left'
  /\ target' \in -MaxTravel .. MaxTravel
  /\ UNCHANGED <<state, phase, rotor>>

NextPhase(d) == (state + d) % 8

\* One turn of the loop in spin.
Spin ==
  /\ left > 0
  /\ phase' = state /\ Turn(Coils[state])
  /\ state' = NextPhase(direction)
  /\ left' = left - 1
  /\ UNCHANGED <<target, direction>>

\* A faulty variant: every command starts at the first phase.
StateReset == state' = 0

StateKept == UNCHANGED state

SwitchOff ==
  /\ left = 0 /\ phase # Off
  /\ phase' = Off
  /\ StateKept
  /\ UNCHANGED <<target, direction, left, rotor>>

\* GPIO.cleanup, when an exception ended the command: its rest is dropped.
CutShort ==
  /\ phase' = Off
  /\ left' = 0 /\ target' = target - direction * left
  /\ UNCHANGED <<state, direction, rotor>>

MotorNext ==
  (\E size \in {1, 2}, d \in {1, -1} : Focus(size, d))
  \/ Spin \/ SwitchOff \/ CutShort

MotorSpec == MotorInit /\ [][MotorNext]_motor
-----------------------------------------------------------------------------
MotorTypeOK ==
  /\ state \in Phases /\ phase \in Phases \cup {Off}
  /\ target \in Int /\ rotor \in Int
  /\ direction \in {1, -1} /\ left \in Nat

\* Half steps the finished part of the commands asked for.
travelled == target - direction * left

\* However many commands of whatever direction, the rotor is within half a step
\* of where they sent it: what a reversal loses is not lost again.
NoDrift == rotor \in (travelled - 1) .. (travelled + 1)

\* No pattern is energised that the rotor cannot follow: commands do not slip,
\* at a reversal or across the wrap of the phase or at the start of a command.
NeverSlips == [][phase' # Off => Held[rotor' % 8] = Coils[phase']]_motor

\* The inductive invariant behind the theorems of FocusMotorProofs.
MotorIInv == MotorTypeOK /\ NoDrift /\ state = travelled % 8
=============================================================================
