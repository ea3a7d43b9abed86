----------------------------- MODULE GPIOScript -----------------------------
(***************************************************************************)
(* gpio_focus_motor.py as it runs: the receive loop of HardwareInterface   *)
(* whose commands are those of FocusMotor.  An exception can end a command *)
(* between any two half steps; close() then switches the outputs off.      *)
(***************************************************************************)
EXTENDS HardwareInterface, FocusMotor

\* The arguments that capabilities names for Focus.
ASSUME ScriptAssumption == Commands \subseteq {"+", "++", "-", "--"}

Size(command)      == IF command \in {"++", "--"} THEN 2 ELSE 1
Direction(command) == IF command \in {"+", "++"} THEN 1 ELSE -1

allVars == <<vars, motor>>

ScriptInit == Init /\ MotorInit

ExecuteFocus ==
  /\ Execute
  /\ Focus(Size(Head(pending)), Direction(Head(pending)))

\* A faulty variant: the motor turns on whatever the script does.
DriveFreely ==
  /\ Spin
  /\ energised' = TRUE
  /\ UNCHANGED <<control, sockin, pending, raised>>

Drive == pc = "execute" /\ DriveFreely

FinishFocus == Finish /\ SwitchOff

\* A faulty variant: the outputs go off, the rest of the command stays.
CleanupNotCut ==
  Cleanup /\ phase' = Off /\ UNCHANGED <<state, target, direction, left, rotor>>

CleanupPins == Cleanup /\ CutShort

ScriptStep ==
  \/ ExecuteFocus \/ Drive \/ FinishFocus \/ CleanupPins
  \/ (Ignore \/ Undecodable \/ ReceiveFails \/ Close \/ CloseSockets) /\ UNCHANGED motor

ScriptNext ==
  \/ ScriptStep
  \/ ((\E d \in Datagrams : Arrive(d)) \/ Interrupt \/ Fail) /\ UNCHANGED motor

ScriptSpec == ScriptInit /\ [][ScriptNext]_allVars

\* The process runs: spin does a bounded number of half steps.
FairScript == ScriptSpec /\ WF_allVars(ScriptStep)
-----------------------------------------------------------------------------
\* The receive loop's idea of the pins, with which HardwareInterface answers
\* for the ends of every script, is what switch last did to them.
PinsAgree == energised <=> phase # Off

\* The script implements both: the receive loop of every class, and a motor
\* whose commands end early only by losing their rest.
ImplementsInterface == Spec
ImplementsMotor     == MotorSpec
=============================================================================
