------------------------------ MODULE MCStart ------------------------------
(***************************************************************************)
(* What main does with its own memory and scripts (Startup), and how the   *)
(* settings of a camera reach a stream (SensorSetup).  The two share no    *)
(* state, so that each is run while the other stays where it begins.       *)
(***************************************************************************)
EXTENDS MCSensorSetup, MCStartup

StartInit == Init /\ SetupInit

StartNext ==
  \/ SetupInit /\ Next /\ UNCHANGED setupVars
  \/ Init /\ SetupNext /\ UNCHANGED vars

StartSpec == StartInit /\ [][StartNext]_<<vars, setupVars>>
=============================================================================
