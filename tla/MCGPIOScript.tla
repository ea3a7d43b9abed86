---------------------------- MODULE MCGPIOScript ----------------------------
(* Values for the constants of GPIOScript.                                 *)
EXTENDS GPIOScript

MCCommands == {"+", "--"}
MCOthers   == {"Focus up"}
MCGarbled  == {"not UTF-8"}
=============================================================================
