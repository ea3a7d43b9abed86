----------------------------- MODULE MCStartup -----------------------------
(* Values for the constants of Startup.                                    *)
EXTENDS Startup

EveryStep == {Setup[i].step : i \in 1 .. Len(Setup)} \cup {"fork", "exec"}
=============================================================================
