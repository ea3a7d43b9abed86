------------------------------ MODULE MCCamera ------------------------------
(* Values for the constants of Camera.                                     *)
EXTENDS Camera, TLC

\* <label> <command> <timestamp>, as the proctor application sends it.
Message(label, command, timestamp) ==
  <<label, Space, command, Space, timestamp>>

\* Two clips, a stop for this location, a setting, and a trigger for another
\* camera.
ClipMessages ==
  {Message("all", "start", "t1"), Message("cam1", "start", "t2"),
   Message("site", "stop", "t3")}

AllMessages ==
  ClipMessages \cup
  {Message("all", "gain", "9.5"), Message("cam2", "start", "t4"),
   <<"all", Space, "stop", Space>>}

LaunchSettings == [exposure_time |-> "5000", gain |-> "1"]

SourceSymmetry == Permutations(SourceIds)
=============================================================================
