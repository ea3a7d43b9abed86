--------------------------- MODULE CameraSession ---------------------------
(***************************************************************************)
(* What the camera program promises to the people who trigger it: raw clips *)
(* are recorded only during a viewing session, one at a time, each under   *)
(* the name of the trigger that started it, and no clip runs without a     *)
(* limit.                                                                  *)
(***************************************************************************)
CONSTANTS Clips,     \* the names a trigger can give to a clip
          NoClip     \* nothing is being recorded

VARIABLES phase,     \* "idle": no viewer, "live": streaming, "ended"
          clip,      \* the clip being recorded, or NoClip
          limited    \* a time limit is armed

session == <<phase, clip, limited>>

SessionTypeOK ==
  /\ phase \in {"idle", "live", "ended"}
  /\ clip \in Clips \cup {NoClip}
  /\ limited \in BOOLEAN

SessionInit == phase = "idle" /\ clip = NoClip /\ limited = FALSE

\* A viewer connects; nothing is recorded before a trigger asks for it.
Connect ==
  phase = "idle" /\ phase' = "live" /\ clip' = NoClip /\ limited' = TRUE

\* A trigger starts a clip, or replaces the running one.
StartClip ==
  phase = "live" /\ clip' \in Clips /\ limited' = TRUE /\ UNCHANGED phase

\* A trigger or the time limit ends the clip; the limit is armed again.
StopClip ==
  phase = "live" /\ clip' = NoClip /\ limited' = TRUE /\ UNCHANGED phase

\* The last viewer leaves: whatever was recorded ends, and so does the limit.
Disconnect ==
  phase = "live" /\ phase' = "idle" /\ clip' = NoClip /\ limited' = FALSE

\* The program stops.
End ==
  phase # "ended" /\ phase' = "ended" /\ clip' = NoClip /\ limited' = FALSE

SessionNext ==
  Connect \/ StartClip \/ StopClip \/ Disconnect \/ End

SessionSpec == SessionInit /\ [][SessionNext]_session
=============================================================================
