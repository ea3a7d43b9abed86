------------------------------ MODULE ClipStore ------------------------------
(***************************************************************************)
(* What raw recording promises about the files it leaves: one clip is      *)
(* written at a time, each in one piece and once, except that it may begin *)
(* again during its first Grace frames, and none is longer than MaxLength. *)
(***************************************************************************)
EXTENDS Naturals

CONSTANTS Timestamps,  \* the clips' names
          MaxLength,   \* frames in the longest clip
          Grace,       \* frames a clip may lose at its beginning
          None         \* no clip is being written

VARIABLES current,     \* the clip being written, or None
          length       \* frames in each clip; 0 when there is none

store == <<current, length>>

StoreInit == current = None /\ length = [t \in Timestamps |-> 0]

\* A new clip is opened by its first frame.
Open(t) ==
  /\ length[t] = 0
  /\ current' = t
  /\ length' = [length EXCEPT ![t] = 1]

Extend ==
  /\ current # None /\ length[current] < MaxLength
  /\ length' = [length EXCEPT ![current] = @ + 1]
  /\ UNCHANGED current

\* The clip begins again: its first frames are lost.
Reopen ==
  /\ current # None /\ length[current] <= Grace
  /\ length' = [length EXCEPT ![current] = 1]
  /\ UNCHANGED current

Close == current' = None /\ UNCHANGED length

StoreNext == Extend \/ Reopen \/ Close \/ \E t \in Timestamps : Open(t)

StoreSpec == StoreInit /\ [][StoreNext]_store
=============================================================================
