------------------------- MODULE RawRecorderProofs -------------------------
(***************************************************************************)
(* Theorems about RawRecorder for every set of clips and all limits, when  *)
(* max-size-time exceeds the longest clip.                                 *)
(***************************************************************************)
EXTENDS RawRecorder, TLAPS

\* pipeline.txt and config.json agree: splitmuxsink never splits by length.
RoomForClips == MaxLength < MaxSizeTime

LEMMA TimerRange ==
  /\ 0 .. RawTimeLimit + Late \subseteq Nat
  /\ 0 \in 0 .. RawTimeLimit + Late
  /\ 1 <= MaxLength /\ MaxLength \in Nat
BY RecorderAssumption DEF RecorderAssumption, MaxLength

LEMMA InitInv == Init => IInv
<1> SUFFICES ASSUME Init PROVE IInv
  OBVIOUS
<1> USE RecorderAssumption DEF RecorderAssumption, Init
<1>1. TypeOK
  BY TimerRange DEF TypeOK
<1>2. AgeBounded /\ ClipsTracked
  BY DEF AgeBounded, ClipsTracked, MaxLength
<1>3. FewBeforeSplit /\ Settled
  BY DEF FewBeforeSplit, Settled
<1> QED
  BY <1>1, <1>2, <1>3 DEF IInv

LEMMA ConnectInv == ASSUME IInv, Connect PROVE IInv'
<1> USE RecorderAssumption DEF RecorderAssumption, Connect, IInv
<1>1. TypeOK'
  BY TimerRange DEF TypeOK
<1>2. AgeBounded'
  BY DEF AgeBounded, MaxLength, TypeOK
<1>3. ClipsTracked'
  BY DEF ClipsTracked, AgeBounded, MaxLength, TypeOK
<1>4. FewBeforeSplit' /\ Settled'
  BY DEF FewBeforeSplit, Settled, AgeBounded, TypeOK
<1> QED
  BY <1>1, <1>2, <1>3, <1>4

LEMMA DisconnectInv == ASSUME IInv, Disconnect PROVE IInv'
<1> USE RecorderAssumption
    DEF RecorderAssumption, Disconnect, DiscardFrames, IInv
<1>1. TypeOK'
  BY DEF TypeOK
<1>2. AgeBounded'
  BY DEF AgeBounded, MaxLength, TypeOK
<1>3. ClipsTracked'
  BY DEF ClipsTracked, MaxLength, TypeOK
<1>4. FewBeforeSplit' /\ Settled'
  BY DEF FewBeforeSplit, Settled, TypeOK
<1> QED
  BY <1>1, <1>2, <1>3, <1>4

LEMMA RecordRawInv ==
  ASSUME IInv, NEW t \in Timestamps, RecordRaw(t) PROVE IInv'
BY RecorderAssumption
DEF RecorderAssumption, RecordRaw, RestartFileLimitTimer, sink, IInv, TypeOK,
    AgeBounded, ClipsTracked, FewBeforeSplit, Settled, MaxLength,
    FormatLocation

LEMMA StopRecordRawInv == ASSUME IInv, StopRecordRaw PROVE IInv'
BY RecorderAssumption
DEF RecorderAssumption, StopRecordRaw, DiscardFrames, RestartFileLimitTimer,
    sink, IInv, TypeOK, AgeBounded, ClipsTracked, FewBeforeSplit, Settled,
    MaxLength, FormatLocation

LEMMA SplitNowInv == ASSUME IInv, SplitNow PROVE IInv'
<1> USE RecorderAssumption DEF RecorderAssumption, SplitNow, EmitSplitNow, IInv
<1>1. TypeOK'
  BY DEF TypeOK
<1>2. AgeBounded'
  BY DEF AgeBounded, MaxLength, TypeOK
<1>3. ClipsTracked'
  BY DEF ClipsTracked, TypeOK
<1>4. FewBeforeSplit'
  BY DEF FewBeforeSplit, AgeBounded, TypeOK
<1>5. Settled'
  <2>1. is_raw_recording' <=> pc = "record"
    BY Zenon
  <2>2. pc = "record" <=> recording_filepath \in Timestamps
    BY DEF FewBeforeSplit, TypeOK
  <2> QED
    BY <2>1, <2>2 DEF Settled, AgeBounded, TypeOK
<1> QED
  BY <1>1, <1>2, <1>3, <1>4, <1>5

\* Where room is left for the longest clip, a fragment is only ever replaced
\* because there is none or because split-now was emitted.
LEMMA NeverFull ==
  ASSUME IInv, Frame, RoomForClips
  PROVE  NewFragment <=> (split \/ fragment = NULL)
BY RecorderAssumption
DEF RecorderAssumption, IInv, AgeBounded, TypeOK, RoomForClips, MaxLength,
    NewFragment

LEMMA FrameInv == ASSUME IInv, Frame, RoomForClips PROVE IInv'
<1> USE RecorderAssumption DEF RecorderAssumption
<1>0. /\ is_streaming /\ timer \in Nat /\ timer < RawTimeLimit + Late
      /\ pc # "idle" => timer < Lag
      /\ timer' = timer + 1
      /\ UNCHANGED <<is_streaming, recording_filepath, is_raw_recording, pc,
                     used>>
      /\ IInv
  BY DEF Frame, IInv, TypeOK
<1>1. CASE split \/ fragment = NULL
  <2>1. /\ fragment' = FormatLocation /\ fragment_age' = 1 /\ split' = FALSE
        /\ Write(FormatLocation, TRUE)
    BY <1>1, NeverFull DEF Frame
  <2>2. /\ fragment' # NULL
        /\ fragment' \in Timestamps => fragment' = recording_filepath
        /\ recording_filepath \in Timestamps => fragment' = recording_filepath
        /\ FormatLocation' = FormatLocation
        /\ fragment' \in Timestamps \cup {DevNull}
    BY <1>0, <2>1 DEF FormatLocation, IInv, TypeOK
  <2>3. \A t \in Timestamps :
          length'[t] = IF t = fragment' THEN 1 ELSE length[t]
    BY <2>1, <2>2 DEF Write, IInv, TypeOK
  <2>4. TypeOK'
    <3>1. length' \in [Timestamps -> Nat]
      BY <2>1 DEF Write, IInv, TypeOK
    <3>2. timer' \in 0 .. RawTimeLimit + Late
      BY <1>0
    <3> QED
      BY <1>0, <2>1, <2>2, <3>1, <3>2 DEF TypeOK, IInv
  <2>5. AgeBounded'
    BY <1>0, <2>1, <2>2 DEF AgeBounded, MaxLength, IInv
  <2>6. ClipsTracked'
    BY <1>0, <2>1, <2>2, <2>3, TimerRange DEF ClipsTracked, IInv
  <2>7. FewBeforeSplit'
    BY <1>0, <2>1, <2>2 DEF FewBeforeSplit, IInv
  <2>8. Settled'
    BY <1>0, <2>1, <2>2 DEF Settled, IInv
  <2> QED
    BY <2>4, <2>5, <2>6, <2>7, <2>8 DEF IInv
<1>2. CASE ~(split \/ fragment = NULL)
  <2>1. /\ fragment_age' = fragment_age + 1
        /\ Write(fragment, FALSE)
        /\ UNCHANGED <<fragment, split>>
    BY <1>2, NeverFull DEF Frame
  <2>2. \A t \in Timestamps :
          length'[t] = IF t = fragment THEN length[t] + 1 ELSE length[t]
    BY <2>1 DEF Write, IInv, TypeOK
  <2>3. TypeOK'
    BY <1>0, <2>1 DEF TypeOK, Write, IInv
  <2>4. AgeBounded'
    BY <1>0, <1>2, <2>1 DEF AgeBounded, MaxLength, IInv, TypeOK
  <2>5. ClipsTracked'
    BY <1>0, <1>2, <2>1, <2>2, <2>4
    DEF ClipsTracked, AgeBounded, IInv, TypeOK
  <2>6. FewBeforeSplit'
    BY <1>0, <1>2, <2>1 DEF FewBeforeSplit, IInv, TypeOK
  <2>7. Settled'
    BY <1>0, <1>2, <2>1 DEF Settled, IInv, FormatLocation
  <2> QED
    BY <2>3, <2>4, <2>5, <2>6, <2>7 DEF IInv
<1> QED
  BY <1>1, <1>2
LEMMA NextInv ==
  ASSUME RoomForClips
  PROVE  IInv /\ [Next]_vars => IInv'
<1> SUFFICES ASSUME IInv, [Next]_vars PROVE IInv'
  OBVIOUS
<1>1. CASE Connect
  BY <1>1, ConnectInv
<1>2. CASE Disconnect
  BY <1>2, DisconnectInv
<1>3. CASE \E t \in Timestamps : RecordRaw(t)
  BY <1>3, RecordRawInv
<1>4. CASE StopRecordRaw \/ FileLimit
  BY <1>4, StopRecordRawInv DEF FileLimit
<1>5. CASE SplitNow
  BY <1>5, SplitNowInv
<1>6. CASE Frame
  BY <1>6, FrameInv
<1>7. CASE UNCHANGED vars
  BY <1>7
  DEF vars, recorder, sink, IInv, TypeOK, AgeBounded, ClipsTracked,
      FewBeforeSplit, Settled, FormatLocation
<1> QED
  BY <1>1, <1>2, <1>3, <1>4, <1>5, <1>6, <1>7 DEF Next

LEMMA SpecInv == ASSUME RoomForClips PROVE Spec => []IInv
BY InitInv, NextInv, PTL DEF Spec

\* For every limit and every delay: Lag frames after a start, a stop or the
\* limit, the frames go where the trigger said and the status says so.
THEOREM FramesFollowTriggers ==
  ASSUME RoomForClips PROVE Spec => []FramesFollow
<1>1. IInv => FramesFollow
  BY RecorderAssumption
  DEF RecorderAssumption, IInv, TypeOK, AgeBounded, Settled, FramesFollow,
      FormatLocation
<1> QED
  BY <1>1, SpecInv, PTL

\* How one frame changes the files.
LEMMA FrameWrites ==
  ASSUME IInv, Frame, RoomForClips, NEW t \in Timestamps,
         length'[t] # length[t]
  PROVE  /\ fragment' = t
         /\ \/ /\ length'[t] = 1
               /\ length[t] <= Lag
               /\ (fragment = t \/ length[t] = 0)
            \/ /\ length'[t] = length[t] + 1
               /\ fragment = t
<1>1. CASE split \/ fragment = NULL
  <2>1. fragment' = FormatLocation /\ Write(FormatLocation, TRUE)
    BY <1>1, NeverFull DEF Frame
  <2>2. FormatLocation = t /\ recording_filepath = t /\ length'[t] = 1
    BY <2>1, RecorderAssumption
    DEF Write, FormatLocation, IInv, TypeOK, RecorderAssumption
  <2>3. fragment # t => length[t] = 0
    BY <2>2 DEF IInv, ClipsTracked
  <2>4. fragment = t => length[t] <= Lag
    BY <1>1, <2>2, RecorderAssumption
    DEF Frame, IInv, ClipsTracked, FewBeforeSplit, AgeBounded, TypeOK,
        RecorderAssumption
  <2> QED
    BY <2>1, <2>2, <2>3, <2>4, RecorderAssumption DEF RecorderAssumption
<1>2. CASE ~(split \/ fragment = NULL)
  BY <1>2, NeverFull DEF Frame, Write, IInv, TypeOK
<1> QED
  BY <1>1, <1>2

\* Only the streaming thread writes files.
LEMMA OnlyFrameWrites ==
  ASSUME [Next]_vars, ~Frame PROVE UNCHANGED length
BY DEF Next, Connect, Disconnect, RecordRaw, StopRecordRaw, FileLimit,
       SplitNow, vars, sink

\* No clip exceeds the limit and none loses a frame once split-now is out, for
\* every limit, provided max-size-time leaves room for the longest clip.
THEOREM NoClipIsLost == ASSUME RoomForClips PROVE Spec => ClipsKept
<1>1. IInv /\ IInv' /\ [Next]_vars =>
        [\A t \in Timestamps :
           /\ length'[t] < length[t] => length[t] <= Lag
           /\ length'[t] <= MaxLength]_vars
  <2> SUFFICES ASSUME IInv, IInv', [Next]_vars, NEW t \in Timestamps
               PROVE  /\ length'[t] < length[t] => length[t] <= Lag
                      /\ length'[t] <= MaxLength
    OBVIOUS
  <2>1. length'[t] <= MaxLength
    BY DEF IInv, ClipsTracked
  <2>2. ASSUME length'[t] < length[t] PROVE length[t] <= Lag
    <3>1. length'[t] # length[t] /\ Frame
      BY <2>2, OnlyFrameWrites DEF IInv, TypeOK
    <3> QED
      BY <2>2, <3>1, FrameWrites DEF IInv, TypeOK
  <2> QED
    BY <2>1, <2>2
<1> QED
  BY <1>1, SpecInv, PTL DEF Spec, ClipsKept
LEMMA InitRefines == Init => Store!StoreInit
BY RecorderAssumption DEF RecorderAssumption, Init, Store!StoreInit

LEMMA FrameRefines ==
  ASSUME IInv, IInv', Frame, RoomForClips
  PROVE  [Store!StoreNext]_(Store!store)
<1> DEFINE current == IF fragment \in Timestamps THEN fragment ELSE NULL
<1> USE RecorderAssumption DEF RecorderAssumption
<1>0. /\ fragment \in Timestamps \cup {DevNull, NULL}
      /\ length \in [Timestamps -> Nat]
      /\ \A t \in Timestamps : length'[t] <= MaxLength
  BY DEF IInv, TypeOK, ClipsTracked
<1>1. CASE split \/ fragment = NULL
  <2>1. fragment' = FormatLocation /\ Write(FormatLocation, TRUE)
    BY <1>1, NeverFull DEF Frame
  <2>2. CASE FormatLocation \notin Timestamps
    <3>1. current' = NULL /\ UNCHANGED length
      BY <2>1, <2>2 DEF Write
    <3> QED
      BY <3>1 DEF Store!StoreNext, Store!Close
  <2>3. CASE FormatLocation \in Timestamps
    <3>1. PICK t \in Timestamps : t = FormatLocation
      BY <2>3
    <3>2. current' = t /\ length' = [length EXCEPT ![t] = 1]
      BY <2>1, <3>1 DEF Write
    <3>3. CASE fragment = t
      <4>1. current = t /\ length[t] <= Lag /\ t # NULL
        BY <1>0, <1>1, <3>1, <3>3
        DEF Frame, FormatLocation, IInv, ClipsTracked, FewBeforeSplit,
            AgeBounded, TypeOK
      <4> QED
        BY <3>2, <4>1 DEF Store!StoreNext, Store!Reopen
    <3>4. CASE fragment # t
      <4>1. length[t] = 0
        BY <3>1, <3>4 DEF FormatLocation, IInv, ClipsTracked
      <4> QED
        BY <3>2, <4>1 DEF Store!StoreNext, Store!Open
    <3> QED
      BY <3>3, <3>4
  <2> QED
    BY <2>2, <2>3
<1>2. CASE ~(split \/ fragment = NULL)
  <2>1. UNCHANGED fragment /\ Write(fragment, FALSE)
    BY <1>2, NeverFull DEF Frame
  <2>2. CASE fragment \notin Timestamps
    BY <2>1, <2>2 DEF Write, Store!store
  <2>3. CASE fragment \in Timestamps
    <3>1. /\ current = fragment /\ current' = current /\ current # NULL
          /\ length' = [length EXCEPT ![current] = @ + 1]
      BY <2>1, <2>3 DEF Write
    <3>2. length[current] < MaxLength
      BY <1>0, <2>3, <3>1, TimerRange
    <3> QED
      BY <3>1, <3>2 DEF Store!StoreNext, Store!Extend
  <2> QED
    BY <2>2, <2>3
<1> QED
  BY <1>1, <1>2

\* The clips on the disk are as the abstract ClipStore promises.
THEOREM RecorderImplementsStore == ASSUME RoomForClips PROVE Spec => StoreSpec
<1>1. IInv /\ IInv' /\ [Next]_vars => [Store!StoreNext]_(Store!store)
  <2> SUFFICES ASSUME IInv, IInv', [Next]_vars
               PROVE  [Store!StoreNext]_(Store!store)
    OBVIOUS
  <2>1. CASE Frame
    BY <2>1, FrameRefines
  <2>2. CASE Connect \/ Disconnect
    <3>1. fragment' = NULL /\ UNCHANGED length
      BY <2>2 DEF Connect, Disconnect
    <3> QED
      BY <3>1, RecorderAssumption
      DEF RecorderAssumption, Store!StoreNext, Store!Close
  <2>3. CASE \/ \E t \in Timestamps : RecordRaw(t)
             \/ StopRecordRaw \/ FileLimit \/ SplitNow \/ UNCHANGED vars
    <3>1. UNCHANGED <<fragment, length>>
      BY <2>3 DEF RecordRaw, StopRecordRaw, FileLimit, SplitNow, vars, sink
    <3> QED
      BY <3>1 DEF Store!store
  <2> QED
    BY <2>1, <2>2, <2>3 DEF Next
<1>2. Store!StoreInit /\ [][Store!StoreNext]_(Store!store) => StoreSpec
  BY DEF StoreSpec, Store!StoreSpec
<1> QED
  BY <1>1, <1>2, InitRefines, SpecInv, PTL DEF Spec
=============================================================================
