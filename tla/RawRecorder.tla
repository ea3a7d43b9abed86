---------------------------- MODULE RawRecorder ----------------------------
(***************************************************************************)
(* Raw recording frame by frame: the main thread runs record_raw,          *)
(* stop_record_raw and file_limit (pipeline.c), a streaming thread brings  *)
(* the frames to splitmuxsink, which asks format_recording_filepath        *)
(* (rtsp_server.c) for the file of each new fragment.  Time is counted in  *)
(* frames.  RecordRaw is true here, and a stream is torn down on the main  *)
(* thread, between two of its callbacks.                                   *)
(***************************************************************************)
EXTENDS Naturals

CONSTANTS Timestamps,    \* timestamps of the start triggers
          DevNull, NULL, \* "/dev/null"; no path
          RawTimeLimit,  \* ControlData.rawTimeLimit
          MaxSizeTime,   \* max-size-time of splitmuxsink in pipeline.txt
          Late,          \* bound: frames by which the timer can be late
          Lag            \* bound: frames during one record or stop call

ASSUME RecorderAssumption ==
  /\ DevNull \notin Timestamps /\ NULL \notin Timestamps /\ NULL # DevNull
  /\ RawTimeLimit \in Nat \ {0} /\ MaxSizeTime \in Nat \ {0}
  /\ Late \in Nat /\ Lag \in Nat

VARIABLES
  is_streaming,
  recording_filepath,    \* PipelineData.recording_filepath
  is_raw_recording,      \* PipelineData.is_raw_recording
  timer,                 \* frames since the file limit timer was started
  pc,                    \* the main thread: "idle", or about to emit split-now
                         \* in "record" (record_raw) or "stop"
  split,                 \* split-now was emitted, no new fragment yet
  fragment,              \* file of the open fragment, NULL: none is open
  fragment_age,          \* frames in the open fragment
  length,                \* frames in the file of each timestamp
  used                   \* timestamps that start triggers have used

recorder == <<recording_filepath, is_raw_recording, timer, pc>>
sink     == <<split, fragment, fragment_age, length>>
vars     == <<is_streaming, recorder, sink, used>>

Init ==
  /\ is_streaming = FALSE
  /\ recording_filepath = NULL /\ is_raw_recording = FALSE
  /\ timer = 0 /\ pc = "idle"
  /\ split = FALSE /\ fragment = NULL /\ fragment_age = 0
  /\ length = [t \in Timestamps |-> 0]
  /\ used = {}
-----------------------------------------------------------------------------
(* The main thread.                                                        *)

\* restart_file_limit_timer.
RestartFileLimitTimer == timer' = 0

\* stop_record_raw's path (after a faulty variant that keeps the path).
PathKept      == UNCHANGED recording_filepath
DiscardFrames == recording_filepath' = DevNull

\* The split-now signal (after a faulty variant that does not emit it).
SplitNotEmitted == UNCHANGED split
EmitSplitNow    == split' = TRUE

\* media_configure starts the timer; the new splitmuxsink has no fragment.
Connect ==
  /\ ~is_streaming /\ pc = "idle"
  /\ is_streaming' = TRUE
  /\ timer' = 0
  /\ split' = FALSE /\ fragment' = NULL /\ fragment_age' = 0
  /\ UNCHANGED <<recording_filepath, is_raw_recording, pc, length, used>>

\* The end of the stream closes the fragment; cleanup_RTSP_media runs
\* stop_record_raw on the sink that has ended.
Disconnect ==
  /\ is_streaming /\ pc = "idle"
  /\ is_streaming' = FALSE
  /\ DiscardFrames /\ is_raw_recording' = FALSE
  /\ split' = FALSE /\ fragment' = NULL /\ fragment_age' = 0
  /\ UNCHANGED <<timer, pc, length, used>>

\* The path is assigned first, split-now is emitted after it; restarting the
\* timer comes before both.
RecordRaw(t) ==
  /\ is_streaming /\ pc = "idle" /\ t \notin used
  /\ used' = used \cup {t}
  /\ RestartFileLimitTimer
  /\ recording_filepath' = t
  /\ pc' = "record"
  /\ UNCHANGED <<is_streaming, is_raw_recording, sink>>

StopRecordRaw ==
  /\ is_streaming /\ pc = "idle"
  /\ RestartFileLimitTimer
  /\ DiscardFrames
  /\ pc' = "stop"
  /\ UNCHANGED <<is_streaming, is_raw_recording, sink, used>>

FileLimit == timer >= RawTimeLimit /\ StopRecordRaw

SplitNow ==
  /\ pc # "idle"
  /\ EmitSplitNow
  /\ is_raw_recording' = (pc = "record")
  /\ pc' = "idle"
  /\ UNCHANGED <<is_streaming, recording_filepath, timer, fragment,
                 fragment_age, length, used>>
-----------------------------------------------------------------------------
(* The streaming thread.                                                   *)

\* splitmuxsink starts a new fragment: the first one, after split-now, or when
\* the open one is as long as max-size-time allows.
NewFragment == split \/ fragment = NULL \/ fragment_age >= MaxSizeTime

\* format_recording_filepath; the sink's own location is /dev/null (and all
\* there is in a faulty variant that connects no format-location).
LocationOfSink == DevNull
FormatLocation ==
  IF recording_filepath = NULL THEN DevNull ELSE recording_filepath

\* A file that is opened is truncated.
Write(path, opened) ==
  IF path \in Timestamps
  THEN length' = [length EXCEPT ![path] = IF opened THEN 1 ELSE @ + 1]
  ELSE UNCHANGED length

\* One frame reaches the sink.  The main loop is at most Late frames late with
\* the timer and at most Lag frames inside one call.
Frame ==
  /\ is_streaming
  /\ timer < RawTimeLimit + Late
  /\ pc # "idle" => timer < Lag
  /\ timer' = timer + 1
  /\ IF NewFragment
     THEN /\ fragment' = FormatLocation
          /\ fragment_age' = 1
          /\ split' = FALSE
          /\ Write(FormatLocation, TRUE)
     ELSE /\ fragment_age' = fragment_age + 1
          /\ Write(fragment, FALSE)
          /\ UNCHANGED <<fragment, split>>
  /\ UNCHANGED <<is_streaming, recording_filepath, is_raw_recording, pc, used>>
-----------------------------------------------------------------------------
Next ==
  \/ Connect \/ Disconnect
  \/ \E t \in Timestamps : RecordRaw(t)
  \/ StopRecordRaw \/ FileLimit \/ SplitNow
  \/ Frame

Spec == Init /\ [][Next]_vars

\* Frames keep coming; the main thread finishes its calls and the timer that
\* is due is dispatched.
Fairness ==
  /\ WF_vars(Frame)
  /\ WF_vars(SplitNow)
  /\ WF_vars(FileLimit)

FairSpec == Spec /\ Fairness
-----------------------------------------------------------------------------
(* Properties.                                                             *)

\* Values of the variables.
TypeOK ==
  /\ is_streaming \in BOOLEAN
  /\ recording_filepath \in Timestamps \cup {DevNull, NULL}
  /\ is_raw_recording \in BOOLEAN
  /\ timer \in 0 .. RawTimeLimit + Late
  /\ pc \in {"idle", "record", "stop"}
  /\ split \in BOOLEAN
  /\ fragment \in Timestamps \cup {DevNull, NULL}
  /\ fragment_age \in Nat
  /\ length \in [Timestamps -> Nat]
  /\ used \subseteq Timestamps

\* The longest a clip can get: the limit, the timer's delay, and the frames
\* that pass before split-now is emitted.
MaxLength == RawTimeLimit + Late + Lag

\* docs/App_Systems.md:86: Raw Time Limit is the maximum length of a raw
\* recording.  No clip gets longer, and none loses frames, except for those
\* written while record_raw was about to emit split-now: its fragment is never
\* split by its own length, which would open and truncate the same file.
ClipsKept ==
  [][\A t \in Timestamps :
       /\ length'[t] < length[t] => length[t] <= Lag
       /\ length'[t] <= MaxLength]_vars

\* Clips are written one at a time, each in one piece.
Store == INSTANCE ClipStore WITH
  None    <- NULL,
  Grace   <- Lag,
  current <- IF fragment \in Timestamps THEN fragment ELSE NULL

StoreSpec == Store!StoreSpec

\* Frames follow the triggers without delay: once Lag frames have passed since
\* the last start, stop or limit, they go to the file that PipelineData names,
\* and the flag of the status broadcast says whether that is a clip.
FramesFollow ==
  (is_streaming /\ timer > Lag) =>
    /\ fragment = FormatLocation
    /\ is_raw_recording <=> fragment \in Timestamps

\* Every clip is closed, without a stop trigger too.
ClipEnds ==
  \A t \in Timestamps : (fragment = t) ~> (fragment # t)

\* The open fragment is about as old as the timer: why it is never split by
\* its own length when MaxLength < MaxSizeTime.
AgeBounded ==
  /\ pc # "idle" => timer <= Lag
  /\ fragment_age <= MaxLength
  /\ pc = "idle" /\ ~split => fragment_age <= timer
  /\ pc # "idle" /\ ~split => fragment_age <= RawTimeLimit + Late + timer
  /\ fragment = NULL => fragment_age = 0
  /\ ~is_streaming => fragment = NULL /\ pc = "idle" /\ ~split

\* Which files have frames: none before its trigger, the open one as many as
\* its fragment, the one that comes next none.
ClipsTracked ==
  \A t \in Timestamps :
    /\ t \notin used =>
         length[t] = 0 /\ recording_filepath # t /\ fragment # t
    /\ fragment = t => length[t] = fragment_age /\ fragment_age > 0
    /\ fragment # t /\ recording_filepath = t => length[t] = 0
    /\ length[t] <= MaxLength

\* A file that split-now will open again has only the frames that came in
\* while record_raw was running.
FewBeforeSplit ==
  /\ pc = "record" /\ fragment = recording_filepath => fragment_age <= timer
  /\ pc = "idle" /\ split /\ fragment = recording_filepath =>
       fragment \notin Timestamps \/ fragment_age <= Lag
  /\ pc = "stop" => recording_filepath = DevNull
  /\ pc = "record" => recording_filepath \in Timestamps

\* Between two calls the flag agrees with the path, and the open fragment too
\* once split-now has been obeyed; both are pending for at most Lag frames.
Settled ==
  /\ pc = "idle" => (is_raw_recording <=> recording_filepath \in Timestamps)
  /\ pc = "idle" /\ ~split /\ fragment # NULL => fragment = FormatLocation
  /\ split => timer <= Lag
  /\ is_streaming /\ fragment = NULL => timer = 0

\* The inductive invariant behind the theorems of RawRecorderProofs.
IInv == TypeOK /\ AgeBounded /\ ClipsTracked /\ FewBeforeSplit /\ Settled
=============================================================================
