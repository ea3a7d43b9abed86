---------------------------- MODULE CameraProofs ----------------------------
(***************************************************************************)
(* Theorems about Camera for every configuration: any set of datagrams, of *)
(* source ids and of faults, recording raw or not.                         *)
(***************************************************************************)
EXTENDS Camera, SequenceTheorems, TLAPS

-----------------------------------------------------------------------------
(* What parseTrigger returns.                                              *)

\* A token of a text is a text, and never an empty one.
LEMMA TokenType ==
  ASSUME NEW text \in Text, NEW s \in Spans(text)
  PROVE  Token(text, s) \in Text /\ Token(text, s) # <<>>
<1>1. /\ s[1] \in 1 .. Len(text) /\ s[2] \in 1 .. Len(text)
      /\ s[1] <= s[2]
  BY DEF Spans, Text
<1>2. /\ SubSeq(text, s[1], s[2]) \in Seq(STRING)
      /\ Len(SubSeq(text, s[1], s[2])) = s[2] - s[1] + 1
  BY <1>1 DEF Text
<1>3. SubSeq(text, s[1], s[2]) # <<>>
  <2>1. Len(SubSeq(text, s[1], s[2])) # 0
    BY <1>1, <1>2
  <2> QED
    BY <2>1, <1>2, EmptySeq
<1> QED
  BY <1>2, <1>3 DEF Token, Text

\* parseTrigger returns a label that addresses this camera and three
\* non-empty tokens of the text.
LEMMA ParseTriggerType ==
  ASSUME NEW text \in Text, NEW t \in ParseTrigger(text)
  PROVE  /\ t \in ParsedTrigger
         /\ t.label \in Labels
         /\ t.timestamp # <<>>
<1>1. PICK a \in Nth(text, 1), b \in Nth(text, 2), c \in Nth(text, 3) :
        /\ t = [label     |-> Token(text, a),
                command   |-> Token(text, b),
                timestamp |-> Token(text, c)]
        /\ t.label \in Labels
  BY DEF ParseTrigger
<1>2. a \in Spans(text) /\ b \in Spans(text) /\ c \in Spans(text)
  BY DEF Nth
<1> QED
  BY <1>1, <1>2, TokenType DEF ParsedTrigger
-----------------------------------------------------------------------------
(* Types.                                                                  *)

\* The paths a trigger gives are texts, and none is NULL or /dev/null.
LEMMA FileNames ==
  ASSUME NEW t \in Text
  PROVE  /\ RawFile(t) \in Text \X {".raw"}
         /\ RawFile(t) # NULL /\ RawFile(t) # DevNull
         /\ CsvFile(t) \in Text \X {"_metadata.csv"}
  BY DEF RawFile, CsvFile, NULL, DevNull

\* A fresh id is an id that no live source has and PipelineData does not hold.
LEMMA Fresh ==
  ASSUME NEW new \in FreshIds
  PROVE  /\ new \in SourceIds /\ new # 0
         /\ new \notin timers /\ new \notin watches
         /\ new # file_limit_callback_id /\ new # udp_channel_watch_id
  BY CameraAssumption DEF FreshIds, CameraAssumption
-----------------------------------------------------------------------------
(* The inductive invariant.                                                *)

LEMMA InitInv == Init => IInv
<1> SUFFICES ASSUME Init PROVE IInv
  OBVIOUS
<1>1. TypeOK
  BY CameraAssumption, EmptySeq
  DEF CameraAssumption, Init, TypeOK, NULL, Text
<1> QED
  BY <1>1 DEF Init, IInv, SourcesTracked, RecordingIsLimited, IdleIsQuiet,
              FlagMatchesFile, StreamIsArmed, NULL, DevNull

\* A crash and the two ways to stop change nothing but the main loop's state.
LEMMA LoopOnlyInv ==
  ASSUME IInv, loop' \in {"quit", "exited", "aborted"},
         UNCHANGED <<media, sink, flags, files, ids, live, socket, sensor>>
  PROVE  IInv'
  BY DEF IInv, TypeOK, SourcesTracked, RecordingIsLimited, IdleIsQuiet,
         FlagMatchesFile, StreamIsArmed, flags, files, ids, live, socket

\* Whatever restart_file_limit_timer does, a tracked timer stays tracked.
LEMMA RestartKeepsTrack ==
  ASSUME TypeOK, SourcesTracked, NEW new \in FreshIds,
         RestartFileLimitTimer(new)
  PROVE  /\ timers' \subseteq SourceIds
         /\ timers' \subseteq {file_limit_callback_id'}
         /\ file_limit_callback_id' \in SourceIds \cup {0}
         /\ file_limit_callback_id \in timers
              => file_limit_callback_id' \in timers'
  BY Fresh DEF TypeOK, SourcesTracked, RestartFileLimitTimer

LEMMA ArriveInv ==
  ASSUME IInv, NEW m \in Messages, Arrive(m)
  PROVE  IInv'
<1>1. unread' \in Text /\ sends' \in Nat
  BY CameraAssumption DEF CameraAssumption, Arrive, IInv, TypeOK, Text
<1> QED
  BY <1>1 DEF IInv, TypeOK, SourcesTracked, RecordingIsLimited, IdleIsQuiet,
              FlagMatchesFile, StreamIsArmed, Arrive, flags, files, ids, live
\* The part of the state that a trigger can change, and how: each of the four
\* ways udp_received_callback goes on after parseTrigger.
LEMMA TriggerEffect ==
  ASSUME IInv, Dispatched, NEW t \in ParseTrigger(unread),
         NEW new \in FreshIds, NEW dir, NEW raw_dir,
         \/ ReceiveStart(t, new, dir, raw_dir)
         \/ ReceiveStop(t, new, dir)
         \/ ReceiveSetting(t)
  PROVE  /\ half_done' \in BOOLEAN
         /\ \/ RestartFileLimitTimer(new)
            \/ UNCHANGED <<timers, file_limit_callback_id>>
         /\ \/ /\ recording_filepath' = DevNull
               /\ is_raw_recording' = FALSE
            \/ /\ recording_filepath' = RawFile(t.timestamp)
               /\ is_raw_recording' = TRUE
            \/ UNCHANGED <<recording_filepath, is_raw_recording>>
         /\ csv_filepath' \in {csv_filepath, CsvFile(t.timestamp)}
         /\ trigger_files' \in
              {trigger_files, trigger_files \cup {<<t.timestamp, t.command>>}}
         /\ sensor' \in [exposure_time : STRING, gain : STRING]
<1>1. /\ t.timestamp \in Text /\ t.timestamp # <<>>
      /\ sensor \in [exposure_time : STRING, gain : STRING]
  BY ParseTriggerType DEF IInv, TypeOK, ParsedTrigger
<1>2. Head(t.timestamp) \in STRING
  BY <1>1 DEF Text
<1>3. CASE ReceiveStart(t, new, dir, raw_dir)
  <2>1. half_done' \in BOOLEAN
    BY <1>3 DEF ReceiveStart, HalfDone
  <2> QED
    BY <1>1, <1>3, <2>1 DEF ReceiveStart, FileTrigger, RecordFrames
<1>4. CASE ReceiveStop(t, new, dir)
  BY <1>1, <1>4 DEF ReceiveStop, FileTrigger, DiscardFrames, IInv, TypeOK
<1>5. CASE ReceiveSetting(t)
  BY <1>1, <1>2, <1>5 DEF ReceiveSetting, files, IInv, TypeOK
<1> QED
  BY <1>3, <1>4, <1>5

LEMMA UdpReceivedInv ==
  ASSUME IInv, UdpReceived
  PROVE  IInv'
<1>1. /\ Dispatched /\ unread' = <<>>
      /\ UNCHANGED <<loop, media, sink, is_streaming, udp_channel_watch_id,
                     metadata_probe_id, watches, sends>>
  BY DEF UdpReceived, SourceContinue
<1>2. /\ is_streaming /\ media /\ file_limit_callback_id \in timers
      /\ udp_channel_watch_id \in watches /\ metadata_probe_id = 1
  BY <1>1 DEF IInv, Dispatched, IdleIsQuiet, StreamIsArmed, TypeOK
<1>3. unread' \in Text
  BY <1>1, EmptySeq DEF Text
<1>4. CASE \E t \in ParseTrigger(unread), new \in FreshIds,
             dir, raw_dir \in Directory :
             \/ ReceiveStart(t, new, dir, raw_dir)
             \/ ReceiveStop(t, new, dir)
             \/ ReceiveSetting(t)
  <2>1. PICK t \in ParseTrigger(unread), new \in FreshIds,
             dir, raw_dir \in Directory :
             \/ ReceiveStart(t, new, dir, raw_dir)
             \/ ReceiveStop(t, new, dir)
             \/ ReceiveSetting(t)
    BY <1>4
  <2>2. t.timestamp \in Text /\ t.command \in Text
    BY ParseTriggerType DEF IInv, TypeOK, ParsedTrigger
  <2>3. /\ half_done' \in BOOLEAN
        /\ \/ RestartFileLimitTimer(new)
           \/ UNCHANGED <<timers, file_limit_callback_id>>
        /\ \/ recording_filepath' = DevNull /\ is_raw_recording' = FALSE
           \/ /\ recording_filepath' = RawFile(t.timestamp)
              /\ is_raw_recording' = TRUE
           \/ UNCHANGED <<recording_filepath, is_raw_recording>>
        /\ csv_filepath' \in {csv_filepath, CsvFile(t.timestamp)}
        /\ trigger_files' \in
             {trigger_files, trigger_files \cup {<<t.timestamp, t.command>>}}
        /\ sensor' \in [exposure_time : STRING, gain : STRING]
    BY <1>1, <2>1, TriggerEffect
  <2>4. /\ timers' \subseteq SourceIds
        /\ timers' \subseteq {file_limit_callback_id'}
        /\ file_limit_callback_id' \in SourceIds \cup {0}
        /\ file_limit_callback_id' \in timers'
    BY <1>2, <2>3, RestartKeepsTrack DEF IInv, TypeOK, SourcesTracked
  <2>5. /\ recording_filepath' \in {NULL, DevNull} \cup (Text \X {".raw"})
        /\ is_raw_recording' \in BOOLEAN
        /\ is_raw_recording' <=> recording_filepath' \notin {NULL, DevNull}
    <3>1. /\ recording_filepath \in {NULL, DevNull} \cup (Text \X {".raw"})
          /\ is_raw_recording \in BOOLEAN
          /\ is_raw_recording <=> recording_filepath \notin {NULL, DevNull}
      BY DEF IInv, TypeOK, FlagMatchesFile
    <3>2. CASE recording_filepath' = DevNull /\ is_raw_recording' = FALSE
      BY <3>2
    <3>3. CASE /\ recording_filepath' = RawFile(t.timestamp)
               /\ is_raw_recording' = TRUE
      BY <2>2, <3>3, FileNames
    <3>4. CASE UNCHANGED <<recording_filepath, is_raw_recording>>
      BY <3>1, <3>4
    <3> QED
      BY <2>3, <3>2, <3>3, <3>4
  <2>6. /\ csv_filepath' \in {NULL} \cup (Text \X {"_metadata.csv"})
        /\ trigger_files' \subseteq Text \X Text
    BY <2>2, <2>3, FileNames DEF IInv, TypeOK
  <2> QED
    BY <1>1, <1>2, <1>3, <2>3, <2>4, <2>5, <2>6
    DEF IInv, TypeOK, SourcesTracked, RecordingIsLimited, IdleIsQuiet,
        FlagMatchesFile, StreamIsArmed
<1>5. CASE ReceiveNothing
  BY <1>1, <1>2, <1>3, <1>5
  DEF ReceiveNothing, IInv, TypeOK, SourcesTracked, RecordingIsLimited,
      IdleIsQuiet, FlagMatchesFile, StreamIsArmed, files
<1> QED
  BY <1>4, <1>5 DEF UdpReceived

LEMMA FileLimitInv ==
  ASSUME IInv, NEW id \in timers, NEW new \in FreshIds, NEW dir,
         FileLimit(id, new, dir)
  PROVE  IInv'
<1>1. /\ id = file_limit_callback_id
      /\ media /\ is_streaming /\ udp_channel_watch_id \in watches
      /\ metadata_probe_id = 1
  BY DEF IInv, SourcesTracked, IdleIsQuiet, StreamIsArmed, FileLimit, TypeOK
<1>2. /\ timers' = {new} /\ file_limit_callback_id' = new
      /\ new \in SourceIds
  BY <1>1, Fresh DEF IInv, SourcesTracked, FileLimit
<1>3. /\ csv_filepath' \in {NULL} \cup (Text \X {"_metadata.csv"})
      /\ is_raw_recording' = FALSE /\ recording_filepath' = DevNull
      /\ UNCHANGED <<loop, media, sink, is_streaming, trigger_files, half_done,
                     watches, udp_channel_watch_id, metadata_probe_id, unread, sends,
                     sensor>>
  BY FileNames, EmptySeq
  DEF IInv, TypeOK, FileLimit, DiscardFrames, Clock, Text, socket
<1>4. TypeOK'
  BY <1>2, <1>3 DEF IInv, TypeOK
<1> QED
  BY <1>1, <1>2, <1>3, <1>4
  DEF IInv, SourcesTracked, RecordingIsLimited, IdleIsQuiet,
      FlagMatchesFile, StreamIsArmed

LEMMA MediaConfigureInv ==
  ASSUME IInv, NEW watch \in FreshIds, NEW timer \in FreshIds,
         MediaConfigure(watch, timer)
  PROVE  IInv'
<1>1. /\ ~media /\ timers = {} /\ watches = {} /\ ~is_raw_recording
      /\ watch \in SourceIds /\ timer \in SourceIds
  BY Fresh DEF IInv, IdleIsQuiet, FlagMatchesFile, MediaConfigure,
               Configuring, TypeOK
<1>2. /\ timers' = {timer} /\ file_limit_callback_id' = timer
      /\ watches' = {watch} /\ udp_channel_watch_id' = watch
      /\ media' /\ is_streaming' /\ loop' = "running"
      /\ metadata_probe_id' = 1 /\ sink' \in {"uninit", "null", "set"}
      /\ UNCHANGED <<is_raw_recording, recording_filepath, trigger_files,
                     half_done, unread, sends>>
  BY <1>1 DEF MediaConfigure, Configuring, AddWatch, socket, SinkOfMedia
<1>3. /\ csv_filepath' \in {NULL} \cup (Text \X {"_metadata.csv"})
      /\ sensor' \in [exposure_time : STRING, gain : STRING]
  BY FileNames, EmptySeq, CameraAssumption
  DEF MediaConfigure, Clock, Text, CameraAssumption
<1>4. media' = TRUE /\ is_streaming' = TRUE
  BY DEF MediaConfigure
<1> QED
  BY <1>1, <1>2, <1>3, <1>4
  DEF IInv, TypeOK, SourcesTracked, RecordingIsLimited, IdleIsQuiet,
      FlagMatchesFile, StreamIsArmed

LEMMA RejectedInv ==
  ASSUME IInv, SensorRejected \/ \E watch \in FreshIds : StorageRejected(watch)
  PROVE  IInv'
<1>1. /\ ~media /\ timers = {} /\ watches = {} /\ ~is_raw_recording
      /\ loop' = "quit" /\ media' = TRUE
      /\ sensor' \in [exposure_time : STRING, gain : STRING]
  BY CameraAssumption
  DEF CameraAssumption, IInv, IdleIsQuiet, FlagMatchesFile, SensorRejected,
      StorageRejected, Configuring, TypeOK
<1>2. CASE SensorRejected
  BY <1>1, <1>2
  DEF IInv, TypeOK, SourcesTracked, RecordingIsLimited, IdleIsQuiet,
      FlagMatchesFile, StreamIsArmed, SensorRejected, flags, files, ids, live,
      socket
<1>3. ASSUME NEW watch \in FreshIds, StorageRejected(watch)
      PROVE  IInv'
  <2>1. /\ watches' = {watch} /\ udp_channel_watch_id' = watch
        /\ watch \in SourceIds /\ sink' \in {"uninit", "null", "set"}
    BY <1>1, <1>3, Fresh DEF StorageRejected, AddWatch, SinkOfMedia
  <2> QED
    BY <1>1, <1>3, <2>1
    DEF IInv, TypeOK, SourcesTracked, RecordingIsLimited, IdleIsQuiet,
        FlagMatchesFile, StreamIsArmed, StorageRejected, flags, files, socket
<1> QED
  BY <1>2, <1>3

LEMMA CleanupInv ==
  ASSUME IInv, CleanupRTSPMedia
  PROVE  IInv'
<1>1. /\ timers' = {} /\ watches' = {}
      /\ media' = FALSE /\ is_streaming' = FALSE
      /\ is_raw_recording' = FALSE /\ recording_filepath' = DevNull
      /\ file_limit_callback_id' = 0 /\ udp_channel_watch_id' = 0
      /\ metadata_probe_id' = 0
      /\ UNCHANGED <<loop, sink, trigger_files, half_done, unread, sends, sensor>>
  BY DEF IInv, SourcesTracked, CleanupRTSPMedia, DiscardFrames, socket
<1>2. csv_filepath' = NULL
  BY DEF IInv, TypeOK, IdleIsQuiet, CleanupRTSPMedia, NULL
<1>3. TypeOK'
  BY <1>1, <1>2 DEF IInv, TypeOK
<1> QED
  BY <1>1, <1>2, <1>3
  DEF IInv, SourcesTracked, RecordingIsLimited, IdleIsQuiet,
      FlagMatchesFile, StreamIsArmed

\* Each action preserves the invariant.
LEMMA NextInv == IInv /\ [Next]_vars => IInv'
<1> SUFFICES ASSUME IInv, [Next]_vars PROVE IInv'
  OBVIOUS
<1>1. CASE \E m \in Messages : Arrive(m)
  BY <1>1, ArriveInv
<1>2. CASE UdpReceived
  BY <1>2, UdpReceivedInv
<1>3. CASE FileLimitFires
  BY <1>3, FileLimitInv DEF FileLimitFires
<1>4. CASE \E watch, timer \in FreshIds : MediaConfigure(watch, timer)
  BY <1>4, MediaConfigureInv
<1>5. CASE SensorRejected \/ \E watch \in FreshIds : StorageRejected(watch)
  BY <1>5, RejectedInv
<1>6. CASE CleanupRTSPMedia
  BY <1>6, CleanupInv
<1>7. CASE \/ UdpAborts \/ FileLimitAborts \/ MediaConfigureAborts
           \/ CleanupAborts \/ HandleSIGINT \/ Exit
  BY <1>7, LoopOnlyInv
  DEF UdpAborts, FileLimitAborts, MediaConfigureAborts, CleanupAborts, Abort,
      HandleSIGINT, Exit
<1>8. CASE UNCHANGED vars
  BY <1>8
  DEF vars, IInv, TypeOK, SourcesTracked, RecordingIsLimited, IdleIsQuiet,
      FlagMatchesFile, StreamIsArmed, flags, files, ids, live, socket
<1> QED
  BY <1>1, <1>2, <1>3, <1>4, <1>5, <1>6, <1>7, <1>8 DEF Next
-----------------------------------------------------------------------------
(* The theorems.                                                           *)

LEMMA SpecInv == Spec => []IInv
BY InitInv, NextInv, PTL DEF Spec

\* The state of PipelineData and of its GLib sources is always well typed.
THEOREM TypeCorrect == Spec => []TypeOK
<1>1. IInv => TypeOK
  BY DEF IInv
<1> QED
  BY <1>1, SpecInv, PTL

\* No timer and no watch is ever lost, for any number of viewers, triggers and
\* failures.
THEOREM NoSourceIsLost == Spec => []SourcesTracked
<1>1. IInv => SourcesTracked
  BY DEF IInv
<1> QED
  BY <1>1, SpecInv, PTL

\* Raw recording never goes on without a stream, an armed limit and a watch.
THEOREM RecordingStaysLimited == Spec => []RecordingIsLimited
<1>1. IInv => RecordingIsLimited
  BY DEF IInv
<1> QED
  BY <1>1, SpecInv, PTL

\* cleanup_RTSP_media leaves nothing of a stream behind for the next one.
THEOREM NothingIsLeft == Spec => []IdleIsQuiet
<1>1. IInv => IdleIsQuiet
  BY DEF IInv
<1> QED
  BY <1>1, SpecInv, PTL

\* The status that is broadcast agrees with what splitmuxsink writes.
THEOREM StatusIsTrue == Spec => []FlagMatchesFile
<1>1. IInv => FlagMatchesFile
  BY DEF IInv
<1> QED
  BY <1>1, SpecInv, PTL

\* With it, that nothing is recorded when Record Raw is off: such a camera moves
\* its csv at a trigger and has no clip to move it with.
DocumentedInv == ClipIsDocumented /\ (is_raw_recording => RecordRaw)

\* A start trigger whose calls both succeed, or both fail, keeps the files and
\* the clip together; a stop, the limit and the cleanup end the clip.
LEMMA StartDocuments ==
  ASSUME DocumentedInv, NEW t, NEW new, NEW dir, NEW raw_dir,
         ReceiveStart(t, new, dir, raw_dir)
  PROVE  DocumentedInv'
<1> SUFFICES ASSUME is_raw_recording' PROVE DocumentedInv'
  BY DEF DocumentedInv, ClipIsDocumented
<1> SUFFICES ASSUME ~half_done' PROVE DocumentedInv'
  BY DEF DocumentedInv, ClipIsDocumented, ReceiveStart
<1>1. dir = raw_dir /\ (dir = "ok" \/ ~half_done)
  BY DEF ReceiveStart, HalfDone
<1>2. CASE dir = "ok" /\ RecordRaw
  <2>1. /\ recording_filepath' = RawFile(t.timestamp)
        /\ <<t.timestamp, <<"start">>>> \in trigger_files'
        /\ csv_filepath' = CsvFile(t.timestamp)
    BY <1>1, <1>2 DEF ReceiveStart, RecordFrames, FileTrigger
  <2>2. recording_filepath'[1] = t.timestamp
    BY <2>1 DEF RawFile
  <2>3. ClipIsDocumented'
    BY <2>1, <2>2 DEF ClipIsDocumented
  <2> QED
    BY <1>2, <2>3 DEF DocumentedInv
<1>3. CASE dir # "ok"
  <2>1. UNCHANGED <<recording_filepath, is_raw_recording, trigger_files, csv_filepath>>
    BY <1>1, <1>3 DEF ReceiveStart, RecordFrames, FileTrigger
  <2>2. ClipIsDocumented /\ is_raw_recording /\ ~half_done /\ RecordRaw
    BY <1>1, <1>3, <2>1 DEF DocumentedInv
  <2>3. ClipIsDocumented'
    BY <2>1, <2>2 DEF ClipIsDocumented
  <2> QED
    BY <2>2, <2>3 DEF DocumentedInv
<1>4. CASE ~RecordRaw
  BY <1>4 DEF ReceiveStart, DocumentedInv
<1> QED
  BY <1>2, <1>3, <1>4

LEMMA NextDocuments ==
  IInv /\ DocumentedInv /\ [Next]_vars => DocumentedInv'
<1> SUFFICES ASSUME IInv, DocumentedInv, [Next]_vars PROVE DocumentedInv'
  OBVIOUS
<1>1. CASE UdpReceived
  <2>1. CASE ReceiveNothing
    BY <2>1 DEF ReceiveNothing, files, DocumentedInv, ClipIsDocumented
  <2>2. ASSUME NEW t \in ParseTrigger(unread), NEW new \in FreshIds,
               NEW dir \in Directory, NEW raw_dir \in Directory,
               \/ ReceiveStart(t, new, dir, raw_dir)
               \/ ReceiveStop(t, new, dir)
               \/ ReceiveSetting(t)
        PROVE  DocumentedInv'
    <3>1. CASE ReceiveStart(t, new, dir, raw_dir)
      BY <3>1, StartDocuments
    <3>2. CASE ReceiveStop(t, new, dir)
      BY <3>2 DEF ReceiveStop, DiscardFrames, DocumentedInv, ClipIsDocumented
    <3>3. CASE ReceiveSetting(t)
      BY <3>3 DEF ReceiveSetting, files, DocumentedInv, ClipIsDocumented
    <3> QED
      BY <2>2, <3>1, <3>2, <3>3
  <2> QED
    BY <1>1, <2>1, <2>2 DEF UdpReceived
<1>2. CASE FileLimitFires \/ CleanupRTSPMedia
  BY <1>2 DEF FileLimitFires, FileLimit, CleanupRTSPMedia, DiscardFrames,
              DocumentedInv, ClipIsDocumented
<1>3. CASE \E watch, timer \in FreshIds : MediaConfigure(watch, timer)
  <2>1. ~is_raw_recording'
    BY <1>3 DEF MediaConfigure, Configuring, IInv, RecordingIsLimited, IdleIsQuiet
  <2> QED
    BY <2>1 DEF DocumentedInv, ClipIsDocumented
<1>4. CASE \/ \E m \in Messages : Arrive(m)
           \/ SensorRejected \/ \E watch \in FreshIds : StorageRejected(watch)
           \/ UdpAborts \/ FileLimitAborts \/ MediaConfigureAborts
           \/ CleanupAborts \/ HandleSIGINT \/ Exit \/ UNCHANGED vars
  <2>1. UNCHANGED <<recording_filepath, csv_filepath, trigger_files, half_done,
                    is_raw_recording>>
    BY <1>4
    DEF Arrive, SensorRejected, StorageRejected, UdpAborts, FileLimitAborts,
        MediaConfigureAborts, CleanupAborts, Abort, HandleSIGINT, Exit, vars,
        files, flags
  <2> QED
    BY <2>1 DEF DocumentedInv, ClipIsDocumented
<1> QED
  BY <1>1, <1>2, <1>3, <1>4 DEF Next

\* udp_received_callback, processHSTAppTrigger and record_raw (udp_server.c,
\* pipeline.c): in every state of every run, the clip that is recorded has the text
\* file and the csv of its own trigger, unless one of the two directory calls of
\* the last start failed and the other did not.
THEOREM ClipsAreDocumented == Spec => []ClipIsDocumented
<1>1. Init => DocumentedInv
  BY DEF Init, DocumentedInv, ClipIsDocumented
<1>2. DocumentedInv => ClipIsDocumented
  BY DEF DocumentedInv
<1> QED
  BY <1>1, <1>2, NextDocuments, SpecInv, PTL DEF Spec

-----------------------------------------------------------------------------
(* The refinement of CameraSession.                                        *)

LEMMA InitRefines == Init => Session!SessionInit
BY DEF Init, Session!SessionInit, NULL

\* Every step of the program is a step of the session or leaves it unchanged.
LEMMA NextRefines ==
  IInv /\ IInv' /\ [Next]_vars => [Session!SessionNext]_(Session!session)
<1> SUFFICES ASSUME IInv, IInv', [Next]_vars
             PROVE  [Session!SessionNext]_(Session!session)
  OBVIOUS
<1> USE DEF Session!SessionNext, Session!session
<1>1. CASE (\E m \in Messages : Arrive(m)) \/ UNCHANGED vars
  BY <1>1 DEF Arrive, vars, flags, files, ids, live
<1>2. CASE UdpReceived
  <2>1. /\ Dispatched
        /\ UNCHANGED <<loop, is_streaming>>
    BY <1>2 DEF UdpReceived
  <2>2. /\ loop = "running" /\ loop' = "running"
        /\ is_streaming /\ is_streaming'
        /\ file_limit_callback_id \in timers
        /\ file_limit_callback_id' \in timers'
    BY <2>1 DEF Dispatched, IInv, IdleIsQuiet, StreamIsArmed, TypeOK
  <2>3. \/ recording_filepath' = DevNull /\ is_raw_recording' = FALSE
        \/ /\ recording_filepath' \in Text \X {".raw"}
           /\ is_raw_recording' = TRUE
        \/ UNCHANGED <<recording_filepath, is_raw_recording>>
    <3>1. CASE ReceiveNothing
      BY <3>1 DEF ReceiveNothing, files
    <3>2. ASSUME NEW t \in ParseTrigger(unread), NEW new \in FreshIds,
                 NEW dir \in Directory, NEW raw_dir \in Directory,
                 \/ ReceiveStart(t, new, dir, raw_dir)
                 \/ ReceiveStop(t, new, dir)
                 \/ ReceiveSetting(t)
          PROVE  \/ recording_filepath' = DevNull /\ is_raw_recording' = FALSE
                 \/ /\ recording_filepath' \in Text \X {".raw"}
                    /\ is_raw_recording' = TRUE
                 \/ UNCHANGED <<recording_filepath, is_raw_recording>>
      <4>1. RawFile(t.timestamp) \in Text \X {".raw"}
        BY ParseTriggerType, FileNames DEF IInv, TypeOK, ParsedTrigger
      <4> QED
        BY <2>1, <3>2, <4>1, TriggerEffect
    <3> QED
      BY <1>2, <3>1, <3>2 DEF UdpReceived
  <2>4. CASE recording_filepath' = DevNull /\ is_raw_recording' = FALSE
    BY <2>2, <2>4 DEF Session!StopClip
  <2>5. CASE /\ recording_filepath' \in Text \X {".raw"}
             /\ is_raw_recording' = TRUE
    BY <2>2, <2>5 DEF Session!StartClip
  <2>6. CASE UNCHANGED <<recording_filepath, is_raw_recording>>
    BY <2>2, <2>6
  <2> QED
    BY <2>3, <2>4, <2>5, <2>6
<1>3. CASE FileLimitFires
  <2>1. /\ loop = "running" /\ loop' = "running"
        /\ is_raw_recording' = FALSE /\ is_streaming' = is_streaming
        /\ media' = media /\ timers # {}
    BY <1>3 DEF FileLimitFires, FileLimit, DiscardFrames
  <2>2. /\ is_streaming /\ file_limit_callback_id \in timers
        /\ is_streaming' /\ file_limit_callback_id' \in timers'
    BY <2>1 DEF IInv, TypeOK, IdleIsQuiet, StreamIsArmed
  <2> QED
    BY <2>1, <2>2 DEF Session!StopClip
<1>4. CASE \E watch, timer \in FreshIds : MediaConfigure(watch, timer)
  <2>1. /\ loop = "running" /\ loop' = "running" /\ ~media
        /\ is_streaming' = TRUE /\ UNCHANGED is_raw_recording
        /\ file_limit_callback_id' \in timers'
    BY <1>4 DEF MediaConfigure, Configuring
  <2>2. ~is_streaming /\ ~is_raw_recording /\ timers = {}
    BY <2>1 DEF IInv, TypeOK, IdleIsQuiet, FlagMatchesFile
  <2> QED
    BY <2>1, <2>2 DEF Session!Connect
<1>5. CASE CleanupRTSPMedia
  <2>1. /\ UNCHANGED loop /\ is_streaming' = FALSE /\ media' = FALSE
        /\ is_raw_recording' = FALSE /\ timers' = {} /\ media
        /\ loop \in {"running", "quit"}
    BY <1>5 DEF CleanupRTSPMedia, DiscardFrames, IInv, SourcesTracked
  <2>2. CASE loop = "running"
    <3>1. is_streaming
      BY <2>1, <2>2 DEF IInv, StreamIsArmed
    <3> QED
      BY <2>1, <2>2, <3>1 DEF Session!Disconnect
  <2>3. CASE loop = "quit"
    BY <2>1, <2>3
  <2> QED
    BY <2>1, <2>2, <2>3
<1>6. CASE /\ loop = "running" /\ loop' # "running"
  <2>1. (IF is_streaming THEN "live" ELSE "idle") # "ended"
    OBVIOUS
  <2> QED
    BY <1>6, <2>1 DEF Session!End
<1>7. CASE loop # "running" /\ loop' # "running"
  BY <1>7
<1>8. CASE \/ UdpAborts \/ FileLimitAborts \/ MediaConfigureAborts
           \/ CleanupAborts \/ HandleSIGINT \/ Exit
           \/ SensorRejected
           \/ \E watch \in FreshIds : StorageRejected(watch)
  <2>1. loop' # "running"
    BY <1>8
    DEF UdpAborts, FileLimitAborts, MediaConfigureAborts, CleanupAborts,
        Abort, HandleSIGINT, Exit, SensorRejected, StorageRejected
  <2> QED
    BY <1>6, <1>7, <2>1
<1> QED
  BY <1>1, <1>2, <1>3, <1>4, <1>5, <1>8 DEF Next

\* The program implements the session: clips only while a viewer is connected,
\* each one limited, and none left over for the next viewer.
THEOREM CameraImplementsSession == Spec => SessionSpec
<1>1. Session!SessionInit /\ [][Session!SessionNext]_(Session!session)
        => SessionSpec
  BY DEF SessionSpec, Session!SessionSpec
<1> QED
  BY <1>1, InitRefines, NextRefines, SpecInv, PTL DEF Spec
=============================================================================
