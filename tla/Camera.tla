------------------------------- MODULE Camera -------------------------------
(***************************************************************************)
(* The camera program between the start of its main loop and its exit:     *)
(* one PipelineData, the RTSP media built for the viewers, the UDP triggers *)
(* that start and stop raw recording, and the file limit timer.  One       *)
(* action per callback (pipeline.c, rtsp_server.c, udp_server.c, main.c);  *)
(* callbacks run one at a time here.                                       *)
(***************************************************************************)
EXTENDS Trigger

CONSTANTS SourceIds,       \* ids of GLib event sources
          Messages,        \* datagrams that reach the control port
          MaxSends,        \* bound: datagrams sent in a behaviour
          RecordRaw,       \* ControlData.recordRaw
          Faults,          \* what can fail: "no_dir", "no_file", "no_sensor"
          StartupSettings, \* exposure time and gain in the launch string
          Settings         \* words that atof reads as more than 0.1

ASSUME CameraAssumption ==
  /\ 0 \notin SourceIds
  /\ Messages \subseteq Text \ {<<>>}
  /\ MaxSends \in Nat
  /\ RecordRaw \in BOOLEAN
  /\ Faults \subseteq {"no_dir", "no_file", "no_sensor"}
  /\ StartupSettings \in [exposure_time : STRING, gain : STRING]

VARIABLES
  loop,                    \* the main loop: running, quit, exited or aborted
  media,                   \* a GstRTSPMedia exists and has its extra data
  sink,                    \* PipelineData.sink: "uninit", "null" or "set"
  is_streaming, is_raw_recording,
  recording_filepath,      \* what format-location answers to splitmuxsink
  csv_filepath,            \* file of the frame metadata
  file_limit_callback_id, udp_channel_watch_id, metadata_probe_id,
  timers,                  \* ids of the live file_limit sources
  watches,                 \* ids of the live udp_received_callback sources
  unread,                  \* text of the datagrams queued on the socket
  sends,                   \* datagrams sent so far
  trigger_files,           \* <timestamp>_<command>.txt files written
  half_done,               \* history: of the directory calls of a start, one failed
  sensor                   \* settings in effect in pylonsrc

files  == <<recording_filepath, csv_filepath, trigger_files, half_done>>
flags  == <<is_streaming, is_raw_recording>>
ids    == <<file_limit_callback_id, udp_channel_watch_id, metadata_probe_id>>
live   == <<timers, watches>>
socket == <<unread, sends>>
vars   == <<loop, media, sink, flags, files, ids, live, socket, sensor>>

NULL    == <<>>
DevNull == <<"/dev/null">>

RawFile(timestamp) == <<timestamp, ".raw">>
CsvFile(timestamp) == <<timestamp, "_metadata.csv">>

\* The timestamp of a file named after time(NULL), which no trigger gave.
Clock == <<>>

Init ==
  /\ loop = "running" /\ media = FALSE /\ sink = "uninit"
  /\ is_streaming = FALSE /\ is_raw_recording = FALSE
  /\ recording_filepath = NULL /\ csv_filepath = NULL
  /\ file_limit_callback_id = 0 /\ udp_channel_watch_id = 0
  /\ metadata_probe_id = 0
  /\ timers = {} /\ watches = {}
  /\ unread = <<>> /\ sends = 0
  /\ trigger_files = {} /\ half_done = FALSE
  /\ sensor = StartupSettings
-----------------------------------------------------------------------------
(* Helpers of the callbacks.                                               *)

\* GLib numbers its sources upwards: a new id is no live or remembered id.
FreshIds ==
  SourceIds \ (timers \cup watches
                 \cup {file_limit_callback_id, udp_channel_watch_id})

\* Results of format_recording_directory.
Directory == {"ok"} \cup (Faults \cap {"no_dir"})

\* Faulty variants: the old timer is left running; the new one is not added.
OldTimerLeft(new) ==
  /\ timers' = timers \cup {new}
  /\ file_limit_callback_id' = new
TimerNotAdded(new) ==
  /\ timers' = timers \ {file_limit_callback_id}
  /\ UNCHANGED file_limit_callback_id

\* restart_file_limit_timer: when the old id cannot be removed, no timer is
\* added.  Two calls in one callback have the effect of one.
RestartFileLimitTimer(new) ==
  IF file_limit_callback_id \in timers
  THEN /\ timers' = (timers \ {file_limit_callback_id}) \cup {new}
       /\ file_limit_callback_id' = new
  ELSE UNCHANGED <<timers, file_limit_callback_id>>

\* Faulty variants: the path is kept; the flag is kept.
PathKept == is_raw_recording' = FALSE /\ UNCHANGED recording_filepath
FlagKept == recording_filepath' = DevNull /\ UNCHANGED is_raw_recording

\* stop_record_raw without its call of restart_file_limit_timer.
DiscardFrames ==
  /\ recording_filepath' = DevNull
  /\ is_raw_recording' = FALSE

\* A faulty variant: the flag is raised although there is no directory.
FlagRaised(timestamp, dir) ==
  /\ is_raw_recording' = TRUE
  /\ recording_filepath' = IF dir = "ok" THEN RawFile(timestamp)
                           ELSE recording_filepath

\* record_raw without its call of restart_file_limit_timer.
RecordFrames(timestamp, dir) ==
  IF dir = "ok"
  THEN /\ recording_filepath' = RawFile(timestamp)
       /\ is_raw_recording' = TRUE
  ELSE UNCHANGED <<recording_filepath, is_raw_recording>>

\* A faulty variant: the metadata file is named after the clock.
CsvByClock(t, dir) ==
  /\ trigger_files' = trigger_files \cup {<<t.timestamp, t.command>>}
  /\ csv_filepath' = CsvFile(Clock)

\* processHSTAppTrigger without its call of restart_file_limit_timer.
FileTrigger(t, dir) ==
  IF dir = "ok"
  THEN /\ trigger_files' = trigger_files \cup {<<t.timestamp, t.command>>}
       /\ csv_filepath' = CsvFile(t.timestamp)
  ELSE UNCHANGED <<trigger_files, csv_filepath>>

\* The udp_channel_watch_id that g_io_add_watch returns.
AddWatch(watch) ==
  /\ udp_channel_watch_id' = watch
  /\ watches' = watches \cup {watch}

\* What udp_received_callback returns: the watch stays.
SourceContinue == UNCHANGED watches

\* A crash inside a callback: a NULL FILE, a block freed twice, a NULL string
\* or an uninitialised GObject is used.
Abort ==
  /\ loop' = "aborted"
  /\ UNCHANGED <<media, sink, flags, files, ids, live, socket, sensor>>

StorageAborts == Faults \cap {"no_dir", "no_file"} # {}
-----------------------------------------------------------------------------
(* udp_received_callback.  One read of the channel takes every datagram    *)
(* that is queued, as one text, and parseTrigger sees only that text.      *)

\* A datagram is queued on the bound socket, streaming or not.
Arrive(m) ==
  /\ loop = "running" /\ sends < MaxSends
  /\ unread' = unread \o m
  /\ sends' = sends + 1
  /\ UNCHANGED <<loop, media, sink, flags, files, ids, live, sensor>>

Dispatched == loop = "running" /\ watches # {} /\ unread # <<>>

\* The directory is made twice, for the files of the trigger (udp_server.c:173)
\* and for the clip (pipeline.c:30).  When both calls fail the trigger has
\* changed nothing, and what it found stays as it was.
HalfDone(dir, raw_dir) ==
  half_done' = (dir # raw_dir \/ (dir # "ok" /\ half_done))

ReceiveStart(t, new, dir, raw_dir) ==
  /\ t.command = <<"start">>
  /\ HalfDone(dir, raw_dir)
  /\ FileTrigger(t, dir)
  /\ IF RecordRaw THEN RecordFrames(t.timestamp, raw_dir)
     ELSE UNCHANGED <<recording_filepath, is_raw_recording>>
  /\ IF dir = "ok" \/ RecordRaw THEN RestartFileLimitTimer(new)
     ELSE UNCHANGED <<timers, file_limit_callback_id>>
  /\ UNCHANGED sensor

ReceiveStop(t, new, dir) ==
  /\ t.command = <<"stop">>
  /\ FileTrigger(t, dir)
  /\ IF RecordRaw THEN DiscardFrames
     ELSE UNCHANGED <<recording_filepath, is_raw_recording>>
  /\ IF dir = "ok" \/ RecordRaw THEN RestartFileLimitTimer(new)
     ELSE UNCHANGED <<timers, file_limit_callback_id>>
  /\ UNCHANGED <<half_done, sensor>>

\* atof reads the leading number of the token.
ReceiveSetting(t) ==
  /\ \/ /\ t.command = <<"exposuretime">> /\ Head(t.timestamp) \in Settings
        /\ sensor' = [sensor EXCEPT !.exposure_time = Head(t.timestamp)]
     \/ /\ t.command = <<"gain">> /\ Head(t.timestamp) \in Settings
        /\ sensor' = [sensor EXCEPT !.gain = Head(t.timestamp)]
  /\ UNCHANGED <<files, is_raw_recording, timers, file_limit_callback_id>>

\* NULL from parseTrigger, a setting atof reads as 0.1 or less, or a command
\* the camera does not know.
ReceiveNothing ==
  /\ ~ParseAborts(unread)
  /\ \A t \in ParseTrigger(unread) :
       /\ t.command \notin {<<"start">>, <<"stop">>}
       /\ t.command \in {<<"exposuretime">>, <<"gain">>}
            => Head(t.timestamp) \notin Settings
  /\ UNCHANGED <<files, is_raw_recording, timers, file_limit_callback_id,
                 sensor>>

UdpReceived ==
  /\ Dispatched
  /\ unread' = <<>>
  /\ \/ \E t \in ParseTrigger(unread), new \in FreshIds,
           dir, raw_dir \in Directory :
          \/ ReceiveStart(t, new, dir, raw_dir)
          \/ ReceiveStop(t, new, dir)
          \/ ReceiveSetting(t)
     \/ ReceiveNothing
  /\ SourceContinue
  /\ UNCHANGED <<loop, media, sink, is_streaming, udp_channel_watch_id,
                 metadata_probe_id, sends>>

UdpAborts ==
  /\ Dispatched
  /\ \/ ParseAborts(unread)
     \/ /\ StorageAborts
        /\ \E t \in ParseTrigger(unread) :
             t.command \in {<<"start">>, <<"stop">>}
  /\ Abort
-----------------------------------------------------------------------------
(* file_limit, the callback of the timer of Raw Time Limit seconds.        *)

\* stop_record_raw destroys the source that is being dispatched and adds a
\* new one, so the value file_limit returns no longer matters to it.
FileLimit(id, new, dir) ==
  /\ loop = "running" /\ id \in timers
  /\ IF file_limit_callback_id \in timers
     THEN /\ file_limit_callback_id' = new
          /\ timers' = (timers \ {file_limit_callback_id,
                                  IF dir = "ok" THEN 0 ELSE id}) \cup {new}
     ELSE /\ UNCHANGED file_limit_callback_id
          /\ timers' = IF dir = "ok" THEN timers ELSE timers \ {id}
  /\ DiscardFrames
  /\ csv_filepath' = IF dir = "ok" THEN CsvFile(Clock) ELSE csv_filepath
  /\ UNCHANGED <<loop, media, sink, is_streaming, trigger_files, half_done, watches,
                 udp_channel_watch_id, metadata_probe_id, socket, sensor>>

FileLimitAborts ==
  loop = "running" /\ timers # {} /\ StorageAborts /\ Abort
-----------------------------------------------------------------------------
(* media_configure, for the media that the shared factory builds when a    *)
(* viewer asks for the stream and no other media exists.                   *)

Configuring == loop = "running" /\ ~media

SinkOfMedia == IF RecordRaw THEN "set" ELSE "null"

MediaConfigure(watch, timer) ==
  /\ Configuring /\ watch # timer
  /\ media' = TRUE
  /\ sink' = SinkOfMedia
  /\ AddWatch(watch)
  /\ csv_filepath' = CsvFile(Clock)
  /\ file_limit_callback_id' = timer /\ timers' = timers \cup {timer}
  /\ metadata_probe_id' = 1
  /\ is_streaming' = TRUE
  /\ sensor' = StartupSettings
  /\ UNCHANGED <<loop, is_raw_recording, recording_filepath, trigger_files,
                 half_done, socket>>

\* No sensor, or not the one of sensor.json: PipelineData.sink is not set yet.
SensorRejected ==
  /\ Configuring /\ "no_sensor" \in Faults
  /\ media' = TRUE
  /\ sensor' = StartupSettings
  /\ loop' = "quit"
  /\ UNCHANGED <<sink, flags, files, ids, live, socket>>

\* No directory, or no sensor metadata file in it: the watch is already there.
StorageRejected(watch) ==
  /\ Configuring /\ StorageAborts
  /\ media' = TRUE
  /\ sink' = SinkOfMedia
  /\ AddWatch(watch)
  /\ sensor' = StartupSettings
  /\ loop' = "quit"
  /\ UNCHANGED <<flags, files, file_limit_callback_id, metadata_probe_id,
                 timers, socket>>

\* new_csv cannot open its file.
MediaConfigureAborts == Configuring /\ "no_file" \in Faults /\ Abort
-----------------------------------------------------------------------------
(* The end of a media and of the program.                                  *)

\* cleanup_RTSP_media.  The timer that its stop_record_raw starts is removed
\* again below it; removing the probe runs metadata_cleanup.
CleanupRTSPMedia ==
  /\ loop \in {"running", "quit"} /\ media
  /\ media' = FALSE
  /\ is_streaming' = FALSE
  /\ DiscardFrames
  /\ csv_filepath' = IF metadata_probe_id # 0 THEN NULL ELSE csv_filepath
  /\ metadata_probe_id' = 0
  /\ watches' = watches \ {udp_channel_watch_id}
  /\ udp_channel_watch_id' = 0
  /\ timers' = timers \ {file_limit_callback_id}
  /\ file_limit_callback_id' = 0
  /\ UNCHANGED <<loop, sink, trigger_files, half_done, socket, sensor>>

\* split-now is emitted on a sink that no media_configure has set.
CleanupAborts ==
  /\ loop \in {"running", "quit"} /\ media /\ sink = "uninit"
  /\ Abort

HandleSIGINT ==
  /\ loop = "running" /\ loop' = "quit"
  /\ UNCHANGED <<media, sink, flags, files, ids, live, socket, sensor>>

Exit ==
  /\ loop = "quit" /\ loop' = "exited"
  /\ UNCHANGED <<media, sink, flags, files, ids, live, socket, sensor>>
-----------------------------------------------------------------------------
FileLimitFires ==
  \E id \in timers, new \in FreshIds, dir \in Directory :
    FileLimit(id, new, dir)

Next ==
  \/ \E m \in Messages : Arrive(m)
  \/ UdpReceived \/ UdpAborts
  \/ FileLimitFires \/ FileLimitAborts
  \/ \E watch, timer \in FreshIds : MediaConfigure(watch, timer)
  \/ \E watch \in FreshIds : StorageRejected(watch)
  \/ SensorRejected \/ MediaConfigureAborts
  \/ CleanupRTSPMedia \/ CleanupAborts
  \/ HandleSIGINT \/ Exit

Spec == Init /\ [][Next]_vars

\* The main loop dispatches a source that stays ready: a timer that stays
\* armed expires, a watch whose socket stays readable is called.
Fairness ==
  /\ WF_vars(FileLimitFires \/ FileLimitAborts)
  /\ WF_vars(UdpReceived \/ UdpAborts)

FairSpec == Spec /\ Fairness
-----------------------------------------------------------------------------
(* Properties.                                                             *)

\* Every variable holds a value of its C type or of the GLib state it
\* stands for (PipelineData, pipeline.h).
TypeOK ==
  /\ loop \in {"running", "quit", "exited", "aborted"}
  /\ media \in BOOLEAN /\ sink \in {"uninit", "null", "set"}
  /\ is_streaming \in BOOLEAN /\ is_raw_recording \in BOOLEAN
  /\ recording_filepath \in {NULL, DevNull} \cup (Text \X {".raw"})
  /\ csv_filepath \in {NULL} \cup (Text \X {"_metadata.csv"})
  /\ file_limit_callback_id \in SourceIds \cup {0}
  /\ udp_channel_watch_id \in SourceIds \cup {0}
  /\ metadata_probe_id \in {0, 1}
  /\ timers \subseteq SourceIds /\ watches \subseteq SourceIds
  /\ unread \in Text /\ sends \in Nat
  /\ trigger_files \subseteq Text \X Text /\ half_done \in BOOLEAN
  /\ sensor \in [exposure_time : STRING, gain : STRING]

\* No timer and no watch runs that PipelineData has lost the id of, whatever
\* triggers, limits, viewers and failures follow each other: an orphan would
\* end a later clip early, or handle each trigger twice.
SourcesTracked ==
  /\ timers \subseteq {file_limit_callback_id}
  /\ watches \subseteq {udp_channel_watch_id}

\* While a clip is recorded there is a stream to record, an armed limit timer
\* that restart_file_limit_timer can find, and a watch to hear the stop.
RecordingIsLimited ==
  is_raw_recording =>
    /\ is_streaming
    /\ file_limit_callback_id \in timers
    /\ udp_channel_watch_id \in watches

\* Between two viewers nothing of the last stream is left: no source, no
\* probe, no metadata file, and no clip for the next splitmuxsink to open.
IdleIsQuiet ==
  ~media =>
    /\ ~is_streaming /\ timers = {} /\ watches = {}
    /\ metadata_probe_id = 0 /\ csv_filepath = NULL
    /\ recording_filepath \in {NULL, DevNull}

\* The flag the status broadcast reports (statusbroadcaster.c) and the path
\* that format-location answers agree after every callback, failed or not.
FlagMatchesFile ==
  is_raw_recording <=> recording_filepath \notin {NULL, DevNull}

\* A media that was configured to the end keeps its timer, watch and probe for
\* as long as the loop runs, through every restart of the timer: the limit
\* and the next trigger always find their source.
StreamIsArmed ==
  (loop = "running" /\ media) =>
    /\ is_streaming
    /\ file_limit_callback_id \in timers
    /\ udp_channel_watch_id \in watches
    /\ metadata_probe_id = 1

\* The inductive invariant behind the theorems of CameraProofs.
IInv ==
  /\ TypeOK /\ SourcesTracked /\ RecordingIsLimited /\ IdleIsQuiet
  /\ FlagMatchesFile /\ StreamIsArmed
  /\ ~media => file_limit_callback_id = 0 /\ udp_channel_watch_id = 0
  /\ metadata_probe_id = 0 => csv_filepath = NULL

\* docs/App_Systems.md:190: as long as a clip is recorded there is the text file of
\* its own start trigger, and the frame metadata goes to the csv of the same
\* timestamp, whatever triggers, limits and streams came before.  Exactly one
\* failure breaks it: a start of whose two directory calls one fails, so that a
\* clip begins without its files, or an old clip goes on under the new csv.
ClipIsDocumented ==
  is_raw_recording /\ ~half_done =>
    LET clip == recording_filepath[1]
    IN /\ <<clip, <<"start">>>> \in trigger_files
       /\ csv_filepath = CsvFile(clip)

\* The detailed program implements the session its users see.
Session == INSTANCE CameraSession WITH
  Clips   <- Text \X {".raw"},
  NoClip  <- NULL,
  phase   <- IF loop # "running" THEN "ended"
             ELSE IF is_streaming THEN "live" ELSE "idle",
  clip    <- IF loop = "running" /\ is_raw_recording
             THEN recording_filepath ELSE NULL,
  limited <- loop = "running" /\ file_limit_callback_id \in timers

SessionSpec == Session!SessionSpec

\* Every clip ends, by a trigger, by the limit or with the program, whatever
\* fails in file_limit.
RecordingEnds ==
  is_raw_recording ~> (~is_raw_recording \/ loop # "running")

\* docs/App_Systems.md:190 and :192: a start or stop message for this camera
\* leaves its <timestamp>_<command>.txt.  Stated of each message in the text
\* that a callback takes from the socket.
Contains(text, m) ==
  \E i \in 0 .. Len(text) - Len(m) : SubSeq(text, i + 1, i + Len(m)) = m

TriggersFiled ==
  [][\A m \in Messages :
       (Contains(unread, m) /\ unread' = <<>>) =>
         \A t \in ParseTrigger(m) :
           t.command \in {<<"start">>, <<"stop">>}
             => <<t.timestamp, t.command>> \in trigger_files']_vars
=============================================================================
