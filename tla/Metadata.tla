------------------------------- MODULE Metadata -------------------------------
(***************************************************************************)
(* What the program tells of itself while it streams, in one model: the     *)
(* status message of the main loop, the probe that makes a line of csv of    *)
(* every frame, and the csv file that media_configure, a trigger, the file   *)
(* limit and the end of the stream exchange.                               *)
(***************************************************************************)
EXTENDS StatusBroadcast, CsvWriter

CONSTANT MaxEvents     \* bound on what happens: frames, swaps, status ticks and
                       \* changes of the camera together

\* The callers of getSensorDynamicInfo, and the threads that begin a csv.
ASSUME MetadataAssumption ==
  /\ Callers = {"status", "probe"} /\ Threads = {"main", "client"}
  /\ MaxEvents \in Nat

VARIABLES media,         \* "none", "setup", "streaming" or "closing"
          is_streaming,
          events         \* events so far

mediaVars == <<media, is_streaming, events>>

vars == <<sensorVars, statusVars, csvVars, mediaVars>>

Init ==
  /\ SensorInit /\ StatusInit /\ CsvInit
  /\ media = "none" /\ is_streaming = FALSE
  /\ events = 0

Event == ~crashed /\ events < MaxEvents /\ events' = events + 1

MainIsFree == status = "idle" /\ swap["main"] = Idle

\* media_configure begins the csv of the stream ...
MediaConfigure ==
  /\ Event /\ media = "none" /\ media' = "setup"
  /\ \E path \in Paths : NewCsv("client", path)
  /\ UNCHANGED <<sensorVars, statusVars, is_streaming>>

\* ... and installs the probe.
MediaConfigured ==
  /\ media = "setup" /\ At("client", "idle")
  /\ media' = "streaming" /\ is_streaming' = TRUE
  /\ UNCHANGED <<sensorVars, statusVars, csvVars, events>>

\* cleanup_RTSP_media, on the client's thread or, when the session pool ends the
\* session, on the main loop: the streaming thread has ended; removing the
\* probe calls metadata_cleanup.
CleanupMedia(thread) ==
  /\ Event /\ media = "streaming" /\ at["probe"] = "idle"
  /\ thread = "main" => MainIsFree
  /\ media' = "closing" /\ is_streaming' = FALSE
  /\ MetadataCleanup(thread)
  /\ UNCHANGED <<sensorVars, statusVars>>

InCleanup == \E thread \in Threads : swap[thread] # Idle /\ swap[thread].path = NoPath

MediaGone ==
  /\ ~crashed /\ media = "closing" /\ ~InCleanup
  /\ media' = "none"
  /\ UNCHANGED <<sensorVars, statusVars, csvVars, is_streaming, events>>

\* The main loop begins a csv, for a trigger or the file limit: the watch is
\* there before media_configure makes its csv, and until the probe is removed.
TriggerOrLimit ==
  /\ Event /\ media # "none" /\ MainIsFree
  /\ \E path \in Paths : NewCsv("main", path)
  /\ UNCHANGED <<sensorVars, statusVars, media, is_streaming>>

StatusTick ==
  /\ Event /\ MainIsFree /\ StatusBegin(is_streaming)
  /\ UNCHANGED <<csvVars, media, is_streaming>>

StatusStep ==
  /\ ~crashed
  /\ \/ StatusInfo
     \/ StatusSend(is_streaming)
     \/ InCall("status") /\ UNCHANGED statusVars
  /\ UNCHANGED <<csvVars, mediaVars>>

\* The media that status_broadcaster has found streaming, and pylonsrc with it,
\* is freed while it asks.
SourceGone ==
  /\ status = "info" /\ media = "none" /\ Crash
  /\ UNCHANGED <<sensorVars, statusVars, mediaVars>>

\* A frame passes the probe: frame_level_metadata asks the camera ...
FrameArrives ==
  /\ Event /\ media = "streaming"
  /\ GetInfo("probe")
  /\ UNCHANGED <<statusVars, csvVars, media, is_streaming>>

ProbeStep ==
  /\ ~crashed /\ InCall("probe")
  /\ UNCHANGED <<statusVars, csvVars, mediaVars>>

\* ... and pushes the line; without a struct it follows a NULL pointer.
FrameLine ==
  /\ \/ at["probe"] = "done" /\ PushBuffer
     \/ at["probe"] = "failed" /\ Crash
  /\ Release("probe")
  /\ UNCHANGED <<statusVars, mediaVars>>

SwapStep(thread) ==
  /\ InSwap(thread)
  /\ UNCHANGED <<sensorVars, statusVars, mediaVars>>

QueueStep ==
  /\ WriteLine
  /\ UNCHANGED <<sensorVars, statusVars, mediaVars>>

Surroundings ==
  /\ Event /\ CameraChanges
  /\ UNCHANGED <<statusVars, csvVars, media, is_streaming>>

Next ==
  \/ MediaConfigure \/ MediaConfigured \/ MediaGone
  \/ \E thread \in Threads : CleanupMedia(thread)
  \/ TriggerOrLimit \/ StatusTick \/ StatusStep \/ SourceGone
  \/ FrameArrives \/ ProbeStep \/ FrameLine
  \/ \E thread \in Threads : SwapStep(thread)
  \/ QueueStep \/ Surroundings

Spec == Init /\ [][Next]_vars
=============================================================================
