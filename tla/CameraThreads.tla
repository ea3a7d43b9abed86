--------------------------- MODULE CameraThreads ---------------------------
(***************************************************************************)
(* Two threads in one PipelineData, which has no lock: the main loop runs  *)
(* udp_received_callback and file_limit, the client thread of              *)
(* gst-rtsp-server runs media_configure.  The last reference to a media,   *)
(* and with it cleanup_RTSP_media, is dropped on the client thread when    *)
(* the viewer leaves, or on the main loop when rtsp_session_pool_cleanup   *)
(* ends its session; then the client thread may already build the next     *)
(* media.  Raw recording is on and storage works.                          *)
(***************************************************************************)
EXTENDS Naturals, FiniteSets

CONSTANTS SourceIds,   \* ids of GLib event sources
          Teardown,    \* threads that can drop the last reference to a media
          MaxMedia,    \* bound: media built in a behaviour
          MaxSends     \* bound: triggers sent in a behaviour

Threads == {"main", "client"}

ASSUME ThreadsAssumption ==
  /\ 0 \notin SourceIds
  /\ Teardown \subseteq Threads
  /\ MaxMedia \in Nat /\ MaxSends \in Nat

VARIABLES
  media,                   \* the factory has a media
  built, unread, sends,    \* media built, triggers waiting, triggers sent
  is_streaming, is_raw_recording,
  recording_filepath,      \* "none", "/dev/null" or "clip"
  file_limit_callback_id, udp_channel_watch_id,
  timers, watches,         \* ids of the live GLib sources
  routine,                 \* the callback each thread is in
  pc,                      \* what the thread does next
  reg,                     \* an id it has read or has just got from GLib
  again                    \* it has to restart the timer once more

outside   == <<media, built, unread, sends>>
recording == <<is_raw_recording, recording_filepath>>
timer     == <<file_limit_callback_id, timers>>
watch     == <<udp_channel_watch_id, watches>>
thread    == <<routine, pc, reg, again>>
vars      == <<outside, is_streaming, recording, timer, watch, thread>>

Init ==
  /\ media = FALSE /\ built = 0 /\ unread = FALSE /\ sends = 0
  /\ is_streaming = FALSE /\ is_raw_recording = FALSE
  /\ recording_filepath = "none"
  /\ file_limit_callback_id = 0 /\ udp_channel_watch_id = 0
  /\ timers = {} /\ watches = {}
  /\ routine = [t \in Threads |-> "none"]
  /\ pc = [t \in Threads |-> "idle"]
  /\ reg = [t \in Threads |-> 0]
  /\ again = [t \in Threads |-> FALSE]
-----------------------------------------------------------------------------
Idle(t) == pc[t] = "idle"

\* Thread t goes from one step to another and has id in its register.
Goto(t, from, to, id) ==
  /\ pc[t] = from
  /\ pc' = [pc EXCEPT ![t] = to]
  /\ reg' = [reg EXCEPT ![t] = id]

\* Thread t enters a callback at a step; a trigger restarts the timer twice.
Enter(t, callback, first) ==
  /\ Goto(t, "idle", first, 0)
  /\ routine' = [routine EXCEPT ![t] = callback]
  /\ again' = [again EXCEPT ![t] = callback \in {"start", "stop"}]

FreshIds ==
  SourceIds \ (timers \cup watches \cup {reg[t] : t \in Threads}
                 \cup {file_limit_callback_id, udp_channel_watch_id})
-----------------------------------------------------------------------------
(* restart_file_limit_timer: read the id, remove that source, add a new    *)
(* one, store its id.                                                      *)

\* What follows restart_file_limit_timer in the callback of thread t.
AfterRestart(t) == IF again[t] THEN "load" ELSE "path"

ReadTimerId(t) ==
  /\ Goto(t, "load", "remove", file_limit_callback_id)
  /\ UNCHANGED <<outside, is_streaming, recording, timer, watch, routine, again>>

\* A faulty variant: the callback goes on as if the timer had been replaced.
RemovedOnly(t) ==
  /\ Goto(t, "remove", AfterRestart(t), 0)
  /\ again' = [again EXCEPT ![t] = FALSE]
  /\ timers' = timers \ {reg[t]}

SourceRemove(t) ==
  IF reg[t] \in timers
  THEN /\ Goto(t, "remove", "add", 0)
       /\ timers' = timers \ {reg[t]}
       /\ UNCHANGED again
  ELSE /\ Goto(t, "remove", AfterRestart(t), 0)
       /\ again' = [again EXCEPT ![t] = FALSE]
       /\ UNCHANGED timers

RemoveTimer(t) ==
  /\ SourceRemove(t)
  /\ UNCHANGED <<outside, is_streaming, recording, file_limit_callback_id,
                 watch, routine>>

\* Also the first timer of a stream, in media_configure.
AddTimer(t, new) ==
  /\ Goto(t, "add", "store", new)
  /\ timers' = timers \cup {new}
  /\ UNCHANGED <<outside, is_streaming, recording, file_limit_callback_id,
                 watch, routine, again>>

StoreTimerId(t) ==
  /\ Goto(t, "store",
          IF routine[t] = "configure" THEN "stream" ELSE AfterRestart(t), 0)
  /\ again' = [again EXCEPT ![t] = FALSE]
  /\ file_limit_callback_id' = reg[t]
  /\ UNCHANGED <<outside, is_streaming, recording, timers, watch, routine>>
-----------------------------------------------------------------------------
(* The rest of record_raw and of stop_record_raw.                          *)

NewPath(t) == IF routine[t] = "start" THEN "clip" ELSE "/dev/null"

SetPath(t) ==
  /\ Goto(t, "path", "flag", 0)
  /\ recording_filepath' = NewPath(t)
  /\ UNCHANGED <<outside, is_streaming, is_raw_recording, timer, watch,
                 routine, again>>

SetFlag(t) ==
  /\ Goto(t, "flag", IF routine[t] = "cleanup" THEN "read_watch" ELSE "idle", 0)
  /\ is_raw_recording' = (routine[t] = "start")
  /\ UNCHANGED <<outside, is_streaming, recording_filepath, timer, watch,
                 routine, again>>
-----------------------------------------------------------------------------
(* The main loop.                                                          *)

Send ==
  /\ sends < MaxSends /\ ~unread
  /\ unread' = TRUE /\ sends' = sends + 1
  /\ UNCHANGED <<media, built, is_streaming, recording, timer, watch, thread>>

\* What udp_received_callback returns: the watch stays (after a faulty variant
\* that returns G_SOURCE_REMOVE).
WatchEnds  == watches' = {} /\ UNCHANGED udp_channel_watch_id
WatchStays == UNCHANGED watch

UdpReceived ==
  /\ unread /\ watches # {}
  /\ \E command \in {"start", "stop"} : Enter("main", command, "load")
  /\ unread' = FALSE
  /\ WatchStays
  /\ UNCHANGED <<media, built, sends, is_streaming, recording, timer>>

FileLimit ==
  /\ timers # {}
  /\ Enter("main", "limit", "load")
  /\ UNCHANGED <<outside, is_streaming, recording, timer, watch>>
-----------------------------------------------------------------------------
(* media_configure on the client thread.                                   *)

MediaConfigure ==
  /\ ~media /\ built < MaxMedia
  /\ media' = TRUE /\ built' = built + 1
  /\ Enter("client", "configure", "add_watch")
  /\ UNCHANGED <<unread, sends, is_streaming, recording, timer, watch>>

AddWatch(new) ==
  /\ Goto("client", "add_watch", "store_watch", new)
  /\ watches' = watches \cup {new}
  /\ UNCHANGED <<outside, is_streaming, recording, timer, udp_channel_watch_id,
                 routine, again>>

StoreWatchId ==
  /\ Goto("client", "store_watch", "add", 0)
  /\ udp_channel_watch_id' = reg["client"]
  /\ UNCHANGED <<outside, is_streaming, recording, timer, watches, routine,
                 again>>

StartStreaming ==
  /\ Goto("client", "stream", "idle", 0)
  /\ is_streaming' = TRUE
  /\ UNCHANGED <<outside, recording, timer, watch, routine, again>>
-----------------------------------------------------------------------------
(* cleanup_RTSP_media on thread t: stop_record_raw, then for the watch and  *)
(* for the timer: read the id and, unless it is 0, remove the source and    *)
(* clear the id.                                                            *)

Cleanup(t) ==
  /\ media /\ Idle("client") /\ t \in Teardown
  /\ media' = FALSE
  /\ is_streaming' = FALSE
  /\ Enter(t, "cleanup", "load")
  /\ UNCHANGED <<built, unread, sends, recording, timer, watch>>

ReadWatchId(t) ==
  /\ Goto(t, "read_watch",
          IF udp_channel_watch_id = 0 THEN "read_timer" ELSE "remove_watch",
          udp_channel_watch_id)
  /\ UNCHANGED <<outside, is_streaming, recording, timer, watch, routine, again>>

\* A faulty variant: the watch is left running.
WatchKept(t) == UNCHANGED watches

WatchRemoved(t) == watches' = watches \ {reg[t]}

RemoveWatch(t) ==
  /\ Goto(t, "remove_watch", "clear_watch", 0)
  /\ WatchRemoved(t)
  /\ UNCHANGED <<outside, is_streaming, recording, timer, udp_channel_watch_id,
                 routine, again>>

ClearWatchId(t) ==
  /\ Goto(t, "clear_watch", "read_timer", 0)
  /\ udp_channel_watch_id' = 0
  /\ UNCHANGED <<outside, is_streaming, recording, timer, watches, routine,
                 again>>

ReadLastTimerId(t) ==
  /\ Goto(t, "read_timer",
          IF file_limit_callback_id = 0 THEN "idle" ELSE "remove_last",
          file_limit_callback_id)
  /\ UNCHANGED <<outside, is_streaming, recording, timer, watch, routine, again>>

RemoveLastTimer(t) ==
  /\ Goto(t, "remove_last", "clear_timer", 0)
  /\ timers' = timers \ {reg[t]}
  /\ UNCHANGED <<outside, is_streaming, recording, file_limit_callback_id,
                 watch, routine, again>>

ClearTimerId(t) ==
  /\ Goto(t, "clear_timer", "idle", 0)
  /\ file_limit_callback_id' = 0
  /\ UNCHANGED <<outside, is_streaming, recording, timers, watch, routine, again>>
-----------------------------------------------------------------------------
Step(t) ==
  \/ ReadTimerId(t) \/ RemoveTimer(t) \/ StoreTimerId(t)
  \/ \E new \in FreshIds : AddTimer(t, new)
  \/ SetPath(t) \/ SetFlag(t)
  \/ ReadWatchId(t) \/ RemoveWatch(t) \/ ClearWatchId(t)
  \/ ReadLastTimerId(t) \/ RemoveLastTimer(t) \/ ClearTimerId(t)

ConfigureStep ==
  (\E new \in FreshIds : AddWatch(new)) \/ StoreWatchId \/ StartStreaming

Next ==
  \/ \E t \in Threads : Step(t) \/ Cleanup(t)
  \/ Send \/ UdpReceived \/ FileLimit
  \/ MediaConfigure \/ ConfigureStep

Spec == Init /\ [][Next]_vars

\* Both threads run.  One iteration of the main loop dispatches every source
\* that is ready, so none is passed over each time the thread is idle.
Fairness ==
  /\ \A t \in Threads : WF_vars(Step(t))
  /\ WF_vars(ConfigureStep)
  /\ SF_vars(UdpReceived) /\ SF_vars(FileLimit)

FairSpec == Spec /\ Fairness
-----------------------------------------------------------------------------
(* Properties.                                                             *)

Labels == {"idle", "load", "remove", "add", "store", "path", "flag",
           "add_watch", "store_watch", "stream", "read_watch", "remove_watch",
           "clear_watch", "read_timer", "remove_last", "clear_timer"}

Callbacks == {"none", "start", "stop", "limit", "configure", "cleanup"}

\* Every variable holds a value of the type it has in PipelineData or GLib.
TypeOK ==
  /\ media \in BOOLEAN /\ built \in Nat
  /\ unread \in BOOLEAN /\ sends \in Nat
  /\ is_streaming \in BOOLEAN /\ is_raw_recording \in BOOLEAN
  /\ recording_filepath \in {"none", "/dev/null", "clip"}
  /\ file_limit_callback_id \in SourceIds \cup {0}
  /\ udp_channel_watch_id \in SourceIds \cup {0}
  /\ timers \subseteq SourceIds /\ watches \subseteq SourceIds
  /\ routine \in [Threads -> Callbacks]
  /\ pc \in [Threads -> Labels]
  /\ reg \in [Threads -> SourceIds \cup {0}]
  /\ again \in [Threads -> BOOLEAN]

\* A stream that is configured stays armed, also when a callback of the main
\* loop began in the stream before: a live watch, and a live limit timer that
\* restart_file_limit_timer can find, but for the moment of its replacement.
StreamStaysArmed ==
  (media /\ Idle("client")) =>
    /\ is_streaming
    /\ udp_channel_watch_id \in watches
    /\ file_limit_callback_id \in timers \/ pc["main"] \in {"add", "store"}

\* No trigger is acted on twice: one watch at a time, though an old media's
\* cleanup may still be running when the next media adds its own.
OneWatch == Cardinality(watches) <= 1

\* rtsp_server.c:45: cleanup stops normal raw trigger processing.  Between two
\* streams nothing listens to the control socket.
StoppedListening ==
  (~media /\ \A t \in Threads : Idle(t)) => watches = {}

\* The steps of the client thread in which it builds a media, and those after
\* the new watch's id has been stored, to the end of the stream.
InConfigure ==
  \/ pc["client"] \in {"add_watch", "store_watch", "stream"}
  \/ pc["client"] \in {"add", "store"} /\ routine["client"] = "configure"

Watching ==
  \/ media /\ pc["client"] \in {"idle", "add", "store", "stream"}
  \/ ~media /\ pc["client"] \in {"load", "remove", "add", "store", "path",
                                 "flag", "read_watch", "remove_watch"}

\* Where the two threads are, and whose media it is, when every media ends on
\* the client thread.
ThreadsInStep ==
  /\ pc["main"] \in {"idle", "load", "remove", "add", "store", "path", "flag"}
  /\ routine["main"] \in {"none", "start", "stop", "limit"}
  /\ ~Idle("client") => /\ media <=> InConfigure
                        /\ routine["client"] =
                             IF InConfigure THEN "configure" ELSE "cleanup"

\* An id that is about to be stored is a live timer's and nobody else's.
StoresOwnTimer ==
  /\ timers \cap watches = {}
  /\ \A t \in Threads : pc[t] = "store" =>
       /\ reg[t] \in timers /\ reg[t] # file_limit_callback_id
       /\ \A u \in Threads \ {t} : reg[u] # reg[t]

\* The watch of the stream, by the steps of the client thread.
WatchTracked ==
  /\ pc["client"] = "store_watch" => watches = {reg["client"]}
  /\ Watching => watches = {udp_channel_watch_id}
  /\ pc["client"] = "remove_watch" => reg["client"] = udp_channel_watch_id
  /\ ~Watching /\ pc["client"] # "store_watch" => watches = {}

\* The timer of the stream, from the last step of media_configure on.
TimerTracked ==
  media /\ pc["client"] \in {"stream", "idle"} =>
    file_limit_callback_id \in timers \/ pc["main"] \in {"add", "store"}

Streaming == media /\ Idle("client") => is_streaming

\* The inductive invariant behind the theorems of CameraThreadsProofs.
IInv ==
  /\ TypeOK /\ ThreadsInStep /\ StoresOwnTimer /\ WatchTracked /\ TimerTracked
  /\ Streaming

\* Raw Time Limit holds in every stream, whatever the stream before left.
RecordingEndsInStream ==
  (is_raw_recording /\ media) ~> (~is_raw_recording \/ ~media)

\* docs/App_Systems.md:186: if the label matches, the command will be executed.
\* A trigger that waits while a stream is up is taken from the socket.
TriggersHeard == (media /\ unread) ~> (~unread \/ ~media)
=============================================================================
