------------------------ MODULE CameraThreadsProofs ------------------------
(***************************************************************************)
(* Theorems about CameraThreads: what survives the interleaving of the two *)
(* threads when every media ends on the client thread.  One lemma per step *)
(* of a thread shows that IInv is preserved.                               *)
(***************************************************************************)
EXTENDS CameraThreads, FiniteSetTheorems, TLAPS

\* A media is unreferenced by its viewer's thread only, not by the cleanup of
\* the session pool.  MCCameraThreadsSession shows that this is needed.
ClientTeardown == Teardown = {"client"}

\* The two threads are told apart, and 0 is no id, in every step.
USE ThreadsAssumption
    DEF ThreadsAssumption, Threads, outside, recording, timer, watch, thread

\* A fresh id belongs to no source and to no thread.
LEMMA Fresh ==
  ASSUME NEW new \in FreshIds
  PROVE  /\ new \in SourceIds /\ new # 0
         /\ new \notin timers /\ new \notin watches
         /\ new # file_limit_callback_id
         /\ \A t \in Threads : reg[t] # new
  BY DEF FreshIds

LEMMA InitInv == Init => IInv
<1> SUFFICES ASSUME Init PROVE IInv
  OBVIOUS
<1>1. TypeOK
  BY DEF Init, TypeOK, Labels, Callbacks
<1> QED
  BY <1>1 DEF Init, IInv, ThreadsInStep, StoresOwnTimer, WatchTracked,
              TimerTracked, Streaming, Idle, InConfigure, Watching
-----------------------------------------------------------------------------
(* restart_file_limit_timer.                                               *)

LEMMA ReadTimerIdInv ==
  ASSUME IInv, NEW t \in Threads, ReadTimerId(t)
  PROVE  IInv'
<1>1. TypeOK'
  BY DEF IInv, TypeOK, Labels, ReadTimerId, Goto
<1>2. ThreadsInStep'
  BY DEF IInv, TypeOK, ThreadsInStep, Idle, InConfigure, ReadTimerId, Goto
<1>3. StoresOwnTimer'
  BY DEF IInv, TypeOK, StoresOwnTimer, ThreadsInStep, Idle, InConfigure,
     ReadTimerId, Goto
<1>4. WatchTracked'
  BY DEF IInv, TypeOK, WatchTracked, Watching, ThreadsInStep, Idle,
     InConfigure, ReadTimerId, Goto
<1>5. TimerTracked' /\ Streaming'
  BY DEF IInv, TypeOK, TimerTracked, Streaming, StoresOwnTimer,
     ThreadsInStep, Idle, InConfigure, ReadTimerId, Goto
<1> QED
  BY <1>1, <1>2, <1>3, <1>4, <1>5 DEF IInv

LEMMA RemoveTimerInv ==
  ASSUME IInv, NEW t \in Threads, RemoveTimer(t)
  PROVE  IInv'
<1>1. TypeOK'
  <2>1. timers' \subseteq SourceIds
    BY DEF IInv, TypeOK, RemoveTimer, SourceRemove
  <2>2. pc' \in [Threads -> Labels] /\ reg' \in [Threads -> SourceIds \cup {0}]
    BY DEF IInv, TypeOK, Labels, RemoveTimer, Goto, SourceRemove,
       AfterRestart
  <2>3. again' \in [Threads -> BOOLEAN]
    BY DEF IInv, TypeOK, RemoveTimer, SourceRemove
  <2> QED
    BY <2>1, <2>2, <2>3 DEF IInv, TypeOK, RemoveTimer
<1>2. ThreadsInStep'
  BY DEF IInv, TypeOK, ThreadsInStep, Idle, InConfigure, RemoveTimer,
     Goto, SourceRemove, AfterRestart
<1>3. StoresOwnTimer'
  BY DEF IInv, TypeOK, StoresOwnTimer, ThreadsInStep, Idle, InConfigure,
     RemoveTimer, Goto, SourceRemove, AfterRestart
<1>4. WatchTracked'
  BY DEF IInv, TypeOK, WatchTracked, Watching, ThreadsInStep, Idle,
     InConfigure, RemoveTimer, Goto, SourceRemove, AfterRestart
<1>5. TimerTracked' /\ Streaming'
  BY DEF IInv, TypeOK, TimerTracked, Streaming, StoresOwnTimer,
     ThreadsInStep, Idle, InConfigure, RemoveTimer, Goto, SourceRemove,
     AfterRestart
<1> QED
  BY <1>1, <1>2, <1>3, <1>4, <1>5 DEF IInv

LEMMA AddTimerInv ==
  ASSUME IInv, NEW t \in Threads, NEW new \in FreshIds, AddTimer(t, new)
  PROVE  IInv'
<1>1. TypeOK'
  BY Fresh DEF IInv, TypeOK, Labels, AddTimer, Goto
<1>2. ThreadsInStep'
  BY DEF IInv, TypeOK, ThreadsInStep, Idle, InConfigure, AddTimer, Goto
<1>3. StoresOwnTimer'
  BY Fresh DEF IInv, TypeOK, StoresOwnTimer, ThreadsInStep, Idle,
     InConfigure, AddTimer, Goto
<1>4. WatchTracked'
  BY Fresh DEF IInv, TypeOK, WatchTracked, Watching, ThreadsInStep, Idle,
     InConfigure, AddTimer, Goto
<1>5. TimerTracked' /\ Streaming'
  BY Fresh DEF IInv, TypeOK, TimerTracked, Streaming, StoresOwnTimer,
     ThreadsInStep, Idle, InConfigure, AddTimer, Goto
<1> QED
  BY <1>1, <1>2, <1>3, <1>4, <1>5 DEF IInv

LEMMA StoreTimerIdInv ==
  ASSUME IInv, NEW t \in Threads, StoreTimerId(t)
  PROVE  IInv'
<1>1. TypeOK'
  BY DEF IInv, TypeOK, Labels, StoreTimerId, Goto, AfterRestart
<1>2. ThreadsInStep'
  BY DEF IInv, TypeOK, ThreadsInStep, Idle, InConfigure, StoreTimerId,
     Goto, AfterRestart
<1>3. StoresOwnTimer'
  BY DEF IInv, TypeOK, StoresOwnTimer, ThreadsInStep, Idle, InConfigure,
     StoreTimerId, Goto, AfterRestart
<1>4. WatchTracked'
  BY DEF IInv, TypeOK, WatchTracked, Watching, ThreadsInStep, Idle,
     InConfigure, StoreTimerId, Goto, AfterRestart
<1>5. TimerTracked' /\ Streaming'
  BY DEF IInv, TypeOK, TimerTracked, Streaming, StoresOwnTimer,
     ThreadsInStep, Idle, InConfigure, StoreTimerId, Goto, AfterRestart
<1> QED
  BY <1>1, <1>2, <1>3, <1>4, <1>5 DEF IInv

-----------------------------------------------------------------------------
(* The rest of record_raw and stop_record_raw.                             *)

LEMMA SetPathInv ==
  ASSUME IInv, NEW t \in Threads, SetPath(t)
  PROVE  IInv'
<1>1. TypeOK'
  BY DEF IInv, TypeOK, Labels, SetPath, Goto, NewPath
<1>2. ThreadsInStep'
  BY DEF IInv, TypeOK, ThreadsInStep, Idle, InConfigure, SetPath, Goto,
     NewPath
<1>3. StoresOwnTimer'
  BY DEF IInv, TypeOK, StoresOwnTimer, ThreadsInStep, Idle, InConfigure,
     SetPath, Goto, NewPath
<1>4. WatchTracked'
  BY DEF IInv, TypeOK, WatchTracked, Watching, ThreadsInStep, Idle,
     InConfigure, SetPath, Goto, NewPath
<1>5. TimerTracked' /\ Streaming'
  BY DEF IInv, TypeOK, TimerTracked, Streaming, StoresOwnTimer,
     ThreadsInStep, Idle, InConfigure, SetPath, Goto, NewPath
<1> QED
  BY <1>1, <1>2, <1>3, <1>4, <1>5 DEF IInv

LEMMA SetFlagInv ==
  ASSUME IInv, NEW t \in Threads, SetFlag(t)
  PROVE  IInv'
<1>1. TypeOK'
  BY DEF IInv, TypeOK, Labels, SetFlag, Goto
<1>2. ThreadsInStep'
  BY DEF IInv, TypeOK, ThreadsInStep, Idle, InConfigure, SetFlag, Goto
<1>3. StoresOwnTimer'
  BY DEF IInv, TypeOK, StoresOwnTimer, ThreadsInStep, Idle, InConfigure,
     SetFlag, Goto
<1>4. WatchTracked'
  BY DEF IInv, TypeOK, WatchTracked, Watching, ThreadsInStep, Idle,
     InConfigure, SetFlag, Goto
<1>5. TimerTracked' /\ Streaming'
  BY DEF IInv, TypeOK, TimerTracked, Streaming, StoresOwnTimer,
     ThreadsInStep, Idle, InConfigure, SetFlag, Goto
<1> QED
  BY <1>1, <1>2, <1>3, <1>4, <1>5 DEF IInv

-----------------------------------------------------------------------------
(* The main loop.                                                          *)

LEMMA SendInv ==
  ASSUME IInv, Send
  PROVE  IInv'
<1>1. TypeOK'
  BY DEF IInv, TypeOK, Labels, Send
<1>2. ThreadsInStep'
  BY DEF IInv, TypeOK, ThreadsInStep, Idle, InConfigure, Send
<1>3. StoresOwnTimer'
  BY DEF IInv, TypeOK, StoresOwnTimer, Send
<1>4. WatchTracked'
  BY DEF IInv, TypeOK, WatchTracked, Watching, ThreadsInStep, Idle,
     InConfigure, Send
<1>5. TimerTracked' /\ Streaming'
  BY DEF IInv, TypeOK, TimerTracked, Streaming, StoresOwnTimer,
     ThreadsInStep, Idle, InConfigure, Send
<1> QED
  BY <1>1, <1>2, <1>3, <1>4, <1>5 DEF IInv

LEMMA UdpReceivedInv ==
  ASSUME IInv, UdpReceived
  PROVE  IInv'
<1>1. TypeOK'
  <2>1. again' \in [Threads -> BOOLEAN]
    BY DEF IInv, TypeOK, Enter, UdpReceived, WatchStays
  <2>2. /\ pc' \in [Threads -> Labels] /\ routine' \in [Threads -> Callbacks]
        /\ reg' \in [Threads -> SourceIds \cup {0}]
    BY DEF IInv, TypeOK, Labels, Callbacks, Enter, Goto, UdpReceived, WatchStays
  <2> QED
    BY <2>1, <2>2 DEF IInv, TypeOK, UdpReceived, WatchStays
<1>2. ThreadsInStep'
  BY DEF IInv, TypeOK, ThreadsInStep, Idle, InConfigure, UdpReceived, WatchStays,
     Goto, Enter
<1>3. StoresOwnTimer'
  BY DEF IInv, TypeOK, StoresOwnTimer, ThreadsInStep, Idle, InConfigure,
     UdpReceived, WatchStays, Goto, Enter
<1>4. WatchTracked'
  BY DEF IInv, TypeOK, WatchTracked, Watching, ThreadsInStep, Idle,
     InConfigure, UdpReceived, WatchStays, Goto, Enter
<1>5. TimerTracked' /\ Streaming'
  BY DEF IInv, TypeOK, TimerTracked, Streaming, StoresOwnTimer,
     ThreadsInStep, Idle, InConfigure, UdpReceived, WatchStays, Goto, Enter
<1> QED
  BY <1>1, <1>2, <1>3, <1>4, <1>5 DEF IInv

LEMMA FileLimitInv ==
  ASSUME IInv, FileLimit
  PROVE  IInv'
<1>1. TypeOK'
  BY DEF IInv, TypeOK, Labels, Callbacks, FileLimit, Goto, Enter
<1>2. ThreadsInStep'
  BY DEF IInv, TypeOK, ThreadsInStep, Idle, InConfigure, FileLimit, Goto,
     Enter
<1>3. StoresOwnTimer'
  BY DEF IInv, TypeOK, StoresOwnTimer, ThreadsInStep, Idle, InConfigure,
     FileLimit, Goto, Enter
<1>4. WatchTracked'
  BY DEF IInv, TypeOK, WatchTracked, Watching, ThreadsInStep, Idle,
     InConfigure, FileLimit, Goto, Enter
<1>5. TimerTracked' /\ Streaming'
  BY DEF IInv, TypeOK, TimerTracked, Streaming, StoresOwnTimer,
     ThreadsInStep, Idle, InConfigure, FileLimit, Goto, Enter
<1> QED
  BY <1>1, <1>2, <1>3, <1>4, <1>5 DEF IInv

-----------------------------------------------------------------------------
(* media_configure.                                                        *)

LEMMA MediaConfigureInv ==
  ASSUME IInv, MediaConfigure
  PROVE  IInv'
<1>1. TypeOK'
  BY DEF IInv, TypeOK, Labels, Callbacks, MediaConfigure, Goto, Enter
<1>2. ThreadsInStep'
  BY DEF IInv, TypeOK, ThreadsInStep, Idle, InConfigure, MediaConfigure,
     Goto, Enter
<1>3. StoresOwnTimer'
  BY DEF IInv, TypeOK, StoresOwnTimer, ThreadsInStep, WatchTracked,
     Watching, Idle, InConfigure, MediaConfigure, Goto, Enter
<1>4. WatchTracked'
  BY DEF IInv, TypeOK, WatchTracked, Watching, ThreadsInStep, Idle,
     InConfigure, MediaConfigure, Goto, Enter
<1>5. TimerTracked' /\ Streaming'
  BY DEF IInv, TypeOK, TimerTracked, Streaming, StoresOwnTimer,
     ThreadsInStep, Idle, InConfigure, MediaConfigure, Goto, Enter
<1> QED
  BY <1>1, <1>2, <1>3, <1>4, <1>5 DEF IInv

LEMMA AddWatchInv ==
  ASSUME IInv, NEW new \in FreshIds, AddWatch(new)
  PROVE  IInv'
<1>1. TypeOK'
  BY Fresh DEF IInv, TypeOK, Labels, AddWatch, Goto
<1>2. ThreadsInStep'
  BY DEF IInv, TypeOK, ThreadsInStep, Idle, InConfigure, AddWatch, Goto
<1>3. StoresOwnTimer'
  BY Fresh DEF IInv, TypeOK, StoresOwnTimer, ThreadsInStep, Idle,
     InConfigure, AddWatch, Goto
<1>4. WatchTracked'
  BY Fresh DEF IInv, TypeOK, WatchTracked, Watching, ThreadsInStep, Idle,
     InConfigure, AddWatch, Goto
<1>5. TimerTracked' /\ Streaming'
  BY Fresh DEF IInv, TypeOK, TimerTracked, Streaming, StoresOwnTimer,
     ThreadsInStep, Idle, InConfigure, AddWatch, Goto
<1> QED
  BY <1>1, <1>2, <1>3, <1>4, <1>5 DEF IInv

LEMMA StoreWatchIdInv ==
  ASSUME IInv, StoreWatchId
  PROVE  IInv'
<1>1. TypeOK'
  BY DEF IInv, TypeOK, Labels, StoreWatchId, Goto
<1>2. ThreadsInStep'
  BY DEF IInv, TypeOK, ThreadsInStep, Idle, InConfigure, StoreWatchId,
     Goto
<1>3. StoresOwnTimer'
  BY DEF IInv, TypeOK, StoresOwnTimer, ThreadsInStep, Idle, InConfigure,
     StoreWatchId, Goto
<1>4. WatchTracked'
  BY DEF IInv, TypeOK, WatchTracked, Watching, ThreadsInStep, Idle,
     InConfigure, StoreWatchId, Goto
<1>5. TimerTracked' /\ Streaming'
  BY DEF IInv, TypeOK, TimerTracked, Streaming, StoresOwnTimer,
     ThreadsInStep, Idle, InConfigure, StoreWatchId, Goto
<1> QED
  BY <1>1, <1>2, <1>3, <1>4, <1>5 DEF IInv

LEMMA StartStreamingInv ==
  ASSUME IInv, StartStreaming
  PROVE  IInv'
<1>1. TypeOK'
  BY DEF IInv, TypeOK, Labels, StartStreaming, Goto
<1>2. ThreadsInStep'
  BY DEF IInv, TypeOK, ThreadsInStep, Idle, InConfigure, StartStreaming,
     Goto
<1>3. StoresOwnTimer'
  BY DEF IInv, TypeOK, StoresOwnTimer, ThreadsInStep, Idle, InConfigure,
     StartStreaming, Goto
<1>4. WatchTracked'
  BY DEF IInv, TypeOK, WatchTracked, Watching, ThreadsInStep, Idle,
     InConfigure, StartStreaming, Goto
<1>5. TimerTracked' /\ Streaming'
  BY DEF IInv, TypeOK, TimerTracked, Streaming, StoresOwnTimer,
     ThreadsInStep, Idle, InConfigure, StartStreaming, Goto
<1> QED
  BY <1>1, <1>2, <1>3, <1>4, <1>5 DEF IInv

-----------------------------------------------------------------------------
(* cleanup_RTSP_media, by the threads that ThreadsInStep allows to run it. *)

LEMMA CleanupInv ==
  ASSUME ClientTeardown, IInv, NEW t \in Threads, Cleanup(t)
  PROVE  IInv'
<1>1. TypeOK'
  <2>1. again' \in [Threads -> BOOLEAN]
    BY DEF IInv, TypeOK, Enter, Cleanup
  <2>2. /\ pc' \in [Threads -> Labels] /\ routine' \in [Threads -> Callbacks]
        /\ reg' \in [Threads -> SourceIds \cup {0}]
    BY DEF IInv, TypeOK, Labels, Callbacks, Enter, Goto, Cleanup
  <2> QED
    BY <2>1, <2>2 DEF IInv, TypeOK, Cleanup
<1>2. ThreadsInStep'
  BY DEF IInv, TypeOK, ThreadsInStep, Idle, InConfigure, Cleanup, Goto,
     Enter, ClientTeardown
<1>3. StoresOwnTimer'
  BY DEF IInv, TypeOK, StoresOwnTimer, ThreadsInStep, Idle, InConfigure,
     Cleanup, Goto, Enter, ClientTeardown
<1>4. WatchTracked'
  BY DEF IInv, TypeOK, WatchTracked, Watching, ThreadsInStep, Idle,
     InConfigure, Cleanup, Goto, Enter, ClientTeardown
<1>5. TimerTracked' /\ Streaming'
  BY DEF IInv, TypeOK, TimerTracked, Streaming, StoresOwnTimer,
     ThreadsInStep, Idle, InConfigure, Cleanup, Goto, Enter,
     ClientTeardown
<1> QED
  BY <1>1, <1>2, <1>3, <1>4, <1>5 DEF IInv

LEMMA ReadWatchIdInv ==
  ASSUME IInv, NEW t \in Threads, ReadWatchId(t)
  PROVE  IInv'
<1>1. TypeOK'
  BY DEF IInv, TypeOK, Labels, ReadWatchId, Goto
<1>2. ThreadsInStep'
  BY DEF IInv, TypeOK, ThreadsInStep, Idle, InConfigure, ReadWatchId, Goto
<1>3. StoresOwnTimer'
  BY DEF IInv, TypeOK, StoresOwnTimer, ThreadsInStep, WatchTracked,
     Watching, Idle, InConfigure, ReadWatchId, Goto
<1>4. WatchTracked'
  BY DEF IInv, TypeOK, WatchTracked, Watching, ThreadsInStep, Idle,
     InConfigure, ReadWatchId, Goto
<1>5. TimerTracked' /\ Streaming'
  BY DEF IInv, TypeOK, TimerTracked, Streaming, StoresOwnTimer,
     ThreadsInStep, Idle, InConfigure, ReadWatchId, Goto
<1> QED
  BY <1>1, <1>2, <1>3, <1>4, <1>5 DEF IInv

LEMMA RemoveWatchInv ==
  ASSUME IInv, NEW t \in Threads, RemoveWatch(t)
  PROVE  IInv'
<1>1. TypeOK'
  BY DEF IInv, TypeOK, Labels, RemoveWatch, Goto, WatchRemoved
<1>2. ThreadsInStep'
  BY DEF IInv, TypeOK, ThreadsInStep, Idle, InConfigure, RemoveWatch,
     Goto, WatchRemoved
<1>3. StoresOwnTimer'
  BY DEF IInv, TypeOK, StoresOwnTimer, ThreadsInStep, Idle, InConfigure,
     RemoveWatch, Goto, WatchRemoved
<1>4. WatchTracked'
  BY DEF IInv, TypeOK, WatchTracked, Watching, ThreadsInStep, Idle,
     InConfigure, RemoveWatch, Goto, WatchRemoved
<1>5. TimerTracked' /\ Streaming'
  BY DEF IInv, TypeOK, TimerTracked, Streaming, StoresOwnTimer,
     ThreadsInStep, Idle, InConfigure, RemoveWatch, Goto, WatchRemoved
<1> QED
  BY <1>1, <1>2, <1>3, <1>4, <1>5 DEF IInv

LEMMA ClearWatchIdInv ==
  ASSUME IInv, NEW t \in Threads, ClearWatchId(t)
  PROVE  IInv'
<1>1. TypeOK'
  BY DEF IInv, TypeOK, Labels, ClearWatchId, Goto
<1>2. ThreadsInStep'
  BY DEF IInv, TypeOK, ThreadsInStep, Idle, InConfigure, ClearWatchId,
     Goto
<1>3. StoresOwnTimer'
  BY DEF IInv, TypeOK, StoresOwnTimer, ThreadsInStep, Idle, InConfigure,
     ClearWatchId, Goto
<1>4. WatchTracked'
  BY DEF IInv, TypeOK, WatchTracked, Watching, ThreadsInStep, Idle,
     InConfigure, ClearWatchId, Goto
<1>5. TimerTracked' /\ Streaming'
  BY DEF IInv, TypeOK, TimerTracked, Streaming, StoresOwnTimer,
     ThreadsInStep, Idle, InConfigure, ClearWatchId, Goto
<1> QED
  BY <1>1, <1>2, <1>3, <1>4, <1>5 DEF IInv

LEMMA ReadLastTimerIdInv ==
  ASSUME IInv, NEW t \in Threads, ReadLastTimerId(t)
  PROVE  IInv'
<1>1. TypeOK'
  BY DEF IInv, TypeOK, Labels, ReadLastTimerId, Goto
<1>2. ThreadsInStep'
  BY DEF IInv, TypeOK, ThreadsInStep, Idle, InConfigure, ReadLastTimerId,
     Goto
<1>3. StoresOwnTimer'
  BY DEF IInv, TypeOK, StoresOwnTimer, ThreadsInStep, WatchTracked,
     Watching, Idle, InConfigure, ReadLastTimerId, Goto
<1>4. WatchTracked'
  BY DEF IInv, TypeOK, WatchTracked, Watching, ThreadsInStep, Idle,
     InConfigure, ReadLastTimerId, Goto
<1>5. TimerTracked' /\ Streaming'
  BY DEF IInv, TypeOK, TimerTracked, Streaming, StoresOwnTimer,
     ThreadsInStep, Idle, InConfigure, ReadLastTimerId, Goto
<1> QED
  BY <1>1, <1>2, <1>3, <1>4, <1>5 DEF IInv

LEMMA RemoveLastTimerInv ==
  ASSUME IInv, NEW t \in Threads, RemoveLastTimer(t)
  PROVE  IInv'
<1>1. TypeOK'
  BY DEF IInv, TypeOK, Labels, RemoveLastTimer, Goto
<1>2. ThreadsInStep'
  BY DEF IInv, TypeOK, ThreadsInStep, Idle, InConfigure, RemoveLastTimer,
     Goto
<1>3. StoresOwnTimer'
  BY DEF IInv, TypeOK, StoresOwnTimer, ThreadsInStep, Idle, InConfigure,
     RemoveLastTimer, Goto
<1>4. WatchTracked'
  BY DEF IInv, TypeOK, WatchTracked, Watching, ThreadsInStep, Idle,
     InConfigure, RemoveLastTimer, Goto
<1>5. TimerTracked' /\ Streaming'
  BY DEF IInv, TypeOK, TimerTracked, Streaming, StoresOwnTimer,
     ThreadsInStep, Idle, InConfigure, RemoveLastTimer, Goto
<1> QED
  BY <1>1, <1>2, <1>3, <1>4, <1>5 DEF IInv

LEMMA ClearTimerIdInv ==
  ASSUME IInv, NEW t \in Threads, ClearTimerId(t)
  PROVE  IInv'
<1>1. TypeOK'
  BY DEF IInv, TypeOK, Labels, ClearTimerId, Goto
<1>2. ThreadsInStep'
  BY DEF IInv, TypeOK, ThreadsInStep, Idle, InConfigure, ClearTimerId,
     Goto
<1>3. StoresOwnTimer'
  BY DEF IInv, TypeOK, StoresOwnTimer, ThreadsInStep, Idle, InConfigure,
     ClearTimerId, Goto
<1>4. WatchTracked'
  BY DEF IInv, TypeOK, WatchTracked, Watching, ThreadsInStep, Idle,
     InConfigure, ClearTimerId, Goto
<1>5. TimerTracked' /\ Streaming'
  BY DEF IInv, TypeOK, TimerTracked, Streaming, StoresOwnTimer,
     ThreadsInStep, Idle, InConfigure, ClearTimerId, Goto
<1> QED
  BY <1>1, <1>2, <1>3, <1>4, <1>5 DEF IInv

-----------------------------------------------------------------------------
(* The theorems.                                                           *)

LEMMA NextInv ==
  ASSUME ClientTeardown, IInv, [Next]_vars
  PROVE  IInv'
<1>1. CASE \E t \in Threads : Step(t)
  BY <1>1, ReadTimerIdInv, RemoveTimerInv, AddTimerInv, StoreTimerIdInv,
     SetPathInv, SetFlagInv, ReadWatchIdInv, RemoveWatchInv, ClearWatchIdInv,
     ReadLastTimerIdInv, RemoveLastTimerInv, ClearTimerIdInv DEF Step
<1>2. CASE \E t \in Threads : Cleanup(t)
  BY <1>2, CleanupInv
<1>3. CASE Send \/ UdpReceived \/ FileLimit
  BY <1>3, SendInv, UdpReceivedInv, FileLimitInv
<1>4. CASE MediaConfigure \/ ConfigureStep
  BY <1>4, MediaConfigureInv, AddWatchInv, StoreWatchIdInv, StartStreamingInv
  DEF ConfigureStep
<1>5. CASE UNCHANGED vars
  BY <1>5 DEF vars, IInv, TypeOK, ThreadsInStep, StoresOwnTimer, WatchTracked,
              TimerTracked, Streaming, Idle, InConfigure, Watching
<1> QED
  BY <1>1, <1>2, <1>3, <1>4, <1>5 DEF Next

\* The invariant behind the theorems below holds in every state.
THEOREM ThreadsInvariant == ClientTeardown => (Spec => []IInv)
<1> SUFFICES ASSUME ClientTeardown PROVE Spec => []IInv
  OBVIOUS
<1>1. Init => IInv
  BY InitInv
<1>2. IInv /\ [Next]_vars => IInv'
  BY NextInv
<1> QED
  BY <1>1, <1>2, PTL DEF Spec

\* A configured stream keeps a watch and a limit timer that PipelineData knows,
\* wherever the main loop is in a trigger or in file_limit.
THEOREM StreamsStayArmed == ClientTeardown => (Spec => []StreamStaysArmed)
<1> SUFFICES ASSUME ClientTeardown PROVE Spec => []StreamStaysArmed
  OBVIOUS
<1>1. IInv => StreamStaysArmed
  BY DEF IInv, StreamStaysArmed, TimerTracked, Streaming, WatchTracked,
         Watching, Idle
<1> QED
  BY <1>1, ThreadsInvariant, PTL

\* At most one watch listens to the control socket.
THEOREM NeverTwoWatches == ClientTeardown => (Spec => []OneWatch)
<1> SUFFICES ASSUME ClientTeardown PROVE Spec => []OneWatch
  OBVIOUS
<1>1. IInv => OneWatch
  <2> SUFFICES ASSUME IInv PROVE OneWatch
    OBVIOUS
  <2>1. CASE watches = {}
    BY <2>1, FS_EmptySet DEF OneWatch
  <2>2. CASE watches # {}
    <3>1. PICK id : watches = {id}
      BY <2>2 DEF IInv, WatchTracked
    <3>2. Cardinality({id}) = 1
      BY FS_Singleton
    <3> QED
      BY <3>1, <3>2 DEF OneWatch
  <2> QED
    BY <2>1, <2>2
<1> QED
  BY <1>1, ThreadsInvariant, PTL

\* Between two streams nothing listens to the control socket.
THEOREM SilentBetweenStreams == ClientTeardown => (Spec => []StoppedListening)
<1> SUFFICES ASSUME ClientTeardown PROVE Spec => []StoppedListening
  OBVIOUS
<1>1. IInv => StoppedListening
  BY DEF IInv, StoppedListening, WatchTracked, Watching, Idle
<1> QED
  BY <1>1, ThreadsInvariant, PTL
=============================================================================
