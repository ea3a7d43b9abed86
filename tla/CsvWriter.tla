------------------------------ MODULE CsvWriter ------------------------------
(***************************************************************************)
(* The csv of the frame metadata (pipeline.c): lines go through a queue to  *)
(* the sink of csv_pipeline.  To begin a new file a thread takes the sink   *)
(* out of the running pipeline and puts another one in, step by step, while *)
(* the queue's own thread pushes lines and while another thread may do the  *)
(* same; no lock is held.                                                  *)
(***************************************************************************)
EXTENDS Integers, Sequences, FiniteSets

CONSTANTS Threads,     \* threads that swap the sink
          Paths,       \* names of csv files; a name is the second it is made in
          NoPath,      \* the path that is NULL
          Freed,       \* a path whose memory was freed
          MaxSwaps     \* bound on the swaps

ASSUME CsvAssumption ==
  NoPath \notin Paths /\ Freed \notin Paths \cup {NoPath} /\ MaxSwaps \in Nat

VARIABLES files,          \* files[path]: how often opened, and its lines
          csv_filepath,   \* a path, NoPath or Freed
          csv_sink,       \* the sink PipelineData points to
          sinks,          \* the elements that exist: [path, playing]
          bin,            \* the sinks csv_pipeline contains
          linked,         \* the sink csv_queue is linked to, or NoSink
          queue,          \* frames whose line waits in csv_queue
          stalled,        \* the queue's thread has given up
          frames,         \* lines pushed so far
          swap,           \* swap[thread]: its step, path and sink
          swaps,          \* swaps begun, the names of the sinks
          overlapped,     \* a swap has begun while another one was going on
          crashed         \* freed memory was used: nothing is known any more

queueVars == <<queue, stalled, frames>>

csvVars == <<files, csv_filepath, csv_sink, sinks, bin, linked, queueVars,
             swap, swaps, overlapped, crashed>>

Header == 0        \* METADATA_CSV_HEADER; the lines are the frames' numbers
NoSink == -1
Idle   == [step |-> "idle", path |-> NoPath, sink |-> NoSink]

\* main: the pipeline plays with a fakesink in it.
CsvInit ==
  /\ files = [path \in Paths |-> [opened |-> 0, lines |-> <<>>]]
  /\ csv_filepath = NoPath
  /\ csv_sink = 0 /\ sinks = [s \in {0} |-> [path |-> NoPath, playing |-> TRUE]]
  /\ bin = {0} /\ linked = 0
  /\ queue = <<>> /\ stalled = FALSE /\ frames = 0
  /\ swap = [thread \in Threads |-> Idle] /\ swaps = 0
  /\ overlapped = FALSE /\ crashed = FALSE
-----------------------------------------------------------------------------
At(thread, step) == ~crashed /\ swap[thread].step = step

Step(thread, next) == swap' = [swap EXCEPT ![thread].step = next]

\* The program follows a pointer to memory that was freed.
Crash ==
  /\ ~crashed /\ crashed' = TRUE
  /\ UNCHANGED <<files, csv_filepath, csv_sink, sinks, bin, linked, queueVars, swap, swaps, overlapped>>

SinkIsGone == csv_sink \notin DOMAIN sinks

BeginSwap(thread, path, first) ==
  /\ At(thread, "idle") /\ swaps < MaxSwaps
  /\ swaps' = swaps + 1
  /\ swap' = [swap EXCEPT ![thread] = [step |-> first, path |-> path, sink |-> swaps + 1]]
  /\ overlapped' = (overlapped \/ \E other \in Threads : swap[other] # Idle)

\* new_csv: fopen empties the file.
NewCsv(thread, path) ==
  /\ BeginSwap(thread, path, "header")
  /\ files' = [files EXCEPT ![path] = [opened |-> @.opened + 1, lines |-> <<>>]]
  /\ UNCHANGED <<csv_filepath, csv_sink, sinks, bin, linked, queueVars, crashed>>

\* metadata_cleanup: a fakesink instead, and no path.
MetadataCleanup(thread) ==
  /\ BeginSwap(thread, NoPath, "null")
  /\ UNCHANGED <<files, csv_filepath, csv_sink, sinks, bin, linked, queueVars, crashed>>

\* fclose writes the header at the start of the file, over what is there.
HeaderOver(lines) ==
  IF lines = <<>> THEN <<Header>> ELSE [lines EXCEPT ![1] = Header]

WriteHeader(thread) ==
  /\ At(thread, "header") /\ Step(thread, "null")
  /\ files' = [files EXCEPT ![swap[thread].path].lines = HeaderOver(@)]
  /\ UNCHANGED <<csv_filepath, csv_sink, sinks, bin, linked, queueVars,
                 swaps, overlapped, crashed>>

StopSink(thread) ==
  /\ At(thread, "null")
  /\ \/ SinkIsGone /\ Crash
     \/ /\ ~SinkIsGone /\ Step(thread, "remove")
        /\ sinks' = [sinks EXCEPT ![csv_sink].playing = FALSE]
        /\ UNCHANGED <<files, csv_filepath, csv_sink, bin, linked, queueVars, swaps, overlapped, crashed>>

\* A faulty variant: the old sink stays.
NotRemoved(sink) == UNCHANGED <<bin, linked, sinks>>

\* gst_bin_remove unlinks the sink and drops the only reference to it.
BinRemove(sink) ==
  IF sink \in bin
  THEN /\ bin' = bin \ {sink}
       /\ linked' = IF linked = sink THEN NoSink ELSE linked
       /\ sinks' = [s \in DOMAIN sinks \ {sink} |-> sinks[s]]
  ELSE UNCHANGED <<bin, linked, sinks>>

RemoveSink(thread) ==
  /\ At(thread, "remove")
  /\ \/ SinkIsGone /\ Crash
     \/ /\ ~SinkIsGone /\ Step(thread, "free")
        /\ BinRemove(csv_sink)
        /\ UNCHANGED <<files, csv_filepath, csv_sink, queueVars, swaps, overlapped, crashed>>

FreePath(thread) ==
  /\ At(thread, "free")
  /\ \/ csv_filepath = Freed /\ Crash
     \/ /\ csv_filepath # Freed /\ Step(thread, "dup")
        /\ csv_filepath' = IF csv_filepath = NoPath THEN NoPath ELSE Freed
        /\ UNCHANGED <<files, csv_sink, sinks, bin, linked, queueVars,
                       swaps, overlapped, crashed>>

DupPath(thread) ==
  /\ At(thread, "dup") /\ Step(thread, "make")
  /\ csv_filepath' = swap[thread].path
  /\ UNCHANGED <<files, csv_sink, sinks, bin, linked, queueVars, swaps, overlapped, crashed>>

\* The location of a filesink is csv_filepath, whoever has set it.
MakeSink(thread) ==
  /\ At(thread, "make")
  /\ \/ swap[thread].path # NoPath /\ csv_filepath = Freed /\ Crash
     \/ /\ swap[thread].path = NoPath \/ csv_filepath # Freed
        /\ Step(thread, "link")
        /\ csv_sink' = swap[thread].sink
        /\ sinks' = [s \in DOMAIN sinks \cup {csv_sink'} |->
                       IF s # csv_sink' THEN sinks[s]
                       ELSE [path |-> IF swap[thread].path = NoPath THEN NoPath
                                      ELSE csv_filepath,
                             playing |-> FALSE]]
        /\ UNCHANGED <<files, csv_filepath, bin, linked, queueVars, swaps, overlapped, crashed>>

\* A bin takes one element of a name, and a queue is linked to one sink that is
\* in the same bin.
BinAddAndLink(thread) ==
  /\ At(thread, "link")
  /\ \/ SinkIsGone /\ Crash
     \/ /\ ~SinkIsGone /\ Step(thread, "play")
        /\ bin' = IF bin = {} THEN {csv_sink} ELSE bin
        /\ linked' = IF linked = NoSink /\ csv_sink \in bin' THEN csv_sink ELSE linked
        /\ UNCHANGED <<files, csv_filepath, csv_sink, sinks, queueVars,
                       swaps, overlapped, crashed>>

\* A faulty variant: the filesink does not append.
Overwrites(path) == [files EXCEPT ![path].lines = <<>>]

\* What a filesink that starts does to its file.
OpenedToAppend(path) == files

Play(thread) ==
  /\ At(thread, "play")
  /\ \/ SinkIsGone /\ Crash
     \/ /\ ~SinkIsGone /\ swap' = [swap EXCEPT ![thread] = Idle]
        /\ sinks' = [sinks EXCEPT ![csv_sink].playing = TRUE]
        /\ files' = IF sinks[csv_sink].path \in Paths
                    THEN OpenedToAppend(sinks[csv_sink].path) ELSE files
        /\ UNCHANGED <<csv_filepath, csv_sink, bin, linked, queueVars,
                       swaps, overlapped, crashed>>

InSwap(thread) ==
  \/ WriteHeader(thread) \/ StopSink(thread) \/ RemoveSink(thread) \/ FreePath(thread)
  \/ DupPath(thread) \/ MakeSink(thread) \/ BinAddAndLink(thread) \/ Play(thread)
-----------------------------------------------------------------------------
\* appsrc takes the line of a frame; behind a queue that gave up it is dropped.
PushBuffer ==
  /\ ~crashed
  /\ frames' = frames + 1
  /\ queue' = IF stalled THEN queue ELSE Append(queue, frames')
  /\ UNCHANGED <<files, csv_filepath, csv_sink, sinks, bin, linked, stalled,
                 swap, swaps, overlapped, crashed>>

\* The queue's thread pushes a line.  To a sink that does not play it ends the
\* thread (FLUSHING); without a sink (NOT_LINKED) it ends or waits for the link.
WriteLine ==
  /\ ~crashed /\ ~stalled /\ queue # <<>>
  /\ queue' = Tail(queue)
  /\ \/ /\ linked = NoSink
        /\ stalled' \in BOOLEAN /\ UNCHANGED files
     \/ /\ linked # NoSink /\ ~sinks[linked].playing
        /\ stalled' = TRUE /\ UNCHANGED files
     \/ /\ linked # NoSink /\ sinks[linked].playing
        /\ stalled' = FALSE
        /\ files' = IF sinks[linked].path = NoPath THEN files
                    ELSE [files EXCEPT ![sinks[linked].path].lines =
                            Append(@, Head(queue))]
  /\ UNCHANGED <<csv_filepath, csv_sink, sinks, bin, linked, frames, swap, swaps,
                 overlapped, crashed>>

\* The writer on its own, for what holds whoever exchanges the sink and when.
CsvNext ==
  \/ \E thread \in Threads :
       \/ \E path \in Paths : NewCsv(thread, path)
       \/ MetadataCleanup(thread) \/ InSwap(thread)
  \/ PushBuffer \/ WriteLine \/ Crash

CsvSpec == CsvInit /\ [][CsvNext]_csvVars
-----------------------------------------------------------------------------
\* A file whose name was used once begins with the header, and the lines of its
\* frames follow in their order, each frame in one file at most, whatever swaps
\* overlap.
CsvWellFormed ==
  ~crashed =>
    \A path \in Paths :
      LET lines == files[path].lines
      IN (files[path].opened = 1 /\ lines # <<>>) =>
           /\ lines[1] = Header
           /\ \A i, j \in 1 .. Len(lines) : i < j => lines[i] < lines[j]
           /\ \A other \in Paths \ {path} : \A i \in 2 .. Len(lines) :
                \A j \in DOMAIN files[other].lines : files[other].lines[j] # lines[i]

\* As long as no two swaps have overlapped: between swaps csv_pipeline holds one
\* sink, linked and playing, of the file PipelineData names, and a fakesink when
\* it names none.
SinkFollowsPath ==
  (~crashed /\ ~overlapped /\ \A thread \in Threads : swap[thread] = Idle) =>
    /\ bin = {csv_sink} /\ linked = csv_sink
    /\ DOMAIN sinks = bin
    /\ sinks[csv_sink] = [path |-> csv_filepath, playing |-> TRUE]
=============================================================================
