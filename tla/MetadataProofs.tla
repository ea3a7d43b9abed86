---------------------------- MODULE MetadataProofs ----------------------------
(***************************************************************************)
(* What the metadata is made of, proved for all callers, threads, paths and *)
(* bounds: the temperature of SensorInfo and the csv files of CsvWriter.    *)
(***************************************************************************)
EXTENDS Metadata, CJSONProofs, TLAPS

(* SensorInfo.  A struct keeps the state NONE only from the first test of    *)
(* has_temp to the decision.                                               *)

Steps == {"idle", "settings", "failed", "latch", "first", "again", "decide", "done"}

Infos == [name          : {report.name : report \in Reports} \cup {"NULL"},
          gain          : {report.gain : report \in Reports} \cup {0},
          exposure_time : {report.exposure_time : report \in Reports} \cup {0},
          temperature   : {report.temperature : report \in Reports} \cup {0},
          state         : States]

SensorTypeOK ==
  /\ camera \in Reports \cup {Unplugged}
  /\ has_temp \in {-1, 0, 1}
  /\ at \in [Callers -> Steps]
  /\ info \in [Callers -> Infos]

StateKnown ==
  \A caller \in Callers :
    at[caller] \in {"latch", "again", "done"} => info[caller].state # "NONE"

SensorInv == SensorTypeOK /\ StateKnown

LEMMA SettingsType == \A report \in Reports : Settings(report) \in Infos
  BY DEF Settings, Infos, States

LEMMA ReadingType ==
  ASSUME SensorInv, NEW caller \in Callers
  PROVE  /\ Reading(caller) \in Infos
         /\ info[caller].state # "NONE" => Reading(caller).state # "NONE"
<1>1. CASE camera = Unplugged \/ camera.state = "NONE"
  BY <1>1 DEF SensorInv, SensorTypeOK, Reading
<1>2. CASE ~(camera = Unplugged \/ camera.state = "NONE")
  <2>1. camera \in Reports
    BY <1>2 DEF SensorInv, SensorTypeOK
  <2>2. camera.state \in States /\ camera.state # "NONE"
    BY <1>2, <2>1, SensorInfoAssumption
  <2>3. camera.temperature \in {report.temperature : report \in Reports} \cup {0}
    BY <2>1
  <2>4. info[caller] \in Infos
    BY DEF SensorInv, SensorTypeOK
  <2>5. Reading(caller) = [info[caller] EXCEPT !.temperature = camera.temperature,
                                               !.state = camera.state]
    BY <1>2 DEF Reading
  <2> QED
    BY <2>2, <2>3, <2>4, <2>5 DEF Infos
<1> QED
  BY <1>1, <1>2

LEMMA SensorInvInit == SensorInit => SensorInv
  BY DEF SensorInit, SensorInv, SensorTypeOK, StateKnown, Steps, Infos, Cleared, States

LEMMA SensorInvNext == SensorInv /\ [SensorNext]_sensorVars => SensorInv'
<1> SUFFICES ASSUME SensorInv, [SensorNext]_sensorVars PROVE SensorInv'
  OBVIOUS
<1> USE DEF SensorInv, SensorTypeOK, StateKnown
<1>1. CASE CameraChanges
  BY <1>1 DEF CameraChanges
<1>2. ASSUME NEW caller \in Callers, GetInfo(caller) PROVE SensorInv'
  <2>1. Cleared \in Infos
    BY DEF Cleared, Infos, States
  <2> QED
    BY <1>2, <2>1 DEF GetInfo, Steps
<1>3. ASSUME NEW caller \in Callers, GetSettings(caller) PROVE SensorInv'
  <2>1. CASE camera = Unplugged
    BY <1>3, <2>1, SensorInfoAssumption DEF GetSettings, Steps
  <2>2. CASE camera \in Reports
    <3>1. Settings(camera) \in Infos /\ Settings(camera).state = "OK"
      BY <2>2, SettingsType DEF Settings
    <3> QED
      BY <1>3, <2>2, <3>1, SensorInfoAssumption DEF GetSettings, Steps
  <2> QED
    BY <2>1, <2>2
<1>4. ASSUME NEW caller \in Callers, TestLatch(caller) PROVE SensorInv'
  <2>1. /\ Branch[has_temp] \in {"first", "done", "again"}
        /\ has_temp = -1 <=> Branch[has_temp] = "first"
    BY DEF Branch
  <2>2. info'[caller].state \in States /\ (has_temp # -1 => info' = info)
    BY <1>4 DEF TestLatch, Infos, States
  <2>3. info' \in [Callers -> Infos]
    <3>1. info \in [Callers -> Infos]
      BY DEF SensorInv
    <3>2. has_temp = -1 => info' = [info EXCEPT ![caller].state = "NONE"]
      BY <1>4 DEF TestLatch
    <3>3. has_temp # -1 => info' = info
      BY <2>2
    <3> QED
      BY <3>1, <3>2, <3>3 DEF Infos, States
  <2>4. at' \in [Callers -> Steps]
    BY <1>4, <2>1 DEF TestLatch, Steps
  <2> QED
    BY <1>4, <2>1, <2>2, <2>3, <2>4 DEF TestLatch
<1>5. ASSUME NEW caller \in Callers, ReadTemperature(caller) PROVE SensorInv'
  BY <1>5, ReadingType DEF ReadTemperature, Steps
<1>6. ASSUME NEW caller \in Callers, SetLatch(caller) PROVE SensorInv'
  <2>1. Validated(info[caller]) \in Infos /\ Validated(info[caller]).state # "NONE"
    BY DEF Validated, NoTemperature, Infos, States
  <2> QED
    BY <1>6, <2>1 DEF SetLatch, Steps
<1>7. ASSUME NEW caller \in Callers, Release(caller) PROVE SensorInv'
  <2>1. Cleared \in Infos
    BY DEF Cleared, Infos, States
  <2> QED
    BY <1>7, <2>1 DEF Release, Steps
<1>8. CASE UNCHANGED sensorVars
  BY <1>8 DEF sensorVars
<1> QED
  BY <1>1, <1>2, <1>3, <1>4, <1>5, <1>6, <1>7, <1>8 DEF SensorNext, InCall

\* However many callers share has_temp, no caller is handed a struct whose
\* temperature state is NONE.
THEOREM NoStateIsNone == SensorSpec => []TemperatureValid
<1>1. SensorInv => TemperatureValid
  BY DEF SensorInv, StateKnown, TemperatureValid
<1> QED
  BY SensorInvInit, SensorInvNext, <1>1, PTL DEF SensorSpec

(* CsvWriter.  A swap touches the file only before any sink can write to it,  *)
(* so what the queue's thread appends comes behind the header.               *)

SwapSteps == {"idle", "header", "null", "remove", "free", "dup", "make", "link", "play"}

CsvTypeOK ==
  /\ files \in [Paths -> [opened : Nat, lines : Seq(Nat)]]
  /\ csv_filepath \in Paths \cup {NoPath, Freed}
  /\ sinks \in [DOMAIN sinks -> [path : Paths \cup {NoPath}, playing : BOOLEAN]]
  /\ bin \subseteq DOMAIN sinks
  /\ linked \in bin \cup {NoSink}
  /\ queue \in Seq(Nat) /\ frames \in Nat /\ swaps \in Nat
  /\ swap \in [Threads -> [step : SwapSteps, path : Paths \cup {NoPath}, sink : Int]]

\* A sink writes to the file, or some later step may make one that does.
Referenced(path) ==
  \/ \E s \in DOMAIN sinks : sinks[s].path = path
  \/ csv_filepath = path
  \/ \E t \in Threads : swap[t].path = path /\ swap[t].step # "header"

HeaderWritten ==
  \A path \in Paths : Referenced(path) =>
    files[path].opened >= 1 /\ (files[path].opened = 1 => files[path].lines # <<>>)

InHeader(t, path) == swap[t].step = "header" /\ swap[t].path = path

HeaderDue ==
  \A t \in Threads : swap[t].step = "header" =>
    /\ swap[t].path \in Paths
    /\ files[swap[t].path].opened >= 1
    /\ files[swap[t].path].opened = 1 =>
         /\ files[swap[t].path].lines = <<>>
         /\ \A other \in Threads \ {t} : ~InHeader(other, swap[t].path)

QueueOrder ==
  /\ \A i \in 1 .. Len(queue) : 1 <= queue[i] /\ queue[i] <= frames
  /\ \A i, j \in 1 .. Len(queue) : i < j => queue[i] < queue[j]

LinesBehind ==
  \A path \in Paths : \A i \in 1 .. Len(files[path].lines) :
    /\ files[path].lines[i] <= frames
    /\ \A j \in 1 .. Len(queue) : files[path].lines[i] < queue[j]

Ordered(lines) ==
  lines # <<>> => /\ lines[1] = Header
                  /\ \A i, j \in 1 .. Len(lines) : i < j => lines[i] < lines[j]

LinesOrder == \A path \in Paths : files[path].opened = 1 => Ordered(files[path].lines)

OneFile ==
  \A path, other \in Paths : path # other =>
    \A i \in 1 .. Len(files[path].lines), j \in 1 .. Len(files[other].lines) :
      files[path].lines[i] = files[other].lines[j] => files[path].lines[i] = Header

CsvInv ==
  /\ CsvTypeOK /\ HeaderWritten /\ HeaderDue
  /\ QueueOrder /\ LinesBehind /\ LinesOrder /\ OneFile

LEMMA CsvInvInit == CsvInit => CsvInv
<1> SUFFICES ASSUME CsvInit PROVE CsvInv
  OBVIOUS
<1>1. CsvTypeOK
  <2>1. files \in [Paths -> [opened : Nat, lines : Seq(Nat)]]
    BY DEF CsvInit
  <2>2. sinks \in [DOMAIN sinks -> [path : Paths \cup {NoPath}, playing : BOOLEAN]]
    BY DEF CsvInit
  <2>3. swap \in [Threads -> [step : SwapSteps, path : Paths \cup {NoPath}, sink : Int]]
    BY DEF CsvInit, Idle, SwapSteps, NoSink
  <2> QED
    BY <2>1, <2>2, <2>3 DEF CsvInit, CsvTypeOK
<1>2. HeaderWritten
  BY CsvAssumption DEF CsvInit, HeaderWritten, Referenced, Idle
<1>3. HeaderDue
  BY DEF CsvInit, HeaderDue, Idle
<1>4. QueueOrder /\ LinesBehind /\ LinesOrder /\ OneFile
  BY DEF CsvInit, QueueOrder, LinesBehind, LinesOrder, OneFile
<1> QED
  BY <1>1, <1>2, <1>3, <1>4 DEF CsvInv

\* Where the threads stand and what the sinks are, without the files.
SwapTypeOK ==
  /\ csv_filepath \in Paths \cup {NoPath, Freed}
  /\ sinks \in [DOMAIN sinks -> [path : Paths \cup {NoPath}, playing : BOOLEAN]]
  /\ bin \subseteq DOMAIN sinks
  /\ linked \in bin \cup {NoSink}
  /\ swaps \in Nat
  /\ swap \in [Threads -> [step : SwapSteps, path : Paths \cup {NoPath}, sink : Int]]

\* A step that leaves the files and the queue alone, gives no file a new
\* reference and begins no header keeps the invariant.
LEMMA Quiet ==
  ASSUME CsvInv, UNCHANGED <<files, queue, frames>>, SwapTypeOK',
         \A path \in Paths : Referenced(path)' => Referenced(path),
         \A t \in Threads : swap'[t].step = "header" => swap'[t] = swap[t]
  PROVE  CsvInv'
<1>1. CsvTypeOK'
  BY DEF CsvInv, CsvTypeOK, SwapTypeOK
<1>2. HeaderWritten'
  BY DEF CsvInv, HeaderWritten
<1>3. HeaderDue'
  BY DEF CsvInv, HeaderDue, InHeader
<1>4. (QueueOrder /\ LinesBehind /\ LinesOrder /\ OneFile)'
  BY DEF CsvInv, QueueOrder, LinesBehind, LinesOrder, OneFile
<1> QED
  BY <1>1, <1>2, <1>3, <1>4 DEF CsvInv

\* What a step of a swap does to the swaps: none begins its header, and none that
\* has written it gets another file.
SwapStepped ==
  /\ swap' \in [Threads -> [step : SwapSteps, path : Paths \cup {NoPath}, sink : Int]]
  /\ \A u \in Threads : swap'[u].step = "header" => swap'[u] = swap[u]
  /\ \A u \in Threads : swap'[u].path \in Paths /\ swap'[u].step # "header" =>
       swap'[u].path = swap[u].path /\ swap[u].step # "header"

LEMMA StepType ==
  ASSUME CsvInv, NEW t \in Threads, NEW next \in SwapSteps \ {"header"}, Step(t, next),
         swap[t].step # "header"
  PROVE  SwapStepped
<1>1. swap \in [Threads -> [step : SwapSteps, path : Paths \cup {NoPath}, sink : Int]]
  BY DEF CsvInv, CsvTypeOK
<1>2. /\ \A u \in Threads \ {t} : swap'[u] = swap[u]
      /\ swap'[t] = [swap[t] EXCEPT !.step = next]
  BY <1>1 DEF Step
<1>3. swap'[t].step = next /\ swap'[t].path = swap[t].path
  BY <1>1, <1>2
<1>4. swap' \in [Threads -> [step : SwapSteps, path : Paths \cup {NoPath}, sink : Int]]
  BY <1>1 DEF Step
<1> QED
  BY <1>2, <1>3, <1>4 DEF SwapStepped

\* Such a step gives no file a new reference when the path of no sink is new.
LEMMA StepReferences ==
  ASSUME SwapStepped,
         \A s \in DOMAIN sinks' : sinks'[s].path \in Paths =>
           (s \in DOMAIN sinks /\ sinks[s].path = sinks'[s].path) \/ csv_filepath = sinks'[s].path,
         csv_filepath' \in Paths => Referenced(csv_filepath')
  PROVE  \A path \in Paths : Referenced(path)' => Referenced(path)
<1> SUFFICES ASSUME NEW path \in Paths, Referenced(path)' PROVE Referenced(path)
  OBVIOUS
<1>1. CASE \E s \in DOMAIN sinks' : sinks'[s].path = path
  BY <1>1 DEF Referenced
<1>2. CASE csv_filepath' = path
  BY <1>2
<1>3. CASE \E u \in Threads : swap'[u].path = path /\ swap'[u].step # "header"
  BY <1>3 DEF Referenced, SwapStepped
<1> QED
  BY <1>1, <1>2, <1>3 DEF Referenced

\* A sink is stopped, or plays.
LEMMA SinkSet ==
  ASSUME CsvInv, csv_sink \in DOMAIN sinks, NEW playing \in BOOLEAN,
         sinks' = [sinks EXCEPT ![csv_sink].playing = playing]
  PROVE  /\ DOMAIN sinks' = DOMAIN sinks
         /\ sinks' \in [DOMAIN sinks' -> [path : Paths \cup {NoPath}, playing : BOOLEAN]]
         /\ \A s \in DOMAIN sinks : sinks'[s].path = sinks[s].path
<1>1. sinks \in [DOMAIN sinks -> [path : Paths \cup {NoPath}, playing : BOOLEAN]]
  BY DEF CsvInv, CsvTypeOK
<1>2. DOMAIN sinks' = DOMAIN sinks
  BY <1>1
<1>3. sinks' \in [DOMAIN sinks' -> [path : Paths \cup {NoPath}, playing : BOOLEAN]]
  BY <1>1, <1>2
<1>4. ASSUME NEW s \in DOMAIN sinks PROVE sinks'[s].path = sinks[s].path
  <2>1. CASE s = csv_sink
    <3>1. sinks'[s] = [sinks[s] EXCEPT !.playing = playing]
      BY <1>1, <2>1
    <3> QED
      BY <1>1, <1>4, <3>1
  <2>2. CASE s # csv_sink
    BY <1>1, <1>4, <2>2
  <2> QED
    BY <2>1, <2>2
<1> QED
  BY <1>2, <1>3, <1>4

\* The steps of a swap that leave the files alone.
LEMMA QuietSteps ==
  ASSUME CsvInv, NEW t \in Threads,
         \/ MetadataCleanup(t) \/ StopSink(t) \/ RemoveSink(t) \/ FreePath(t)
         \/ DupPath(t) \/ MakeSink(t) \/ BinAddAndLink(t) \/ Play(t) \/ Crash
  PROVE  CsvInv'
<1> USE DEF CsvInv, CsvTypeOK
<1>1. CASE MetadataCleanup(t)
  <2>1. swap' = [swap EXCEPT ![t] = [step |-> "null", path |-> NoPath, sink |-> swaps + 1]]
    BY <1>1 DEF MetadataCleanup, BeginSwap
  <2>2. swap' \in [Threads -> [step : SwapSteps, path : Paths \cup {NoPath}, sink : Int]]
    BY <2>1 DEF SwapSteps
  <2>3. SwapTypeOK'
    BY <1>1, <2>2 DEF MetadataCleanup, BeginSwap, SwapTypeOK
  <2>4. \A path \in Paths : Referenced(path)' => Referenced(path)
    BY <1>1, <2>1, CsvAssumption DEF MetadataCleanup, Referenced
  <2> QED
    BY <1>1, <2>1, <2>3, <2>4, Quiet DEF MetadataCleanup, queueVars
<1>2. CASE Crash
  BY <1>2, Quiet DEF Crash, SwapTypeOK, Referenced, queueVars
<1>3. CASE StopSink(t) /\ ~Crash
  <2>1. Step(t, "remove") /\ swap[t].step = "null" /\ csv_sink \in DOMAIN sinks
    BY <1>3 DEF StopSink, At, SinkIsGone
  <2>2. SwapStepped
    BY <2>1, StepType DEF SwapSteps
  <2>3. sinks' = [sinks EXCEPT ![csv_sink].playing = FALSE]
    BY <1>3 DEF StopSink
  <2>4. /\ DOMAIN sinks' = DOMAIN sinks
        /\ sinks' \in [DOMAIN sinks' -> [path : Paths \cup {NoPath}, playing : BOOLEAN]]
        /\ \A s \in DOMAIN sinks : sinks'[s].path = sinks[s].path
    BY <2>1, <2>3, SinkSet
  <2>5. UNCHANGED <<files, csv_filepath, bin, linked, queue, frames, swaps>>
    BY <1>3 DEF StopSink, queueVars
  <2>6. SwapTypeOK'
    BY <2>2, <2>4, <2>5 DEF SwapTypeOK, SwapStepped
  <2>7. csv_filepath' \in Paths => Referenced(csv_filepath')
    BY <2>5 DEF Referenced
  <2>8. \A path \in Paths : Referenced(path)' => Referenced(path)
    BY <2>2, <2>4, <2>7, StepReferences
  <2> QED
    BY <2>2, <2>5, <2>6, <2>8, Quiet DEF SwapStepped
<1>4. CASE RemoveSink(t) /\ ~Crash
  <2>1. Step(t, "free") /\ swap[t].step = "remove" /\ BinRemove(csv_sink)
    BY <1>4 DEF RemoveSink, At
  <2>2. SwapStepped
    BY <2>1, StepType DEF SwapSteps
  <2>3. /\ DOMAIN sinks' \subseteq DOMAIN sinks
        /\ \A s \in DOMAIN sinks' : sinks'[s] = sinks[s]
        /\ sinks' \in [DOMAIN sinks' -> [path : Paths \cup {NoPath}, playing : BOOLEAN]]
        /\ bin' \subseteq DOMAIN sinks'
        /\ linked' \in bin' \cup {NoSink}
    <3>1. CASE csv_sink \in bin
      <4>1. /\ bin' = bin \ {csv_sink}
            /\ linked' = IF linked = csv_sink THEN NoSink ELSE linked
            /\ sinks' = [s \in DOMAIN sinks \ {csv_sink} |-> sinks[s]]
        BY <2>1, <3>1 DEF BinRemove
      <4> QED
        BY <4>1
    <3>2. CASE csv_sink \notin bin
      BY <2>1, <3>2 DEF BinRemove
    <3> QED
      BY <3>1, <3>2
  <2>4. UNCHANGED <<files, csv_filepath, queue, frames, swaps>>
    BY <1>4 DEF RemoveSink, queueVars
  <2>5. SwapTypeOK'
    BY <2>2, <2>3, <2>4 DEF SwapTypeOK, SwapStepped
  <2>6. csv_filepath' \in Paths => Referenced(csv_filepath')
    BY <2>4 DEF Referenced
  <2>7. \A path \in Paths : Referenced(path)' => Referenced(path)
    BY <2>2, <2>3, <2>6, StepReferences
  <2> QED
    BY <2>2, <2>4, <2>5, <2>7, Quiet DEF SwapStepped
<1>5. CASE FreePath(t) /\ ~Crash
  <2>1. Step(t, "dup") /\ swap[t].step = "free"
    BY <1>5 DEF FreePath, At
  <2>2. SwapStepped
    BY <2>1, StepType DEF SwapSteps
  <2>3. UNCHANGED <<files, sinks, bin, linked, queue, frames, swaps>>
    BY <1>5 DEF FreePath, queueVars
  <2>4. csv_filepath' \in {NoPath, Freed}
    BY <1>5 DEF FreePath
  <2>5. SwapTypeOK'
    BY <2>2, <2>3, <2>4 DEF SwapTypeOK, SwapStepped
  <2>6. \A path \in Paths : Referenced(path)' => Referenced(path)
    BY <2>2, <2>3, <2>4, CsvAssumption, StepReferences
  <2> QED
    BY <2>2, <2>3, <2>5, <2>6, Quiet DEF SwapStepped
<1>6. CASE DupPath(t)
  <2>1. Step(t, "make") /\ swap[t].step = "dup" /\ csv_filepath' = swap[t].path
    BY <1>6 DEF DupPath, At
  <2>2. SwapStepped
    BY <2>1, StepType DEF SwapSteps
  <2>3. UNCHANGED <<files, sinks, bin, linked, queue, frames, swaps>>
    BY <1>6 DEF DupPath, queueVars
  <2>4. swap[t].path \in Paths \cup {NoPath}
    OBVIOUS
  <2>5. SwapTypeOK'
    BY <2>1, <2>2, <2>3, <2>4 DEF SwapTypeOK, SwapStepped
  <2>6. csv_filepath' \in Paths => Referenced(csv_filepath')
    BY <2>1 DEF Referenced
  <2>7. \A path \in Paths : Referenced(path)' => Referenced(path)
    BY <2>2, <2>3, <2>6, StepReferences
  <2> QED
    BY <2>2, <2>3, <2>5, <2>7, Quiet DEF SwapStepped
<1>7. CASE MakeSink(t) /\ ~Crash
  <2>1. /\ Step(t, "link") /\ swap[t].step = "make" /\ csv_sink' = swap[t].sink
        /\ swap[t].path = NoPath \/ csv_filepath # Freed
    BY <1>7 DEF MakeSink, At
  <2>2. SwapStepped
    BY <2>1, StepType DEF SwapSteps
  <2> DEFINE location == IF swap[t].path = NoPath THEN NoPath ELSE csv_filepath
  <2>3. sinks' = [s \in DOMAIN sinks \cup {csv_sink'} |->
                    IF s # csv_sink' THEN sinks[s]
                    ELSE [path |-> location, playing |-> FALSE]]
    BY <1>7 DEF MakeSink
  <2>4. location \in Paths \cup {NoPath} /\ (location \in Paths => csv_filepath = location)
    BY <2>1, CsvAssumption
  <2>5. UNCHANGED <<files, csv_filepath, bin, linked, queue, frames, swaps>>
    BY <1>7 DEF MakeSink, queueVars
  <2> HIDE DEF location
  <2>6. ASSUME NEW s \in DOMAIN sinks'
        PROVE  /\ sinks'[s] \in [path : Paths \cup {NoPath}, playing : BOOLEAN]
               /\ sinks'[s].path = location \/ (s \in DOMAIN sinks /\ sinks'[s] = sinks[s])
    <3>1. CASE s = csv_sink'
      BY <2>3, <2>4, <3>1
    <3>2. CASE s # csv_sink'
      <4>1. s \in DOMAIN sinks /\ sinks'[s] = sinks[s]
        BY <2>3, <2>6, <3>2
      <4> QED
        BY <4>1
    <3> QED
      BY <3>1, <3>2
  <2>7. /\ DOMAIN sinks' = DOMAIN sinks \cup {csv_sink'}
        /\ sinks' = [s \in DOMAIN sinks' |-> sinks'[s]]
    BY <2>3
  <2>8. sinks' \in [DOMAIN sinks' -> [path : Paths \cup {NoPath}, playing : BOOLEAN]]
    BY <2>6, <2>7
  <2>9. SwapTypeOK'
    BY <2>2, <2>5, <2>7, <2>8 DEF SwapTypeOK, SwapStepped
  <2>10. csv_filepath' \in Paths => Referenced(csv_filepath')
    BY <2>5 DEF Referenced
  <2>11. \A s \in DOMAIN sinks' : sinks'[s].path \in Paths =>
           (s \in DOMAIN sinks /\ sinks[s].path = sinks'[s].path) \/ csv_filepath = sinks'[s].path
    BY <2>4, <2>6
  <2>12. \A path \in Paths : Referenced(path)' => Referenced(path)
    BY <2>2, <2>10, <2>11, StepReferences
  <2> QED
    BY <2>2, <2>5, <2>9, <2>12, Quiet DEF SwapStepped
<1>8. CASE BinAddAndLink(t) /\ ~Crash
  <2>1. /\ Step(t, "play") /\ swap[t].step = "link" /\ csv_sink \in DOMAIN sinks
        /\ bin' = IF bin = {} THEN {csv_sink} ELSE bin
        /\ linked' = IF linked = NoSink /\ csv_sink \in bin' THEN csv_sink ELSE linked
    BY <1>8 DEF BinAddAndLink, At, SinkIsGone
  <2>2. SwapStepped
    BY <2>1, StepType DEF SwapSteps
  <2>3. bin' \subseteq DOMAIN sinks /\ linked' \in bin' \cup {NoSink}
    BY <2>1
  <2>4. UNCHANGED <<files, csv_filepath, sinks, queue, frames, swaps>>
    BY <1>8 DEF BinAddAndLink, queueVars
  <2>5. SwapTypeOK'
    BY <2>2, <2>3, <2>4 DEF SwapTypeOK, SwapStepped
  <2>6. csv_filepath' \in Paths => Referenced(csv_filepath')
    BY <2>4 DEF Referenced
  <2>7. \A path \in Paths : Referenced(path)' => Referenced(path)
    BY <2>2, <2>4, <2>6, StepReferences
  <2> QED
    BY <2>2, <2>4, <2>5, <2>7, Quiet DEF SwapStepped
<1>9. CASE Play(t) /\ ~Crash
  <2>1. /\ swap' = [swap EXCEPT ![t] = Idle] /\ csv_sink \in DOMAIN sinks
        /\ sinks' = [sinks EXCEPT ![csv_sink].playing = TRUE]
        /\ files' = files
    BY <1>9 DEF Play, SinkIsGone, OpenedToAppend
  <2>2. /\ DOMAIN sinks' = DOMAIN sinks
        /\ sinks' \in [DOMAIN sinks' -> [path : Paths \cup {NoPath}, playing : BOOLEAN]]
        /\ \A s \in DOMAIN sinks : sinks'[s].path = sinks[s].path
    BY <2>1, SinkSet
  <2>3. UNCHANGED <<csv_filepath, bin, linked, queue, frames, swaps>>
    BY <1>9 DEF Play, queueVars
  <2>4. SwapStepped
    <3>1. swap' \in [Threads -> [step : SwapSteps, path : Paths \cup {NoPath}, sink : Int]]
      BY <2>1 DEF Idle, SwapSteps, NoSink
    <3>2. /\ \A u \in Threads \ {t} : swap'[u] = swap[u]
          /\ swap'[t].path = NoPath /\ swap'[t].step = "idle"
      BY <2>1 DEF Idle
    <3> QED
      BY <3>1, <3>2, CsvAssumption DEF SwapStepped
  <2>5. SwapTypeOK'
    BY <2>2, <2>3, <2>4 DEF SwapTypeOK, SwapStepped
  <2>6. csv_filepath' \in Paths => Referenced(csv_filepath')
    BY <2>3 DEF Referenced
  <2>7. \A path \in Paths : Referenced(path)' => Referenced(path)
    BY <2>2, <2>4, <2>6, StepReferences
  <2> QED
    BY <2>1, <2>3, <2>4, <2>5, <2>7, Quiet DEF SwapStepped
<1> QED
  BY <1>1, <1>2, <1>3, <1>4, <1>5, <1>6, <1>7, <1>8, <1>9

LEMMA NewCsvInv ==
  ASSUME CsvInv, NEW t \in Threads, NEW path \in Paths, NewCsv(t, path)
  PROVE  CsvInv'
<1>1. /\ swap' = [swap EXCEPT ![t] = [step |-> "header", path |-> path, sink |-> swaps + 1]]
      /\ swaps' = swaps + 1
      /\ UNCHANGED <<csv_filepath, sinks, bin, linked, queue, frames>>
  BY DEF NewCsv, BeginSwap, queueVars
<1>2. files \in [Paths -> [opened : Nat, lines : Seq(Nat)]]
  BY DEF CsvInv, CsvTypeOK
<1>3. /\ files' \in [Paths -> [opened : Nat, lines : Seq(Nat)]]
      /\ files'[path].opened = files[path].opened + 1 /\ files'[path].lines = <<>>
      /\ \A other \in Paths \ {path} : files'[other] = files[other]
  <2>1. files' = [files EXCEPT ![path] = [opened |-> files[path].opened + 1, lines |-> <<>>]]
    BY DEF NewCsv
  <2>2. files[path].opened + 1 \in Nat /\ <<>> \in Seq(Nat)
    BY <1>2
  <2> QED
    BY <1>2, <2>1, <2>2
<1>4. swap' \in [Threads -> [step : SwapSteps, path : Paths \cup {NoPath}, sink : Int]]
  <2>1. swaps + 1 \in Int /\ "header" \in SwapSteps
    BY DEF CsvInv, CsvTypeOK, SwapSteps
  <2>2. [step |-> "header", path |-> path, sink |-> swaps + 1]
          \in [step : SwapSteps, path : Paths \cup {NoPath}, sink : Int]
    BY <2>1
  <2>3. swap \in [Threads -> [step : SwapSteps, path : Paths \cup {NoPath}, sink : Int]]
    BY DEF CsvInv, CsvTypeOK
  <2> QED
    BY <1>1, <2>2, <2>3
<1>5. CsvTypeOK'
  <2>1. swaps' \in Nat
    BY <1>1 DEF CsvInv, CsvTypeOK
  <2> QED
    BY <1>1, <1>3, <1>4, <2>1 DEF CsvInv, CsvTypeOK
<1>6. \A p \in Paths : Referenced(p)' => Referenced(p)
  <2>1. \A p \in Paths, u \in Threads :
          swap'[u].path = p /\ swap'[u].step # "header"
            => swap[u].path = p /\ swap[u].step # "header"
    BY <1>1 DEF CsvInv, CsvTypeOK
  <2> QED
    BY <1>1, <2>1 DEF Referenced
<1>7. HeaderWritten'
  <2>1. ASSUME NEW p \in Paths, Referenced(p)'
        PROVE  files'[p].opened >= 1 /\ (files'[p].opened = 1 => files'[p].lines # <<>>)
    <3>1. files[p].opened >= 1 /\ (files[p].opened = 1 => files[p].lines # <<>>)
      BY <1>6, <2>1 DEF CsvInv, HeaderWritten
    <3>2. CASE p = path
      <4>1. files[p].opened \in Nat
        BY <1>2
      <4> QED
        BY <1>3, <3>1, <3>2, <4>1
    <3>3. CASE p # path
      BY <1>3, <3>1, <3>3
    <3> QED
      BY <3>2, <3>3
  <2> QED
    BY <2>1 DEF HeaderWritten
<1>8. HeaderDue'
  <2>1. ASSUME NEW u \in Threads, swap'[u].step = "header"
        PROVE  /\ swap'[u].path \in Paths
               /\ files'[swap'[u].path].opened >= 1
               /\ files'[swap'[u].path].opened = 1 =>
                    /\ files'[swap'[u].path].lines = <<>>
                    /\ \A other \in Threads \ {u} :
                         ~(swap'[other].step = "header" /\ swap'[other].path = swap'[u].path)
    <3>1. \A v \in Threads \ {t} : swap'[v] = swap[v]
      BY <1>1 DEF CsvInv, CsvTypeOK
    <3>2. swap'[t].path = path
      BY <1>1 DEF CsvInv, CsvTypeOK
    <3>3. \A v \in Threads \ {t} : swap[v].step = "header" => files[swap[v].path].opened >= 1
      BY DEF CsvInv, HeaderDue
    <3>4. files[path].opened \in Nat
      BY <1>2
    <3>5. CASE u = t
      <4>1. ASSUME files[path].opened = 0, NEW v \in Threads \ {t}, swap[v].step = "header"
            PROVE  swap[v].path # path
        BY <3>3, <4>1
      <4>2. files[path].opened + 1 >= 1 /\ (files[path].opened + 1 = 1 => files[path].opened = 0)
        BY <3>4
      <4> QED
        BY <1>3, <3>1, <3>2, <3>5, <4>1, <4>2 DEF InHeader
    <3>6. CASE u # t
      <4>1. swap'[u] = swap[u] /\ swap[u].path \in Paths /\ files[swap[u].path].opened >= 1
        BY <2>1, <3>1, <3>6 DEF CsvInv, HeaderDue
      <4>2. CASE swap[u].path = path
        <5>1. files[path].opened + 1 >= 1 /\ files[path].opened + 1 # 1
          BY <3>4, <4>1, <4>2
        <5> QED
          BY <1>3, <4>1, <4>2, <5>1
      <4>3. CASE swap[u].path # path
        <5>1. swap'[t].path # swap[u].path
          BY <3>2, <4>3
        <5>2. \A other \in Threads \ {u, t} : swap'[other] = swap[other]
          BY <3>1
        <5>3. files[swap[u].path].opened = 1 =>
                /\ files[swap[u].path].lines = <<>>
                /\ \A other \in Threads \ {u} : ~InHeader(other, swap[u].path)
          BY <2>1, <4>1 DEF CsvInv, HeaderDue
        <5> QED
          BY <1>3, <4>1, <4>3, <5>1, <5>2, <5>3 DEF InHeader
      <4> QED
        BY <4>2, <4>3
    <3> QED
      BY <3>5, <3>6
  <2> QED
    BY <2>1 DEF HeaderDue, InHeader
<1>9. \A p \in Paths : files'[p].lines = files[p].lines \/ files'[p].lines = <<>>
  BY <1>3
<1>10. QueueOrder'
  <2>1. queue' = queue /\ frames' = frames /\ QueueOrder
    BY <1>1 DEF CsvInv
  <2> QED
    BY <2>1 DEF QueueOrder
<1>11. LinesBehind'
  BY <1>1, <1>9 DEF CsvInv, LinesBehind
<1>12. OneFile'
  <2>1. ASSUME NEW p \in Paths, NEW o \in Paths, p # o,
               NEW i \in 1 .. Len(files'[p].lines), NEW j \in 1 .. Len(files'[o].lines),
               files'[p].lines[i] = files'[o].lines[j]
        PROVE  files'[p].lines[i] = Header
    <3>1. files'[p].lines = files[p].lines /\ files'[o].lines = files[o].lines
      BY <1>9, <2>1
    <3>2. OneFile
      BY DEF CsvInv
    <3> QED
      BY <2>1, <3>1, <3>2 DEF OneFile
  <2> QED
    BY <2>1 DEF OneFile
<1>13. LinesOrder'
  BY <1>3 DEF CsvInv, LinesOrder, Ordered
<1> QED
  BY <1>5, <1>7, <1>8, <1>10, <1>11, <1>12, <1>13 DEF CsvInv

LEMMA HeaderOverFacts ==
  ASSUME NEW lines \in Seq(Nat)
  PROVE  /\ HeaderOver(lines) \in Seq(Nat) /\ HeaderOver(lines) # <<>>
         /\ lines = <<>> => HeaderOver(lines) = <<Header>>
         /\ \A i \in 1 .. Len(HeaderOver(lines)) :
              HeaderOver(lines)[i] = Header
              \/ (i \in 1 .. Len(lines) /\ HeaderOver(lines)[i] = lines[i])
<1>1. CASE lines = <<>>
  BY <1>1 DEF HeaderOver, Header
<1>2. CASE lines # <<>>
  <2>1. HeaderOver(lines) = [lines EXCEPT ![1] = 0]
    BY <1>2 DEF HeaderOver, Header
  <2>2. [lines EXCEPT ![1] = 0] \in Seq(Nat) /\ Len([lines EXCEPT ![1] = 0]) = Len(lines)
    BY <1>2
  <2>3. Len(lines) >= 1
    BY <1>2
  <2>4. [lines EXCEPT ![1] = 0] # <<>>
    BY <2>2, <2>3
  <2>5. \A i \in 1 .. Len(lines) :
          [lines EXCEPT ![1] = 0][i] = 0 \/ [lines EXCEPT ![1] = 0][i] = lines[i]
    OBVIOUS
  <2> QED
    BY <1>2, <2>1, <2>2, <2>4, <2>5 DEF Header
<1> QED
  BY <1>1, <1>2

LEMMA WriteHeaderInv ==
  ASSUME CsvInv, NEW t \in Threads, WriteHeader(t)
  PROVE  CsvInv'
<1> DEFINE path == swap[t].path
<1>1. /\ Step(t, "null") /\ swap[t].step = "header" /\ path \in Paths
      /\ UNCHANGED <<csv_filepath, sinks, bin, linked, queue, frames, swaps>>
  BY DEF WriteHeader, At, queueVars, CsvInv, HeaderDue
<1>2. files \in [Paths -> [opened : Nat, lines : Seq(Nat)]]
  BY DEF CsvInv, CsvTypeOK
<1> DEFINE written == HeaderOver(files[path].lines)
<1>3. /\ files' \in [Paths -> [opened : Nat, lines : Seq(Nat)]]
      /\ files'[path].opened = files[path].opened /\ files'[path].lines = written
      /\ \A p \in Paths \ {path} : files'[p] = files[p]
  <2>1. files' = [files EXCEPT ![path] = [files[path] EXCEPT !.lines = written]]
    BY DEF WriteHeader
  <2>2. written \in Seq(Nat)
    BY <1>1, <1>2, HeaderOverFacts
  <2>3. [files[path] EXCEPT !.lines = written]
          = [opened |-> files[path].opened, lines |-> written]
    BY <1>1, <1>2
  <2> QED
    BY <1>1, <1>2, <2>1, <2>2, <2>3
<1>4. /\ files[path].opened >= 1
      /\ files[path].opened = 1 =>
           /\ files[path].lines = <<>>
           /\ \A other \in Threads \ {t} : ~InHeader(other, path)
  BY <1>1 DEF CsvInv, HeaderDue
<1>5. /\ written \in Seq(Nat) /\ written # <<>>
      /\ files[path].lines = <<>> => written = <<Header>>
      /\ \A i \in 1 .. Len(written) :
           written[i] = Header
           \/ (i \in 1 .. Len(files[path].lines) /\ written[i] = files[path].lines[i])
  BY <1>1, <1>2, HeaderOverFacts
<1> HIDE DEF written
<1>6. /\ \A u \in Threads : swap'[u].path = swap[u].path
      /\ \A u \in Threads \ {t} : swap'[u] = swap[u]
      /\ swap'[t].step = "null"
      /\ swap' \in [Threads -> [step : SwapSteps, path : Paths \cup {NoPath}, sink : Int]]
  <2>1. /\ swap \in [Threads -> [step : SwapSteps, path : Paths \cup {NoPath}, sink : Int]]
        /\ swap' = [swap EXCEPT ![t].step = "null"]
    BY <1>1 DEF Step, CsvInv, CsvTypeOK
  <2>2. /\ \A u \in Threads \ {t} : swap'[u] = swap[u]
        /\ swap'[t] = [swap[t] EXCEPT !.step = "null"]
    BY <2>1
  <2>3. swap'[t].step = "null" /\ swap'[t].path = swap[t].path
    BY <2>1, <2>2
  <2>4. swap' \in [Threads -> [step : SwapSteps, path : Paths \cup {NoPath}, sink : Int]]
    BY <2>1 DEF SwapSteps
  <2> QED
    BY <2>2, <2>3, <2>4
<1>7. CsvTypeOK'
  BY <1>1, <1>3, <1>6 DEF CsvInv, CsvTypeOK
<1>8. \A p \in Paths : Referenced(p)' => (Referenced(p) \/ p = path)
  BY <1>1, <1>6 DEF Referenced
<1>9. HeaderWritten'
  <2>1. ASSUME NEW p \in Paths, Referenced(p)'
        PROVE  files'[p].opened >= 1 /\ (files'[p].opened = 1 => files'[p].lines # <<>>)
    <3>1. CASE p = path
      BY <1>3, <1>4, <1>5, <3>1
    <3>2. CASE p # path
      BY <1>3, <1>8, <2>1, <3>2 DEF CsvInv, HeaderWritten
    <3> QED
      BY <3>1, <3>2
  <2> QED
    BY <2>1 DEF HeaderWritten
<1>10. HeaderDue'
  <2>1. ASSUME NEW u \in Threads, swap'[u].step = "header"
        PROVE  /\ swap'[u].path \in Paths
               /\ files'[swap'[u].path].opened >= 1
               /\ files'[swap'[u].path].opened = 1 =>
                    /\ files'[swap'[u].path].lines = <<>>
                    /\ \A other \in Threads \ {u} :
                         ~(swap'[other].step = "header" /\ swap'[other].path = swap'[u].path)
    <3>1. u # t /\ swap'[u] = swap[u]
      BY <1>6, <2>1
    <3>2. /\ swap[u].path \in Paths /\ files[swap[u].path].opened >= 1
          /\ files[swap[u].path].opened = 1 =>
               /\ files[swap[u].path].lines = <<>>
               /\ \A other \in Threads \ {u} : ~InHeader(other, swap[u].path)
      BY <2>1, <3>1 DEF CsvInv, HeaderDue
    <3>3. CASE swap[u].path = path
      <4>1. files[path].opened # 1
        BY <1>1, <3>1, <3>2, <3>3 DEF InHeader
      <4> QED
        BY <1>3, <3>1, <3>2, <3>3, <4>1
    <3>4. CASE swap[u].path # path
      <4>1. files'[swap[u].path] = files[swap[u].path]
        BY <1>3, <3>2, <3>4
      <4>2. ASSUME NEW other \in Threads \ {u}, InHeader(other, swap[u].path)'
            PROVE  InHeader(other, swap[u].path)
        BY <1>6, <3>1, <4>2 DEF InHeader
      <4> QED
        BY <3>1, <3>2, <4>1, <4>2 DEF InHeader
    <3> QED
      BY <3>3, <3>4
  <2> QED
    BY <2>1 DEF HeaderDue, InHeader
<1>11. QueueOrder'
  <2>1. queue' = queue /\ frames' = frames /\ QueueOrder
    BY <1>1 DEF CsvInv
  <2> QED
    BY <2>1 DEF QueueOrder
<1>12. LinesBehind'
  <2>1. ASSUME NEW p \in Paths, NEW i \in 1 .. Len(files'[p].lines)
        PROVE  /\ files'[p].lines[i] <= frames
               /\ \A j \in 1 .. Len(queue) : files'[p].lines[i] < queue[j]
    <3>1. Header <= frames /\ \A j \in 1 .. Len(queue) : Header < queue[j]
      <4>1. frames \in Nat /\ queue \in Seq(Nat)
        BY DEF CsvInv, CsvTypeOK
      <4>2. \A j \in 1 .. Len(queue) : 1 <= queue[j]
        BY DEF CsvInv, QueueOrder
      <4> QED
        BY <4>1, <4>2 DEF Header
    <3>2. CASE p = path
      <4>1. files'[p].lines = written
        BY <1>3, <3>2
      <4>2. CASE written[i] = Header
        BY <3>1, <4>1, <4>2
      <4>3. CASE i \in 1 .. Len(files[path].lines) /\ written[i] = files[path].lines[i]
        BY <1>1, <4>1, <4>3 DEF CsvInv, LinesBehind
      <4> QED
        BY <1>5, <2>1, <4>1, <4>2, <4>3
    <3>3. CASE p # path
      BY <1>3, <2>1, <3>3 DEF CsvInv, LinesBehind
    <3> QED
      BY <3>2, <3>3
  <2> QED
    BY <1>1, <2>1 DEF LinesBehind
<1>13. LinesOrder'
  <2>1. ASSUME NEW p \in Paths, files'[p].opened = 1 PROVE Ordered(files'[p].lines)
    <3>1. CASE p = path
      <4>1. written = <<Header>>
        BY <1>3, <1>4, <1>5, <2>1, <3>1
      <4> QED
        BY <1>3, <3>1, <4>1 DEF Ordered
    <3>2. CASE p # path
      BY <1>3, <2>1, <3>2 DEF CsvInv, LinesOrder
    <3> QED
      BY <3>1, <3>2
  <2> QED
    BY <2>1 DEF LinesOrder
<1>14. OneFile'
  <2>1. ASSUME NEW p \in Paths, NEW o \in Paths, p # o,
               NEW i \in 1 .. Len(files'[p].lines), NEW j \in 1 .. Len(files'[o].lines),
               files'[p].lines[i] = files'[o].lines[j], files'[p].lines[i] # Header
        PROVE  FALSE
    <3>1. i \in 1 .. Len(files[p].lines) /\ files[p].lines[i] = files'[p].lines[i]
      BY <1>3, <1>5, <2>1
    <3>2. j \in 1 .. Len(files[o].lines) /\ files[o].lines[j] = files'[o].lines[j]
      BY <1>3, <1>5, <2>1
    <3> QED
      BY <2>1, <3>1, <3>2 DEF CsvInv, OneFile
  <2> QED
    BY <2>1 DEF OneFile
<1> QED
  BY <1>7, <1>9, <1>10, <1>11, <1>12, <1>13, <1>14 DEF CsvInv

LEMMA AppendFacts ==
  ASSUME NEW q \in Seq(Nat), NEW x \in Nat
  PROVE  /\ Append(q, x) \in Seq(Nat) /\ Append(q, x) # <<>>
         /\ Len(Append(q, x)) = Len(q) + 1
         /\ \A i \in 1 .. Len(q) : Append(q, x)[i] = q[i]
         /\ Append(q, x)[Len(q) + 1] = x
  OBVIOUS

LEMMA TailFacts ==
  ASSUME NEW q \in Seq(Nat), q # <<>>
  PROVE  /\ Tail(q) \in Seq(Nat) /\ Len(Tail(q)) = Len(q) - 1 /\ Len(q) >= 1
         /\ \A i \in 1 .. Len(Tail(q)) : Tail(q)[i] = q[i + 1] /\ i + 1 \in 1 .. Len(q)
         /\ Head(q) = q[1] /\ Head(q) \in Nat /\ 1 \in 1 .. Len(q)
  OBVIOUS

LEMMA PushBufferInv == CsvInv /\ PushBuffer => CsvInv'
<1> SUFFICES ASSUME CsvInv, PushBuffer PROVE CsvInv'
  OBVIOUS
<1>1. /\ frames' = frames + 1
      /\ queue' = queue \/ queue' = Append(queue, frames + 1)
      /\ UNCHANGED <<files, csv_filepath, sinks, bin, linked, swap, swaps>>
  BY DEF PushBuffer
<1>2. queue \in Seq(Nat) /\ frames \in Nat
      /\ files \in [Paths -> [opened : Nat, lines : Seq(Nat)]]
  BY DEF CsvInv, CsvTypeOK
<1>3. frames + 1 \in Nat /\ queue' \in Seq(Nat)
  <2>1. frames + 1 \in Nat
    BY <1>2
  <2>2. Append(queue, frames + 1) \in Seq(Nat)
    BY <1>2, <2>1
  <2> QED
    BY <1>1, <1>2, <2>1, <2>2
<1>4. CsvTypeOK'
  BY <1>1, <1>3 DEF CsvInv, CsvTypeOK
<1>5. HeaderWritten' /\ HeaderDue' /\ LinesOrder' /\ OneFile'
  BY <1>1 DEF CsvInv, HeaderWritten, Referenced, HeaderDue, InHeader, LinesOrder, OneFile
<1>6. \A i \in 1 .. Len(queue') : (i \in 1 .. Len(queue) /\ queue'[i] = queue[i])
                                 \/ (i = Len(queue) + 1 /\ queue'[i] = frames + 1)
  <2>1. CASE queue' = queue
    BY <1>2, <2>1
  <2>2. CASE queue' = Append(queue, frames + 1)
    BY <1>2, <1>3, <2>2, AppendFacts
  <2> QED
    BY <1>1, <2>1, <2>2
<1>7. \A i \in 1 .. Len(queue) : queue[i] \in Nat /\ 1 <= queue[i] /\ queue[i] <= frames
  BY <1>2 DEF CsvInv, QueueOrder
<1>8. QueueOrder'
  <2>1. ASSUME NEW i \in 1 .. Len(queue') PROVE 1 <= queue'[i] /\ queue'[i] <= frames'
    BY <1>1, <1>2, <1>6, <1>7
  <2>2. ASSUME NEW i \in 1 .. Len(queue'), NEW j \in 1 .. Len(queue'), i < j
        PROVE  queue'[i] < queue'[j]
    <3>1. Len(queue) \in Nat /\ i \in Nat /\ j \in Nat
      BY <1>2, <1>3
    <3>2. CASE j \in 1 .. Len(queue) /\ queue'[j] = queue[j]
      <4>1. i \in 1 .. Len(queue) /\ queue'[i] = queue[i]
        BY <1>6, <2>2, <3>1, <3>2
      <4> QED
        BY <2>2, <3>2, <4>1 DEF CsvInv, QueueOrder
    <3>3. CASE j = Len(queue) + 1 /\ queue'[j] = frames + 1
      <4>1. i \in 1 .. Len(queue) /\ queue'[i] = queue[i]
        BY <1>6, <2>2, <3>1, <3>3
      <4> QED
        BY <1>2, <1>7, <3>3, <4>1
    <3> QED
      BY <1>6, <3>2, <3>3
  <2> QED
    BY <2>1, <2>2 DEF QueueOrder
<1>9. LinesBehind'
  <2>1. ASSUME NEW path \in Paths, NEW i \in 1 .. Len(files[path].lines)
        PROVE  /\ files[path].lines[i] <= frames + 1
               /\ \A j \in 1 .. Len(queue') : files[path].lines[i] < queue'[j]
    <3>1. files[path].lines[i] \in Nat
      BY <1>2
    <3>2. /\ files[path].lines[i] <= frames
          /\ \A j \in 1 .. Len(queue) : files[path].lines[i] < queue[j]
      BY DEF CsvInv, LinesBehind
    <3>3. files[path].lines[i] <= frames + 1 /\ files[path].lines[i] < frames + 1
      BY <1>2, <3>1, <3>2
    <3> QED
      BY <1>6, <3>2, <3>3
  <2> QED
    BY <1>1, <2>1 DEF LinesBehind
<1> QED
  BY <1>4, <1>5, <1>8, <1>9 DEF CsvInv

LEMMA WriteLineInv == CsvInv /\ WriteLine => CsvInv'
<1> SUFFICES ASSUME CsvInv, WriteLine PROVE CsvInv'
  OBVIOUS
<1> DEFINE line == Head(queue)
<1>1. /\ queue # <<>> /\ queue' = Tail(queue)
      /\ UNCHANGED <<csv_filepath, sinks, bin, linked, frames, swap, swaps>>
  BY DEF WriteLine
<1>2. queue \in Seq(Nat) /\ frames \in Nat
      /\ files \in [Paths -> [opened : Nat, lines : Seq(Nat)]]
  BY DEF CsvInv, CsvTypeOK
<1>3. /\ queue' \in Seq(Nat) /\ line \in Nat
      /\ \A i \in 1 .. Len(queue') : queue'[i] = queue[i + 1] /\ i + 1 \in 1 .. Len(queue)
      /\ line = queue[1] /\ 1 \in 1 .. Len(queue)
  BY <1>1, <1>2, TailFacts
<1>4. /\ 1 <= line /\ line <= frames
      /\ \A i \in 1 .. Len(queue') : line < queue'[i]
  <2>1. \A i \in 1 .. Len(queue') : 1 < i + 1
    BY <1>3
  <2> QED
    BY <1>3, <2>1 DEF CsvInv, QueueOrder
<1>5. QueueOrder'
  <2>1. \A i \in 1 .. Len(queue') : 1 <= queue'[i] /\ queue'[i] <= frames
    BY <1>3 DEF CsvInv, QueueOrder
  <2>2. ASSUME NEW i \in 1 .. Len(queue'), NEW j \in 1 .. Len(queue'), i < j
        PROVE  queue'[i] < queue'[j]
    <3>1. i + 1 < j + 1
      BY <2>2
    <3> QED
      BY <1>3, <3>1 DEF CsvInv, QueueOrder
  <2> QED
    BY <1>1, <2>1, <2>2 DEF QueueOrder
<1>6. CASE files' = files
  <2>1. LinesBehind'
    BY <1>1, <1>3, <1>6 DEF CsvInv, LinesBehind
  <2>2. CsvTypeOK'
    BY <1>1, <1>3, <1>6 DEF CsvInv, CsvTypeOK
  <2>3. HeaderWritten' /\ HeaderDue' /\ LinesOrder' /\ OneFile'
    BY <1>1, <1>6 DEF CsvInv, HeaderWritten, Referenced, HeaderDue, InHeader, LinesOrder, OneFile
  <2> QED
    BY <1>5, <2>1, <2>2, <2>3 DEF CsvInv
<1>7. CASE files' # files
  <2>1. PICK path \in Paths : /\ Referenced(path)
                              /\ files' = [files EXCEPT ![path].lines = Append(@, line)]
    <3>1. /\ linked # NoSink /\ sinks[linked].path # NoPath
          /\ files' = [files EXCEPT ![sinks[linked].path].lines = Append(@, line)]
      BY <1>7 DEF WriteLine
    <3>2. linked \in DOMAIN sinks /\ sinks[linked].path \in Paths \cup {NoPath}
      BY <3>1 DEF CsvInv, CsvTypeOK
    <3>3. Referenced(sinks[linked].path)
      BY <3>2 DEF Referenced
    <3> QED
      BY <3>1, <3>2, <3>3
  <2> DEFINE old == files[path].lines
             new == Append(old, line)
  <2>2. old \in Seq(Nat) /\ files[path].opened \in Nat
    BY <1>2
  <2>3. /\ new \in Seq(Nat) /\ new # <<>> /\ Len(new) = Len(old) + 1
        /\ \A i \in 1 .. Len(old) : new[i] = old[i]
        /\ new[Len(old) + 1] = line
    BY <1>3, <2>2, AppendFacts
  <2>4. /\ files' \in [Paths -> [opened : Nat, lines : Seq(Nat)]]
        /\ files'[path].opened = files[path].opened /\ files'[path].lines = new
        /\ \A p \in Paths \ {path} : files'[p] = files[p]
    <3>1. files' = [files EXCEPT ![path] = [files[path] EXCEPT !.lines = new]]
      BY <2>1
    <3>2. [files[path] EXCEPT !.lines = new] = [opened |-> files[path].opened, lines |-> new]
      <4>1. files[path] \in [opened : Nat, lines : Seq(Nat)]
        BY <1>2
      <4> HIDE DEF new
      <4> QED
        BY <4>1
    <3> QED
      BY <1>2, <2>2, <2>3, <3>1, <3>2
  <2>5. \A i \in 1 .. Len(new) : (i \in 1 .. Len(old) /\ new[i] = old[i])
                                 \/ (i = Len(old) + 1 /\ new[i] = line)
    BY <2>2, <2>3
  <2> HIDE DEF new
  <2>6. \A p \in Paths : \A i \in 1 .. Len(files'[p].lines) :
          \/ i \in 1 .. Len(files[p].lines) /\ files'[p].lines[i] = files[p].lines[i]
          \/ p = path /\ i = Len(old) + 1 /\ files'[p].lines[i] = line
    BY <2>4, <2>5
  <2>7. \A p \in Paths : \A i \in 1 .. Len(files[p].lines) : files[p].lines[i] < line
    BY <1>3 DEF CsvInv, LinesBehind
  <2>8. files[path].opened >= 1 /\ (files[path].opened = 1 => old # <<>>)
    BY <2>1 DEF CsvInv, HeaderWritten
  <2>9. CsvTypeOK'
    BY <1>1, <1>3, <2>4 DEF CsvInv, CsvTypeOK
  <2>10. HeaderWritten'
    <3>1. \A p \in Paths : Referenced(p)' => Referenced(p)
      BY <1>1 DEF Referenced
    <3>2. ASSUME NEW p \in Paths, Referenced(p)'
          PROVE  files'[p].opened >= 1 /\ (files'[p].opened = 1 => files'[p].lines # <<>>)
      <4>1. files[p].opened >= 1 /\ (files[p].opened = 1 => files[p].lines # <<>>)
        BY <3>1, <3>2 DEF CsvInv, HeaderWritten
      <4> QED
        BY <2>3, <2>4, <4>1 DEF new
    <3> QED
      BY <3>2 DEF HeaderWritten
  <2>11. HeaderDue'
    <3>1. ASSUME NEW u \in Threads, swap[u].step = "header"
          PROVE  files'[swap[u].path] = files[swap[u].path] \/ files[swap[u].path].opened # 1
      BY <2>4, <2>8, <3>1 DEF CsvInv, HeaderDue
    <3>2. \A p \in Paths : files'[p].opened = files[p].opened
      BY <2>4
    <3> QED
      BY <1>1, <3>1, <3>2 DEF CsvInv, HeaderDue, InHeader
  <2>12. LinesBehind'
    <3>1. ASSUME NEW p \in Paths, NEW i \in 1 .. Len(files'[p].lines)
          PROVE  /\ files'[p].lines[i] <= frames
                 /\ \A j \in 1 .. Len(queue') : files'[p].lines[i] < queue'[j]
      <4>1. CASE files'[p].lines[i] = line
        BY <1>4, <4>1
      <4>2. CASE i \in 1 .. Len(files[p].lines) /\ files'[p].lines[i] = files[p].lines[i]
        BY <1>3, <4>2 DEF CsvInv, LinesBehind
      <4> QED
        BY <2>6, <4>1, <4>2
    <3> QED
      BY <1>1, <3>1 DEF LinesBehind
  <2>13. LinesOrder'
    <3>1. ASSUME files[path].opened = 1 PROVE Ordered(new)
      <4>1. Ordered(old) /\ old # <<>>
        BY <2>8, <3>1 DEF CsvInv, LinesOrder
      <4>2. Len(old) \in Nat /\ 1 \in 1 .. Len(old)
        BY <2>2, <4>1
      <4>3. new[1] = Header
        BY <2>3, <4>1, <4>2 DEF Ordered, new
      <4>4. ASSUME NEW i \in 1 .. Len(new), NEW j \in 1 .. Len(new), i < j
            PROVE  new[i] < new[j]
        <5>1. i \in 1 .. Len(old) /\ new[i] = old[i]
          BY <2>3, <2>5, <4>2, <4>4 DEF new
        <5>2. CASE j \in 1 .. Len(old) /\ new[j] = old[j]
          BY <4>1, <4>4, <5>1, <5>2 DEF Ordered
        <5>3. CASE new[j] = line
          BY <2>7, <5>1, <5>3
        <5> QED
          BY <2>5, <5>2, <5>3
      <4> QED
        BY <4>3, <4>4 DEF Ordered
    <3>2. ASSUME NEW p \in Paths, files'[p].opened = 1 PROVE Ordered(files'[p].lines)
      <4>1. CASE p = path
        BY <2>4, <3>1, <3>2, <4>1
      <4>2. CASE p # path
        BY <2>4, <3>2, <4>2 DEF CsvInv, LinesOrder
      <4> QED
        BY <4>1, <4>2
    <3> QED
      BY <3>2 DEF LinesOrder
  <2>14. OneFile'
    <3>1. ASSUME NEW p \in Paths, NEW o \in Paths, p # o,
                 NEW i \in 1 .. Len(files'[p].lines), NEW j \in 1 .. Len(files'[o].lines),
                 files'[p].lines[i] = files'[o].lines[j]
          PROVE  files'[p].lines[i] = Header
      <4>1. CASE files'[p].lines[i] = line
        <5>1. ASSUME NEW q \in Paths, q # path, NEW k \in 1 .. Len(files'[q].lines)
              PROVE  files'[q].lines[k] # line
          <6>1. k \in 1 .. Len(files[q].lines) /\ files'[q].lines[k] = files[q].lines[k]
            <7>1. files'[q] = files[q]
              BY <2>4, <5>1
            <7> QED
              BY <5>1, <7>1
          <6>2. files[q].lines[k] < line
            BY <2>7, <6>1
          <6>3. files[q].lines[k] \in Nat
            <7>1. files[q].lines \in Seq(Nat)
              BY <1>2
            <7> QED
              BY <6>1, <7>1
          <6>4. files[q].lines[k] # line
            BY <1>3, <6>2, <6>3
          <6> QED
            BY <6>1, <6>4
        <5> QED
          BY <3>1, <4>1, <5>1
      <4>2. CASE files'[p].lines[i] # line
        <5>1. i \in 1 .. Len(files[p].lines) /\ files'[p].lines[i] = files[p].lines[i]
          BY <2>6, <4>2
        <5>2. j \in 1 .. Len(files[o].lines) /\ files'[o].lines[j] = files[o].lines[j]
          BY <2>6, <3>1, <4>2
        <5> QED
          BY <3>1, <5>1, <5>2 DEF CsvInv, OneFile
      <4> QED
        BY <4>1, <4>2
    <3> QED
      BY <3>1 DEF OneFile
  <2> QED
    BY <1>5, <2>9, <2>10, <2>11, <2>12, <2>13, <2>14 DEF CsvInv
<1> QED
  BY <1>6, <1>7

LEMMA CsvInvNext == CsvInv /\ [CsvNext]_csvVars => CsvInv'
<1> SUFFICES ASSUME CsvInv, [CsvNext]_csvVars PROVE CsvInv'
  OBVIOUS
<1>1. ASSUME NEW t \in Threads, NEW path \in Paths, NewCsv(t, path) PROVE CsvInv'
  BY <1>1, NewCsvInv
<1>2. ASSUME NEW t \in Threads, MetadataCleanup(t) PROVE CsvInv'
  BY <1>2, QuietSteps
<1>3. ASSUME NEW t \in Threads, InSwap(t) PROVE CsvInv'
  BY <1>3, QuietSteps, WriteHeaderInv DEF InSwap
<1>4. CASE PushBuffer
  BY <1>4, PushBufferInv
<1>5. CASE WriteLine
  BY <1>5, WriteLineInv
<1>6. CASE Crash
  BY <1>6, Quiet DEF Crash, SwapTypeOK, CsvInv, CsvTypeOK, Referenced, queueVars
<1>7. CASE UNCHANGED csvVars
  BY <1>7, Quiet DEF csvVars, SwapTypeOK, CsvInv, CsvTypeOK, Referenced, queueVars
<1> QED
  BY <1>1, <1>2, <1>3, <1>4, <1>5, <1>6, <1>7 DEF CsvNext

LEMMA CsvInvWellFormed == CsvInv => CsvWellFormed
<1> SUFFICES ASSUME CsvInv, NEW path \in Paths, files[path].opened = 1,
                    files[path].lines # <<>>
             PROVE  LET lines == files[path].lines
                    IN /\ lines[1] = Header
                       /\ \A i, j \in 1 .. Len(lines) : i < j => lines[i] < lines[j]
                       /\ \A other \in Paths \ {path} : \A i \in 2 .. Len(lines) :
                            \A j \in DOMAIN files[other].lines : files[other].lines[j] # lines[i]
  BY DEF CsvWellFormed
<1> DEFINE lines == files[path].lines
<1>1. lines \in Seq(Nat) /\ \A other \in Paths : files[other].lines \in Seq(Nat)
  BY DEF CsvInv, CsvTypeOK
<1>2. /\ lines[1] = Header
      /\ \A i, j \in 1 .. Len(lines) : i < j => lines[i] < lines[j]
  BY DEF CsvInv, LinesOrder, Ordered
<1>3. ASSUME NEW other \in Paths \ {path}, NEW i \in 2 .. Len(lines),
             NEW j \in DOMAIN files[other].lines
      PROVE  files[other].lines[j] # lines[i]
  <2>1. 1 \in 1 .. Len(lines) /\ i \in 1 .. Len(lines) /\ 1 < i
    BY <1>1
  <2>2. lines[1] < lines[i] /\ lines[i] \in Nat /\ lines[1] \in Nat
    <3> HIDE DEF lines
    <3>1. lines \in Seq(Nat)
      BY <1>1
    <3>2. lines[i] \in Nat /\ lines[1] \in Nat
      BY <2>1, <3>1
    <3>3. lines[1] < lines[i]
      BY <1>2, <2>1
    <3> QED
      BY <3>2, <3>3
  <2>3. lines[i] # Header
    BY <1>2, <2>2
  <2>4. j \in 1 .. Len(files[other].lines)
    BY <1>1
  <2>5. OneFile
    BY DEF CsvInv
  <2>6. files[path].lines[i] = files[other].lines[j] => files[path].lines[i] = Header
    BY <2>1, <2>4, <2>5 DEF OneFile
  <2> QED
    BY <2>3, <2>6
<1> QED
  BY <1>2, <1>3

\* Whatever swaps overlap, and however many threads, files and frames there are: a
\* csv file whose name was used once begins with the header, and then has the
\* lines of frames in their order that no other file has.
THEOREM CsvFilesAreWhole == CsvSpec => []CsvWellFormed
  BY CsvInvInit, CsvInvNext, CsvInvWellFormed, PTL DEF CsvSpec

(* The sink.  While swaps do not overlap there is one thread in a swap, and    *)
(* its step says what the pipeline contains.                               *)

SinkAt(step, path) ==
  /\ step \in {"idle", "header", "null", "remove", "play"} =>
       bin = {csv_sink} /\ linked = csv_sink /\ DOMAIN sinks = {csv_sink}
  /\ step \in {"idle", "header", "null"} =>
       sinks[csv_sink] = [path |-> csv_filepath, playing |-> TRUE]
  /\ step \in {"free", "dup", "make", "link"} => bin = {} /\ linked = NoSink
  /\ step \in {"free", "dup", "make"} => DOMAIN sinks = {}
  /\ step = "make" => csv_filepath = path
  /\ step \in {"link", "play"} =>
       /\ DOMAIN sinks = {csv_sink}
       /\ sinks[csv_sink] = [path |-> csv_filepath, playing |-> FALSE]

AllIdle == \A t \in Threads : swap[t] = Idle

IdleIsIdle == \A t \in Threads : swap[t].step = "idle" => swap[t] = Idle

OneSwap == \A t, u \in Threads : swap[t] # Idle /\ swap[u] # Idle => t = u

SinkInv ==
  /\ IdleIsIdle
  /\ ~crashed /\ ~overlapped =>
       /\ OneSwap
       /\ \A t \in Threads : swap[t] # Idle => SinkAt(swap[t].step, swap[t].path)
       /\ AllIdle => SinkAt("idle", NoPath)

LEMMA SinkInvInit == CsvInit => SinkInv
  BY DEF CsvInit, SinkInv, IdleIsIdle, OneSwap, AllIdle, SinkAt, Idle

\* One more step of a swap.
LEMMA SwapMoves ==
  ASSUME SinkInv, CsvInv, NEW t \in Threads, swap[t].step # "idle",
         NEW next \in SwapSteps \ {"idle"}, Step(t, next),
         UNCHANGED <<overlapped, crashed>>,
         \A path : path = swap[t].path /\ SinkAt(swap[t].step, path)
                     => SinkAt(next, path)'
  PROVE  SinkInv'
<1>1. /\ swap' \in [Threads -> [step : SwapSteps, path : Paths \cup {NoPath}, sink : Int]]
      /\ swap'[t].step = next /\ swap'[t].path = swap[t].path
      /\ \A u \in Threads \ {t} : swap'[u] = swap[u]
  BY DEF CsvInv, CsvTypeOK, Step
<1>2. swap[t] # Idle /\ swap'[t] # Idle
  BY <1>1 DEF Idle
<1>3. IdleIsIdle'
  BY <1>1 DEF SinkInv, IdleIsIdle
<1>4. ASSUME ~crashed', ~overlapped'
      PROVE  /\ OneSwap' /\ ~AllIdle'
             /\ \A u \in Threads : swap'[u] # Idle => SinkAt(swap[u].step, swap[u].path)'
  <2>1. OneSwap /\ SinkAt(swap[t].step, swap[t].path)
    BY <1>2, <1>4 DEF SinkInv
  <2>2. \A u \in Threads \ {t} : swap'[u] = Idle
    BY <1>1, <1>2, <2>1 DEF OneSwap
  <2>3. SinkAt(swap[t].step, swap[t].path)'
    <3>1. PICK path : path = swap[t].path
      OBVIOUS
    <3>2. SinkAt(next, path)'
      BY <2>1, <3>1
    <3> QED
      BY <1>1, <3>1, <3>2 DEF SinkAt
  <2> QED
    BY <1>2, <2>2, <2>3 DEF OneSwap, AllIdle
<1> QED
  BY <1>3, <1>4 DEF SinkInv

\* A step that touches neither the swaps nor the sinks.
LEMMA SinkStays ==
  ASSUME SinkInv,
         UNCHANGED <<swap, sinks, bin, linked, csv_sink, csv_filepath, overlapped>>,
         crashed' = crashed \/ crashed' = TRUE
  PROVE  SinkInv'
<1>1. /\ IdleIsIdle' = IdleIsIdle /\ OneSwap' = OneSwap /\ AllIdle' = AllIdle
      /\ \A step, path : SinkAt(step, path)' = SinkAt(step, path)
  BY DEF IdleIsIdle, OneSwap, AllIdle, SinkAt
<1> QED
  BY <1>1 DEF SinkInv

\* A swap that begins while another one goes on overlaps it.
LEMMA SwapBegins ==
  ASSUME SinkInv, CsvInv, NEW t \in Threads, NEW first \in {"header", "null"},
         NEW path \in Paths \cup {NoPath}, BeginSwap(t, path, first),
         UNCHANGED <<sinks, bin, linked, csv_sink, csv_filepath, crashed>>
  PROVE  SinkInv'
<1>1. /\ ~crashed /\ swap[t].step = "idle"
      /\ swap' = [swap EXCEPT ![t] = [step |-> first, path |-> path, sink |-> swaps + 1]]
      /\ overlapped' = (overlapped \/ \E other \in Threads : swap[other] # Idle)
  BY DEF BeginSwap, At
<1>2. /\ swap'[t].step = first /\ swap'[t].path = path /\ swap'[t] # Idle
      /\ \A u \in Threads \ {t} : swap'[u] = swap[u]
  BY <1>1 DEF CsvInv, CsvTypeOK, Idle
<1>3. IdleIsIdle'
  BY <1>2 DEF SinkInv, IdleIsIdle
<1>4. ASSUME ~crashed', ~overlapped'
      PROVE  /\ OneSwap' /\ ~AllIdle'
             /\ \A u \in Threads : swap'[u] # Idle => SinkAt(swap[u].step, swap[u].path)'
  <2>1. AllIdle /\ SinkAt("idle", NoPath)
    <3>1. ~overlapped /\ ~crashed /\ AllIdle
      BY <1>1, <1>4 DEF AllIdle
    <3> QED
      BY <3>1 DEF SinkInv
  <2>2. SinkAt(swap[t].step, swap[t].path)'
    BY <1>2, <2>1 DEF SinkAt
  <2> QED
    BY <1>2, <2>1, <2>2 DEF OneSwap, AllIdle
<1> QED
  BY <1>3, <1>4 DEF SinkInv

\* What each step of the only swap does to the pipeline.
LEMMA SinkInvStep ==
  ASSUME SinkInv, CsvInv, NEW t \in Threads, InSwap(t)
  PROVE  SinkInv'
<1> DEFINE path == swap[t].path
<1>1. CASE Crash
  BY <1>1, SinkStays DEF Crash
<1>2. CASE WriteHeader(t)
  <2>1. /\ swap[t].step = "header" /\ Step(t, "null")
        /\ UNCHANGED <<csv_filepath, csv_sink, sinks, bin, linked, overlapped, crashed>>
    BY <1>2 DEF WriteHeader, At
  <2>2. \A p : SinkAt("header", p) => SinkAt("null", p)'
    BY <2>1 DEF SinkAt
  <2> QED
    BY <2>1, <2>2, SwapMoves DEF SwapSteps
<1>3. CASE StopSink(t) /\ ~Crash
  <2>1. /\ swap[t].step = "null" /\ Step(t, "remove")
        /\ sinks' = [sinks EXCEPT ![csv_sink].playing = FALSE]
        /\ UNCHANGED <<csv_filepath, csv_sink, bin, linked, overlapped, crashed>>
    BY <1>3 DEF StopSink, At
  <2>2. \A p : SinkAt("null", p) => SinkAt("remove", p)'
    BY <2>1 DEF SinkAt
  <2> QED
    BY <2>1, <2>2, SwapMoves DEF SwapSteps
<1>4. CASE RemoveSink(t) /\ ~Crash
  <2>1. /\ swap[t].step = "remove" /\ Step(t, "free") /\ BinRemove(csv_sink)
        /\ UNCHANGED <<csv_filepath, csv_sink, overlapped, crashed>>
    BY <1>4 DEF RemoveSink, At
  <2>2. \A p : SinkAt("remove", p) => SinkAt("free", p)'
    <3>1. SUFFICES ASSUME bin = {csv_sink}, linked = csv_sink, DOMAIN sinks = {csv_sink}
                   PROVE  bin' = {} /\ linked' = NoSink /\ DOMAIN sinks' = {}
      BY DEF SinkAt
    <3>2. /\ bin' = bin \ {csv_sink} /\ linked' = NoSink
          /\ sinks' = [s \in DOMAIN sinks \ {csv_sink} |-> sinks[s]]
      BY <2>1, <3>1 DEF BinRemove
    <3> QED
      BY <3>1, <3>2
  <2> QED
    BY <2>1, <2>2, SwapMoves DEF SwapSteps
<1>5. CASE FreePath(t) /\ ~Crash
  <2>1. /\ swap[t].step = "free" /\ Step(t, "dup")
        /\ UNCHANGED <<csv_sink, sinks, bin, linked, overlapped, crashed>>
    BY <1>5 DEF FreePath, At
  <2>2. \A p : SinkAt("free", p) => SinkAt("dup", p)'
    BY <2>1 DEF SinkAt
  <2> QED
    BY <2>1, <2>2, SwapMoves DEF SwapSteps
<1>6. CASE DupPath(t)
  <2>1. /\ swap[t].step = "dup" /\ Step(t, "make") /\ csv_filepath' = path
        /\ UNCHANGED <<csv_sink, sinks, bin, linked, overlapped, crashed>>
    BY <1>6 DEF DupPath, At
  <2>2. ASSUME NEW p, p = path, SinkAt("dup", p)
        PROVE  SinkAt("make", p)'
    BY <2>1, <2>2 DEF SinkAt
  <2> QED
    BY <2>1, <2>2, SwapMoves DEF SwapSteps
<1>7. CASE MakeSink(t) /\ ~Crash
  <2>1. /\ swap[t].step = "make" /\ Step(t, "link")
        /\ csv_sink' = swap[t].sink
        /\ sinks' = [s \in DOMAIN sinks \cup {csv_sink'} |->
                       IF s # csv_sink' THEN sinks[s]
                       ELSE [path |-> IF path = NoPath THEN NoPath ELSE csv_filepath,
                             playing |-> FALSE]]
        /\ UNCHANGED <<csv_filepath, bin, linked, overlapped, crashed>>
    BY <1>7 DEF MakeSink, At
  <2>2. ASSUME NEW p, p = path, SinkAt("make", p)
        PROVE  SinkAt("link", p)'
    <3>1. bin = {} /\ linked = NoSink /\ DOMAIN sinks = {} /\ csv_filepath = p
      BY <2>2 DEF SinkAt
    <3>2. DOMAIN sinks' = {csv_sink'}
      BY <2>1, <3>1
    <3>3. sinks'[csv_sink'] = [path |-> csv_filepath', playing |-> FALSE]
      BY <2>1, <2>2, <3>1
    <3> QED
      BY <2>1, <3>1, <3>2, <3>3 DEF SinkAt
  <2> QED
    BY <2>1, <2>2, SwapMoves DEF SwapSteps
<1>8. CASE BinAddAndLink(t) /\ ~Crash
  <2>1. /\ swap[t].step = "link" /\ Step(t, "play")
        /\ bin' = IF bin = {} THEN {csv_sink} ELSE bin
        /\ linked' = IF linked = NoSink /\ csv_sink \in bin' THEN csv_sink ELSE linked
        /\ UNCHANGED <<csv_filepath, csv_sink, sinks, overlapped, crashed>>
    BY <1>8 DEF BinAddAndLink, At
  <2>2. \A p : SinkAt("link", p) => SinkAt("play", p)'
    BY <2>1 DEF SinkAt
  <2> QED
    BY <2>1, <2>2, SwapMoves DEF SwapSteps
\* The swap is over.
<1>9. CASE Play(t) /\ ~Crash
  <2>1. /\ swap[t].step = "play" /\ swap' = [swap EXCEPT ![t] = Idle]
        /\ sinks' = [sinks EXCEPT ![csv_sink].playing = TRUE]
        /\ UNCHANGED <<csv_filepath, csv_sink, bin, linked, overlapped, crashed>>
    BY <1>9 DEF Play, At
  <2>2. swap'[t] = Idle /\ \A u \in Threads \ {t} : swap'[u] = swap[u]
    BY <2>1 DEF CsvInv, CsvTypeOK
  <2>3. swap[t] # Idle
    BY <2>1 DEF Idle
  <2>4. IdleIsIdle'
    BY <2>2 DEF SinkInv, IdleIsIdle
  <2>5. ASSUME ~crashed', ~overlapped'
        PROVE  AllIdle' /\ SinkAt("idle", NoPath)'
    <3>1. OneSwap /\ SinkAt("play", path)
      BY <2>1, <2>3, <2>5 DEF SinkInv
    <3>2. AllIdle'
      BY <2>2, <2>3, <3>1 DEF OneSwap, AllIdle
    <3>3. /\ bin = {csv_sink} /\ linked = csv_sink /\ DOMAIN sinks = {csv_sink}
          /\ sinks[csv_sink] = [path |-> csv_filepath, playing |-> FALSE]
      BY <3>1 DEF SinkAt
    <3>4. /\ DOMAIN sinks' = {csv_sink}
          /\ sinks'[csv_sink] = [path |-> csv_filepath, playing |-> TRUE]
      <4>1. /\ DOMAIN sinks' = DOMAIN sinks
            /\ csv_sink \in DOMAIN sinks =>
                 sinks'[csv_sink] = [sinks[csv_sink] EXCEPT !.playing = TRUE]
        BY <2>1
      <4>2. csv_sink \in DOMAIN sinks
        BY <3>3
      <4>3. sinks'[csv_sink] = [[path |-> csv_filepath, playing |-> FALSE]
                                  EXCEPT !.playing = TRUE]
        BY <3>3, <4>1, <4>2
      <4>4. sinks'[csv_sink] = [path |-> csv_filepath, playing |-> TRUE]
        BY <4>3
      <4> QED
        BY <3>3, <4>1, <4>4
    <3> QED
      BY <2>1, <3>2, <3>3, <3>4 DEF SinkAt
  <2> QED
    BY <2>4, <2>5 DEF SinkInv, AllIdle, OneSwap
<1> QED
  BY <1>1, <1>2, <1>3, <1>4, <1>5, <1>6, <1>7, <1>8, <1>9 DEF InSwap

LEMMA SinkInvNext == SinkInv /\ CsvInv /\ [CsvNext]_csvVars => SinkInv'
<1> SUFFICES ASSUME SinkInv, CsvInv, [CsvNext]_csvVars PROVE SinkInv'
  OBVIOUS
<1>1. ASSUME NEW t \in Threads, NEW path \in Paths, NewCsv(t, path) PROVE SinkInv'
  BY <1>1, SwapBegins DEF NewCsv
<1>2. ASSUME NEW t \in Threads, MetadataCleanup(t) PROVE SinkInv'
  BY <1>2, SwapBegins DEF MetadataCleanup
<1>3. ASSUME NEW t \in Threads, InSwap(t) PROVE SinkInv'
  BY <1>3, SinkInvStep
<1>4. CASE PushBuffer \/ WriteLine \/ Crash \/ UNCHANGED csvVars
  BY <1>4, SinkStays DEF PushBuffer, WriteLine, Crash, csvVars
<1> QED
  BY <1>1, <1>2, <1>3, <1>4 DEF CsvNext

\* However many threads, files and frames there are: as long as no two swaps
\* have overlapped, a swap ends with the one sink of csv_pipeline linked, playing
\* and writing where PipelineData says.
THEOREM SinkIsOfPath == CsvSpec => []SinkFollowsPath
<1>1. SinkInv => SinkFollowsPath
  BY DEF SinkInv, SinkAt, AllIdle, SinkFollowsPath
<1> QED
  BY CsvInvInit, CsvInvNext, SinkInvInit, SinkInvNext, <1>1, PTL DEF CsvSpec

(* The program.  Its steps are steps of the two components, or leave their   *)
(* variables alone, so that what is proved of the components holds of it.  *)

LEMMA StepOfSensor == [Next]_vars => [SensorNext]_sensorVars
<1> SUFFICES ASSUME [Next]_vars PROVE [SensorNext]_sensorVars
  OBVIOUS
<1> USE MetadataAssumption DEF MetadataAssumption
<1>1. CASE MediaConfigure \/ MediaConfigured \/ MediaGone \/ TriggerOrLimit
           \/ SourceGone \/ QueueStep \/ \E thread \in Threads : SwapStep(thread)
  <2>1. UNCHANGED sensorVars
    BY <1>1 DEF MediaConfigure, MediaConfigured, MediaGone, TriggerOrLimit,
       SourceGone, QueueStep, SwapStep
  <2> QED
    BY <2>1
<1>2. ASSUME NEW thread \in Threads, CleanupMedia(thread)
      PROVE  [SensorNext]_sensorVars
  BY <1>2 DEF CleanupMedia
<1>3. CASE StatusTick
  BY <1>3 DEF StatusTick, StatusBegin, SensorNext
<1>4. CASE StatusStep
  <2>1. StatusInfo \/ UNCHANGED sensorVars \/ InCall("status")
    BY <1>4 DEF StatusStep, StatusSend
  <2> QED
    BY <2>1 DEF StatusInfo, SensorNext
<1>5. CASE FrameArrives
  BY <1>5 DEF FrameArrives, SensorNext
<1>6. CASE ProbeStep
  BY <1>6 DEF ProbeStep, SensorNext
<1>7. CASE FrameLine
  BY <1>7 DEF FrameLine, SensorNext
<1>8. CASE Surroundings
  BY <1>8 DEF Surroundings, SensorNext
<1>9. CASE UNCHANGED vars
  BY <1>9 DEF vars
<1> QED
  BY <1>1, <1>2, <1>3, <1>4, <1>5, <1>6, <1>7, <1>8, <1>9 DEF Next

LEMMA StepOfCsv == [Next]_vars => [CsvNext]_csvVars
<1> SUFFICES ASSUME [Next]_vars PROVE [CsvNext]_csvVars
  OBVIOUS
<1> USE MetadataAssumption DEF MetadataAssumption
<1>1. CASE MediaConfigured \/ MediaGone \/ StatusTick \/ StatusStep \/ FrameArrives
           \/ ProbeStep \/ Surroundings
  <2>1. UNCHANGED csvVars
    BY <1>1 DEF MediaConfigured, MediaGone, StatusTick, StatusStep, FrameArrives,
       ProbeStep, Surroundings, mediaVars
  <2> QED
    BY <2>1
<1>2. CASE MediaConfigure
  BY <1>2 DEF MediaConfigure, CsvNext
<1>3. ASSUME NEW thread \in Threads, CleanupMedia(thread)
      PROVE  [CsvNext]_csvVars
  BY <1>3 DEF CleanupMedia, CsvNext
<1>4. CASE TriggerOrLimit
  BY <1>4 DEF TriggerOrLimit, CsvNext
<1>5. CASE SourceGone \/ FrameLine
  BY <1>5 DEF SourceGone, FrameLine, CsvNext
<1>6. ASSUME NEW thread \in Threads, SwapStep(thread)
      PROVE  [CsvNext]_csvVars
  BY <1>6 DEF SwapStep, CsvNext
<1>7. CASE QueueStep
  BY <1>7 DEF QueueStep, CsvNext
<1>8. CASE UNCHANGED vars
  BY <1>8 DEF vars
<1> QED
  BY <1>1, <1>2, <1>3, <1>4, <1>5, <1>6, <1>7, <1>8 DEF Next

\* The status message and the probe call getSensorDynamicInfo as SensorInfo
\* lets its callers do (statusbroadcaster.c, pipeline.c).
THEOREM ProgramCallsSensor == Spec => SensorSpec
<1>1. Init => SensorInit
  BY DEF Init
<1> QED
  BY <1>1, StepOfSensor, PTL DEF Spec, SensorSpec

\* media_configure, the triggers, the file limit, the probe and the end of the
\* stream exchange and feed the csv as CsvWriter allows (pipeline.c, main.c).
THEOREM ProgramWritesCsv == Spec => CsvSpec
<1>1. Init => CsvInit
  BY DEF Init
<1> QED
  BY <1>1, StepOfCsv, PTL DEF Spec, CsvSpec

\* So the program makes no status message and no line of csv of a state that is
\* not set, its csv files are whole, and its sink follows the path.
THEOREM MetadataIsSound == Spec => [](TemperatureValid /\ CsvWellFormed /\ SinkFollowsPath)
  BY ProgramCallsSensor, ProgramWritesCsv, NoStateIsNone, CsvFilesAreWhole,
     SinkIsOfPath, PTL

(* The status messages.  What they build hangs on one root, apart from the JSON *)
(* of config.json: deleting the root leaves that as it was.                    *)

\* The items of config.json that the message shares.
Shared(g) ==
  \A n \in 1 .. Len(Scripts) : Scripts[n].capabilities # NULL =>
    /\ Scripts[n].capabilities \in DOMAIN g.blocks
    /\ IsItem(g.blocks[Scripts[n].capabilities])

\* So does an element of the hardware list ...
LEMMA AddsHardware ==
  ASSUME NEW g, NEW b, NEW h, NEW a, NEW root, NEW I, NEW T, Building(g, b, h, a, root, I, T),
         NEW n \in 1 .. Len(Scripts), Shared(g)
  PROVE  Grows(g, b, AddHardware(h, a, Scripts[n]), a, root, I)
<1> DEFINE script == Scripts[n]
           hardware == CreateObject(h)
           p == hardware.item
           h1 == hardware.heap
           listed == AddItemToArray(h1, a, p)
           fields == <<Field("Name", String(script.name)),
                       Field("Control Port", Number(script.port))>>
           named == AddFields(listed, p, fields)
           k == AddHardware(h, a, Scripts[n])
<1>1. k = AddItemReferenceToObject(named, p, "Capabilities", script.capabilities)
  BY DEF AddHardware
<1>2. Len(fields) \in Nat
  OBVIOUS
<1>3. Filled(b, h, a, root, I, T) /\ Grown(g, h, I \cup T) /\ IsHeap(h)
  BY DEF Building, Grown
<1>4. Makes(h, hardware, {p}, {}) /\ h1.blocks[p].child = NULL /\ ~h1.blocks[p].reference
  BY <1>3, ObjectMakes
<1>5. Grown(h, h1, {p}) /\ Tree(h1, p, {p}, {}) /\ h1.blocks[p].next = NULL /\ p # NULL
  BY <1>4 DEF Makes, Loose
<1> HIDE DEF script, hardware, p, h1, fields, k
<1>6. Filled(b, h1, a, root, I, T)
  <2>1. DOMAIN b.blocks \subseteq DOMAIN h.blocks /\ I \subseteq DOMAIN h.blocks
    BY <1>3 DEF Filled, Tree, Within
  <2>2. \A q \in I \cup DOMAIN b.blocks : h1.blocks[q] = h.blocks[q]
    BY <1>5, <2>1 DEF Grown
  <2>3. DOMAIN h.blocks \subseteq DOMAIN h1.blocks /\ IsHeap(h1)
    BY <1>5 DEF Grown
  <2> QED
    BY <1>3, <2>2, <2>3, FilledKept
<1>7. Apart(I, T, {p}, {}) /\ p \notin DOMAIN b.blocks
  BY <1>3, <1>5 DEF Apart, Filled, Tree, Within, Grown
<1>8. Hung(b, h1, listed, a, root, I \cup {p}, T \cup {}, p, {})
  BY <1>5, <1>6, <1>7, AddsItem
<1> HIDE DEF listed
<1>9. Building(g, listed, listed, p, root, I \cup {p}, T)
  <2>1. T \cup {} = T
    OBVIOUS
  <2>2. IsHeap(listed) /\ Tree(listed, root, I \cup {p}, T)
    BY <1>8, <2>1 DEF Filled, Hung
  <2>3. Filled(listed, listed, p, root, I \cup {p}, T)
    BY <1>4, <1>8, <2>2, MemberOpened DEF Hung
  <2>4. Grown(g, listed, (I \cup {p}) \cup T)
    BY <1>3, <1>5, <1>8, <2>2 DEF Grown, Hung
  <2> QED
    BY <2>3, <2>4 DEF Building
<1>10. PICK J, U : Building(g, listed, named, p, root, J, U) /\ I \cup {p} \subseteq J
  <2>1. Grows(g, listed, named, p, root, I \cup {p})
    BY <1>2, <1>9, AddsFields
  <2> QED
    BY <2>1 DEF Grows
<1> HIDE DEF named
<1>11. script.capabilities # NULL =>
         script.capabilities \in DOMAIN g.blocks /\ IsItem(g.blocks[script.capabilities])
  BY DEF Shared, script
<1>12. PICK J2, U2 : Building(g, listed, k, p, root, J2, U2) /\ J \subseteq J2
  <2>1. Grows(g, listed, k, p, root, J)
    BY <1>1, <1>10, <1>11, AddsReference
  <2> QED
    BY <2>1 DEF Grows
<1>13. Filled(b, k, a, root, J2, U2)
  BY <1>7, <1>8, <1>10, <1>12, FilledBelow DEF Building, Hung
<1> QED
  BY <1>10, <1>12, <1>13 DEF Building, Grows, k

\* The same over the first scripts.
IsHardware(h, list, n, added) ==
  added = [m \in 0 .. n |->
             IF m = 0 THEN h ELSE AddHardware(added[m - 1], list, Scripts[m])]

\* ... and the list, for any number of scripts.
LEMMA AddsHardwareList ==
  ASSUME NEW g, NEW b, NEW h, NEW a, NEW root, NEW I, NEW T, Building(g, b, h, a, root, I, T),
         Shared(g), Len(Scripts) \in Nat
  PROVE  Grows(g, b, AddHardwareList(h, a), a, root, I)
<1> DEFINE k == AddHardwareList(h, a)
<1> DEFINE P == {n \in Nat : \E added : IsHardware(h, a, n, added)}
<1>1. 0 \in P
  <2>1. IsHardware(h, a, 0, [m \in 0 .. 0 |-> h])
    BY DEF IsHardware
  <2> QED
    BY <2>1
<1>2. ASSUME NEW n \in Nat, n \in P PROVE n + 1 \in P
  <2>1. PICK added : IsHardware(h, a, n, added)
    BY <1>2
  <2> DEFINE next == [m \in 0 .. n + 1 |->
                        IF m = n + 1 THEN AddHardware(added[n], a, Scripts[n + 1])
                        ELSE added[m]]
  <2>2. IsHardware(h, a, n + 1, next)
    BY <2>1 DEF IsHardware
  <2> QED
    BY <2>2
<1> HIDE DEF P
<1>3. Len(Scripts) \in P
  BY <1>1, <1>2, Inductive
<1>4. PICK added : IsHardware(h, a, Len(Scripts), added) /\ k = added[Len(Scripts)]
  <2> DEFINE all == CHOOSE added : IsHardware(h, a, Len(Scripts), added)
  <2>1. IsHardware(h, a, Len(Scripts), all)
    BY <1>3 DEF P
  <2>2. k = all[Len(Scripts)]
    BY DEF AddHardwareList, IsHardware
  <2> QED
    BY <2>1, <2>2
<1> DEFINE Q == {n \in Nat : n <= Len(Scripts) => Grows(g, b, added[n], a, root, I)}
<1>5. 0 \in Q
  BY <1>4 DEF IsHardware, Grows
<1>6. ASSUME NEW n \in Nat, n \in Q, n + 1 <= Len(Scripts)
      PROVE  Grows(g, b, added[n + 1], a, root, I)
  <2>1. PICK J, U : Building(g, b, added[n], a, root, J, U) /\ I \subseteq J
    BY <1>6 DEF Grows
  <2>2. added[n + 1] = AddHardware(added[n], a, Scripts[n + 1]) /\ n + 1 \in 1 .. Len(Scripts)
    BY <1>4, <1>6 DEF IsHardware
  <2>3. Grows(g, b, added[n + 1], a, root, J)
    BY <2>1, <2>2, AddsHardware
  <2> QED
    BY <2>1, <2>3 DEF Grows
<1> HIDE DEF Q
<1>7. \A n \in Nat : n \in Q => n + 1 \in Q
  <2> SUFFICES ASSUME NEW n \in Nat, n \in Q PROVE n + 1 \in Q
    OBVIOUS
  <2>1. n + 1 \in Nat
    OBVIOUS
  <2>2. n + 1 <= Len(Scripts) => n <= Len(Scripts)
    OBVIOUS
  <2> QED
    BY <1>6, <2>1, <2>2 DEF Q
<1>8. Len(Scripts) \in Q
  BY <1>5, <1>7, Inductive
<1> QED
  BY <1>4, <1>8 DEF Q

\* The message is a tree of its own.
LEMMA Formatted ==
  ASSUME IsHeap(heap), Shared(heap), Len(Scripts) \in Nat, NEW streaming, NEW machine,
         NEW json, json = FormatStatusBroadcastJSON(streaming, machine)
  PROVE  \E items, strings : /\ Grown(heap, json.heap, items \cup strings)
                             /\ Tree(json.heap, json.item, items, strings)
<1> DEFINE root == CreateObject(heap)
           sensor == IF sensor_info = NULL THEN InactiveFields
                     ELSE SensorFields(heap.blocks[sensor_info].info)
           fields == ConfigFields \o sensor \o MachineFields(streaming, machine)
           filled == AddFields(root.heap, root.item, fields)
           list == CreateArray(filled)
           listed == AddItemToObject(list.heap, root.item, "Hardware", list.item)
           r == root.item
           a == list.item
           g == heap
           b == root.heap
<1>1. json.heap = AddHardwareList(listed, a) /\ json.item = r
  BY DEF FormatStatusBroadcastJSON
<1>2. Len(fields) \in Nat
  BY DEF ConfigFields, InactiveFields, SensorFields, MachineFields
<1>3. Makes(g, root, {r}, {}) /\ b.blocks[r].child = NULL /\ ~b.blocks[r].reference
  BY ObjectMakes
<1> HIDE DEF root, sensor, fields, filled, list, listed, r, a, g, b
<1>4. Building(g, b, b, r, r, {r}, {})
  <2>1. Grown(g, b, {r} \cup {}) /\ Tree(b, r, {r}, {}) /\ IsHeap(b)
    BY <1>3 DEF Makes, Loose, Grown, r, b
  <2>2. Filled(b, b, r, r, {r}, {})
    BY <1>3, <2>1, MemberOpened
  <2> QED
    BY <2>1, <2>2 DEF Building
<1>5. PICK I, T : Building(g, b, filled, r, r, I, T)
  <2>1. Grows(g, b, filled, r, r, {r})
    BY <1>2, <1>4, AddsFields DEF filled, r, b
  <2> QED
    BY <2>1 DEF Grows
<1>6. Makes(filled, list, {a}, {}) /\ list.heap.blocks[a].child = NULL
      /\ ~list.heap.blocks[a].reference
  <2>1. IsHeap(filled)
    BY <1>5 DEF Building, Grown
  <2> QED
    BY <2>1, ObjectMakes DEF list, a
<1>7. PICK U : /\ Building(g, b, listed, r, r, I \cup {a}, U)
               /\ Hung(b, list.heap, listed, r, r, I \cup {a}, U, a, {Fresh(list.heap)})
  BY <1>5, <1>6, Adds DEF listed, r, a
<1>8. Building(g, listed, listed, a, r, I \cup {a}, U)
  <2>1. listed.blocks[a].child = NULL /\ ~listed.blocks[a].reference
    BY <1>6, <1>7 DEF Hung
  <2>2. IsHeap(listed) /\ Tree(listed, r, I \cup {a}, U) /\ Grown(g, listed, (I \cup {a}) \cup U)
    BY <1>7 DEF Building, Filled
  <2>3. Filled(listed, listed, a, r, I \cup {a}, U)
    BY <2>1, <2>2, MemberOpened
  <2> QED
    BY <2>2, <2>3 DEF Building
<1>9. Grows(g, listed, AddHardwareList(listed, a), a, r, I \cup {a})
  <2>1. Shared(g)
    BY DEF g
  <2> QED
    BY <1>8, <2>1, AddsHardwareList
<1>10. PICK J, V : Building(g, listed, json.heap, a, r, J, V)
  BY <1>1, <1>9 DEF Grows
<1> QED
  BY <1>1, <1>10 DEF Building, Filled, g

\* Between two messages the heap holds the JSON of config.json, and the struct.
HeapInv ==
  /\ IsHeap(heap) /\ heap.sound = TRUE
  /\ [p \in DOMAIN heap.blocks \ {sensor_info} |-> heap.blocks[p]] = ConfigHeap.blocks
  /\ sensor_info # NULL => sensor_info \in DOMAIN heap.blocks
  /\ status \in {"idle", "info"} => sensor_info = NULL

LEMMA HeapInvInit == StatusInit => HeapInv
<1> SUFFICES ASSUME StatusInit PROVE HeapInv
  OBVIOUS
<1>1. heap = ConfigHeap /\ sensor_info = NULL
  BY DEF StatusInit
<1>2. NULL \notin DOMAIN ConfigHeap.blocks /\ IsHeap(ConfigHeap) /\ ConfigHeap.sound = TRUE
  BY StatusAssumption DEF IsHeap
<1>3. DOMAIN heap.blocks \ {sensor_info} = DOMAIN ConfigHeap.blocks
  BY <1>1, <1>2
<1>4. ConfigHeap.blocks = [p \in DOMAIN ConfigHeap.blocks |-> ConfigHeap.blocks[p]]
  BY <1>2 DEF IsHeap
<1> QED
  BY <1>1, <1>2, <1>3, <1>4 DEF HeapInv

\* What the scripts share is there when the message is made.
LEMMA SharedNow == HeapInv => Shared(heap) /\ Len(Scripts) \in Nat
<1> SUFFICES ASSUME HeapInv PROVE Shared(heap) /\ Len(Scripts) \in Nat
  OBVIOUS
<1> DEFINE rest == [p \in DOMAIN heap.blocks \ {sensor_info} |-> heap.blocks[p]]
<1>1. rest = ConfigHeap.blocks
  BY DEF HeapInv
<1>2. DOMAIN ConfigHeap.blocks = DOMAIN heap.blocks \ {sensor_info}
  BY <1>1
<1>3. \A p \in DOMAIN ConfigHeap.blocks : ConfigHeap.blocks[p] = heap.blocks[p]
  BY <1>1, <1>2
<1> QED
  BY <1>2, <1>3, StatusAssumption DEF Shared

LEMMA HeapInvBegin ==
  ASSUME HeapInv, NEW streaming, StatusBegin(streaming)
  PROVE  HeapInv'
<1>1. sensor_info = NULL /\ sensor_info' = NULL
  BY DEF HeapInv, StatusBegin
<1>2. Free(heap, NULL) = heap
  BY FreeNothing DEF HeapInv, IsHeap
<1>3. heap' = heap
  BY <1>1, <1>2 DEF StatusBegin
<1> QED
  BY <1>1, <1>3 DEF HeapInv

LEMMA HeapInvInfo ==
  ASSUME HeapInv, StatusInfo
  PROVE  HeapInv'
<1>1. IsHeap(heap) /\ sensor_info = NULL /\ NULL \notin DOMAIN heap.blocks /\ heap.sound = TRUE
      /\ [p \in DOMAIN heap.blocks \ {sensor_info} |-> heap.blocks[p]] = ConfigHeap.blocks
  BY DEF HeapInv, StatusInfo, IsHeap
<1>2. status' = "send"
  BY DEF StatusInfo
<1>3. CASE sensor_info' = NULL /\ UNCHANGED heap
  BY <1>1, <1>2, <1>3 DEF HeapInv
<1>4. CASE heap' = Allocate(heap, [info |-> info["status"]]) /\ sensor_info' = Fresh(heap)
  <2>1. Grown(heap, heap', {sensor_info'})
    BY <1>1, <1>4, Allocated
  <2>2. IsHeap(heap') /\ heap'.sound = TRUE /\ sensor_info' \in DOMAIN heap'.blocks
    BY <1>1, <2>1 DEF Grown
  <2>3. DOMAIN heap'.blocks \ {sensor_info'} = DOMAIN heap.blocks \ {sensor_info}
        /\ \A p \in DOMAIN heap.blocks : heap'.blocks[p] = heap.blocks[p]
    BY <1>1, <2>1 DEF Grown
  <2>4. [p \in DOMAIN heap'.blocks \ {sensor_info'} |-> heap'.blocks[p]] = ConfigHeap.blocks
    BY <1>1, <2>3
  <2> QED
    BY <1>2, <2>2, <2>4 DEF HeapInv
<1> QED
  BY <1>3, <1>4 DEF StatusInfo

LEMMA HeapInvSend ==
  ASSUME HeapInv, NEW streaming, StatusSend(streaming)
  PROVE  HeapInv'
<1>1. PICK machine \in Machines :
        LET json == FormatStatusBroadcastJSON(streaming, machine)
        IN heap' = Free(Delete(json.heap, json.item), sensor_info)
  BY DEF StatusSend
<1> DEFINE json == FormatStatusBroadcastJSON(streaming, machine)
<1>2. IsHeap(heap) /\ heap.sound = TRUE /\ NULL \notin DOMAIN heap.blocks
  BY DEF HeapInv, IsHeap
<1>3. PICK I, T : Grown(heap, json.heap, I \cup T) /\ Tree(json.heap, json.item, I, T)
  BY <1>2, SharedNow, Formatted
<1>4. heap' = Free(Delete(json.heap, json.item), sensor_info)
  BY <1>1
<1> HIDE DEF json
<1>5. Delete(json.heap, json.item) = heap
  <2>1. Delete(json.heap, json.item) = Without(json.heap, I \cup T)
    <3> DEFINE h == json.heap
               root == json.item
    <3>1. IsHeap(h) /\ h.sound = TRUE /\ Tree(h, root, I, T)
      BY <1>2, <1>3 DEF Grown
    <3> HIDE DEF h, root
    <3>2. Delete(h, root) = Without(h, I \cup T)
      BY <3>1, TreeDeleted
    <3> QED
      BY <3>2 DEF h, root
  <2>2. DOMAIN json.heap.blocks \ (I \cup T) = DOMAIN heap.blocks
        /\ \A p \in DOMAIN heap.blocks : json.heap.blocks[p] = heap.blocks[p]
    BY <1>3 DEF Grown
  <2>3. [p \in DOMAIN json.heap.blocks \ (I \cup T) |-> json.heap.blocks[p]] = heap.blocks
    BY <1>2, <2>2 DEF IsHeap
  <2> QED
    BY <1>2, <2>1, <2>3 DEF IsHeap, Without
<1>6. heap' = Free(heap, sensor_info) /\ sensor_info' = NULL
  BY <1>4, <1>5 DEF StatusSend
<1>7. CASE sensor_info = NULL
  BY <1>2, <1>6, <1>7, FreeNothing DEF HeapInv
<1>8. CASE sensor_info # NULL
  <2> DEFINE rest == [q \in DOMAIN heap.blocks \ {sensor_info} |-> heap.blocks[q]]
  <2>1. heap' = [heap EXCEPT !.blocks = rest]
    BY <1>6, <1>8 DEF Free, HeapInv
  <2>2. heap'.blocks = rest /\ heap'.sound = TRUE /\ heap' = [blocks |-> rest, sound |-> TRUE]
    BY <1>2, <2>1 DEF IsHeap
  <2>3. IsHeap(heap')
    <3>1. IsFiniteSet(DOMAIN heap.blocks \ {sensor_info})
      BY <1>2, FS_RemoveElement DEF IsHeap
    <3> QED
      BY <1>2, <2>2, <3>1 DEF IsHeap
  <2>4. rest = ConfigHeap.blocks
    BY DEF HeapInv
  <2>5. [p \in DOMAIN heap'.blocks \ {sensor_info'} |-> heap'.blocks[p]] = rest
    BY <1>2, <1>6, <2>2
  <2> QED
    BY <1>6, <2>2, <2>3, <2>4, <2>5 DEF HeapInv
<1> QED
  BY <1>7, <1>8

LEMMA HeapIsConfig == HeapInv => ConfigJSONKept
  BY DEF HeapInv, ConfigJSONKept

LEMMA StepOfHeap == HeapInv /\ [Next]_vars => HeapInv'
<1> SUFFICES ASSUME HeapInv, [Next]_vars PROVE HeapInv'
  OBVIOUS
<1>1. CASE StatusTick
  BY <1>1, HeapInvBegin DEF StatusTick
<1>2. CASE StatusStep
  <2>1. CASE StatusInfo
    BY <2>1, HeapInvInfo
  <2>2. CASE StatusSend(is_streaming)
    BY <2>2, HeapInvSend
  <2>3. CASE UNCHANGED statusVars
    BY <2>3 DEF statusVars, HeapInv
  <2> QED
    BY <1>2, <2>1, <2>2, <2>3 DEF StatusStep
<1>3. CASE UNCHANGED statusVars
  BY <1>3 DEF statusVars, HeapInv
<1> QED
  BY <1>1, <1>2, <1>3
  DEF Next, vars, MediaConfigure, MediaConfigured, MediaGone, CleanupMedia, TriggerOrLimit,
      SourceGone, FrameArrives, ProbeStep, FrameLine, SwapStep, QueueStep, Surroundings

\* Whatever the config.json, its scripts and the streaming, the messages leave
\* the JSON of config.json as it was read, free nothing twice and leave no block of theirs
\* (status_broadcaster, formatStatusBroadcastJSON and cJSON_Delete).
THEOREM ConfigIsKept == Spec => []ConfigJSONKept
<1>1. Init => HeapInv
  BY HeapInvInit DEF Init
<1> QED
  BY <1>1, StepOfHeap, HeapIsConfig, PTL DEF Spec
=============================================================================
