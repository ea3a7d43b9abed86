---------------------------- MODULE StartupProofs ----------------------------
(***************************************************************************)
(* Theorems about what main starts with.  Startup: what the program holds  *)
(* and the scripts it forks, for any number of scripts, any set of steps   *)
(* that may fail and any number of Ctrl-Cs.  SensorSetup: what it loads    *)
(* fits the camera that it streams from, for all cameras and settings.     *)
(***************************************************************************)
EXTENDS Startup, SensorSetup, CJSONProofs, TLAPS
-----------------------------------------------------------------------------
(* Startup: the tables of the setup and of the cleanup.                    *)

LEMMA Lengths == Len(Setup) = 15 /\ Len(Cleanup) = 9
  BY DEF Setup, Cleanup

\* Each label stands once in the table.
LEMMA IndexOfLabel ==
  ASSUME NEW i \in 1 .. 9
  PROVE  Index(Cleanup[i].label) = i
<1>1. \A j \in 1 .. 9 : Cleanup[j].label = Cleanup[i].label => j = i
  BY DEF Cleanup
<1> QED
  BY <1>1, Lengths DEF Index

LEMMA LabelsInOrder ==
  /\ Index("cleanup_hardware_scripts") = 1
  /\ Index("cleanup_udp_listener") = 2 /\ Index("cleanup_status_broadcast") = 3
  /\ Index("cleanup_rtsp_server") = 4 /\ Index("cleanup_csv_pipeline") = 5
  /\ Index("cleanup_pipeline_string") = 6 /\ Index("cleanup_config") = 7
  /\ Index("cleanup_sensor_setup_info") = 8 /\ Index("cleanup_loop") = 9
<1>1. \A i \in 1 .. 9 : Index(Cleanup[i].label) = i
  BY IndexOfLabel
<1>2. /\ Cleanup[1].label = "cleanup_hardware_scripts"
      /\ Cleanup[2].label = "cleanup_udp_listener"
      /\ Cleanup[3].label = "cleanup_status_broadcast"
      /\ Cleanup[4].label = "cleanup_rtsp_server"
      /\ Cleanup[5].label = "cleanup_csv_pipeline"
      /\ Cleanup[6].label = "cleanup_pipeline_string"
      /\ Cleanup[7].label = "cleanup_config"
      /\ Cleanup[8].label = "cleanup_sensor_setup_info"
      /\ Cleanup[9].label = "cleanup_loop"
  BY DEF Cleanup
<1> QED
  BY ONLY <1>1, <1>2

\* The variables that labels free, by the step that assigns them ...
MainVars ==
  {"loop", "sensor_setup_info", "control_data", "metadata", "pipeline_string",
   "csv_pipeline", "rtsp_server", "rtsp_server_id", "udp_listener",
   "status_broadcast_id", "child_processes"}

AssignedAt(x) ==
  CASE x = "loop" -> 0
    [] x = "sensor_setup_info" -> 1
    [] x \in {"control_data", "metadata"} -> 2
    [] x = "pipeline_string" -> 4
    [] x = "csv_pipeline" -> 8
    [] x \in {"rtsp_server", "rtsp_server_id"} -> 10
    [] x = "udp_listener" -> 12
    [] x = "status_broadcast_id" -> 13
    [] x = "child_processes" -> 15

\* ... and by the label.
FreedAt(x) ==
  CASE x = "child_processes" -> 1
    [] x = "udp_listener" -> 2
    [] x = "status_broadcast_id" -> 3
    [] x \in {"rtsp_server", "rtsp_server_id"} -> 4
    [] x = "csv_pipeline" -> 5
    [] x = "pipeline_string" -> 6
    [] x \in {"control_data", "metadata"} -> 7
    [] x = "sensor_setup_info" -> 8
    [] x = "loop" -> 9

LEMMA Frees ==
  ASSUME NEW l \in 1 .. 9
  PROVE  /\ Cleanup[l].frees \subseteq MainVars
         /\ \A x \in MainVars : x \in Cleanup[l].frees <=> FreedAt(x) = l
<1>1. /\ Cleanup[1].frees = {"child_processes"}
      /\ Cleanup[2].frees = {"udp_listener"}
      /\ Cleanup[3].frees = {"status_broadcast_id"}
      /\ Cleanup[4].frees = {"rtsp_server_id", "rtsp_server"}
      /\ Cleanup[5].frees = {"csv_pipeline"}
      /\ Cleanup[6].frees = {"pipeline_string"}
      /\ Cleanup[7].frees = {"metadata", "control_data"}
      /\ Cleanup[8].frees = {"sensor_setup_info"}
      /\ Cleanup[9].frees = {"loop"}
  BY DEF Cleanup
<1>2. CASE l \in {1, 2, 3}
  BY <1>1, <1>2 DEF MainVars, FreedAt
<1>3. CASE l \in {4, 5, 6}
  BY <1>1, <1>3 DEF MainVars, FreedAt
<1>4. CASE l \in {7, 8, 9}
  BY <1>1, <1>4 DEF MainVars, FreedAt
<1> QED
  BY <1>2, <1>3, <1>4

LEMMA Orders ==
  \A x \in MainVars : AssignedAt(x) \in 0 .. 15 /\ FreedAt(x) \in 1 .. 9
  BY DEF MainVars, AssignedAt, FreedAt

LEMMA Gets ==
  ASSUME NEW s \in 1 .. 15
  PROVE  \A x \in MainVars : x \in Setup[s].gets <=> AssignedAt(x) = s
<1>1. /\ Setup[1].gets = {"sensor_setup_info"}
      /\ Setup[2].gets = {"control_data", "metadata"}
      /\ Setup[3].gets = {"pipeline_string_format"}
      /\ Setup[4].gets = {"pipeline_string"}
      /\ Setup[5].gets = {"recording_dir"}
      /\ Setup[6].gets = {"startup_metadata_filepath"}
      /\ Setup[7].gets = {}
      /\ Setup[8].gets = {"csv_pipeline"}
      /\ Setup[9].gets = {}
      /\ Setup[10].gets =
           {"rtsp_server", "mount_point_str", "rtsp_server_id", "session_timer"}
      /\ Setup[11].gets = {"status_socket", "status_address"}
      /\ Setup[12].gets = {"udp_listener", "udp_address"}
      /\ Setup[13].gets = {"status_broadcast_id"}
      /\ Setup[14].gets = {}
      /\ Setup[15].gets = {"child_processes"}
  BY DEF Setup, Row
<1>2. CASE s \in {1, 2, 3, 4}
  BY <1>1, <1>2 DEF MainVars, AssignedAt
<1>3. CASE s \in {5, 6, 7, 8}
  BY <1>1, <1>3 DEF MainVars, AssignedAt
<1>4. CASE s \in {9, 10, 11, 12}
  BY <1>1, <1>4 DEF MainVars, AssignedAt
<1>5. CASE s \in {13, 14, 15}
  BY <1>1, <1>5 DEF MainVars, AssignedAt
<1> QED
  BY <1>2, <1>3, <1>4, <1>5

\* No step frees a variable that labels free.
LEMMA Drops ==
  ASSUME NEW s \in 1 .. 15
  PROVE  Setup[s].drops \cap MainVars = {}
<1>1. /\ Setup[1].drops = {"sensor_file"} /\ Setup[2].drops = {"config_file"}
      /\ Setup[3].drops = {"pipeline_file"} /\ Setup[6].drops = {"recording_dir"}
      /\ Setup[7].drops = {"startup_metadata_filepath"}
      /\ Setup[4].drops = {} /\ Setup[5].drops = {} /\ Setup[8].drops = {}
      /\ Setup[9].drops = {} /\ Setup[10].drops = {} /\ Setup[11].drops = {}
      /\ Setup[12].drops = {} /\ Setup[13].drops = {} /\ Setup[14].drops = {}
      /\ Setup[15].drops = {}
  BY DEF Setup, Row
<1>2. CASE s \in {1, 2, 3, 6, 7}
  BY <1>1, <1>2 DEF MainVars
<1>3. CASE s \in {4, 5, 8, 9, 10, 11, 12, 13, 14, 15}
  BY <1>1, <1>3
<1> QED
  BY <1>2, <1>3

LEMMA FreedIsMainVars == Freed = MainVars
<1>1. Freed \subseteq MainVars
  BY Frees, Lengths DEF Freed
<1>2. ASSUME NEW x \in MainVars
      PROVE  x \in Freed
  <2>1. FreedAt(x) \in 1 .. 9 /\ x \in Cleanup[FreedAt(x)].frees
    BY Orders, Frees
  <2> QED
    BY <2>1, Lengths DEF Freed
<1> QED
  BY <1>1, <1>2

LEMMA AcquiredIs ==
  ASSUME NEW s \in 1 .. 16, NEW x \in MainVars
  PROVE  x \in Acquired(s) <=> AssignedAt(x) < s
<1>1. x = "loop" <=> AssignedAt(x) = 0
  BY DEF MainVars, AssignedAt
<1>2. \A i \in 1 .. (s - 1) : i \in 1 .. 15 /\ (x \in Setup[i].gets <=> AssignedAt(x) = i)
  BY Gets
<1> QED
  BY <1>1, <1>2, Orders DEF Acquired

LEMMA RemainingIs ==
  ASSUME NEW l \in 1 .. 10
  PROVE  /\ Remaining(l) \subseteq MainVars
         /\ \A x \in MainVars : x \in Remaining(l) <=> FreedAt(x) >= l
<1>1. \A i \in l .. 9 : i \in 1 .. 9
  OBVIOUS
<1>2. Remaining(l) \subseteq MainVars
  BY <1>1, Frees, Lengths DEF Remaining
<1>3. ASSUME NEW x \in MainVars
      PROVE  x \in Remaining(l) <=> FreedAt(x) >= l
  BY <1>1, Frees, Orders, Lengths DEF Remaining
<1> QED
  BY <1>2, <1>3

\* The label of a failed step, as a number.
JumpOf(s) ==
  CASE s = 1 -> 9
    [] s = 2 -> 8
    [] s = 3 -> 7
    [] s = 4 -> 1
    [] s \in 5 .. 8 -> 6
    [] s = 9 -> 5
    [] s = 11 -> 4
    [] s = 12 -> 3

LEMMA Jumps ==
  ASSUME NEW s \in 1 .. 15, Setup[s].else # "none"
  PROVE  /\ s \in 1 .. 12 /\ s # 10
         /\ FailureLabel(s) = JumpOf(s)
         /\ (Setup[s].step = "pipeline string" <=> s = 4)
         /\ (Setup[s].step = "csv elements" <=> s = 8)
         /\ (Setup[s].step = "udp listener" <=> s = 12)
<1>1. /\ Setup[1].else = "cleanup_loop"
      /\ Setup[2].else = "cleanup_sensor_setup_info"
      /\ Setup[3].else = "cleanup_config"
      /\ Setup[4].else = "cleanup_hardware_scripts"
      /\ Setup[5].else = "cleanup_pipeline_string"
      /\ Setup[6].else = "cleanup_pipeline_string"
      /\ Setup[7].else = "cleanup_pipeline_string"
      /\ Setup[8].else = "cleanup_pipeline_string"
      /\ Setup[9].else = "cleanup_csv_pipeline"
      /\ Setup[10].else = "none"
      /\ Setup[11].else = "cleanup_rtsp_server"
      /\ Setup[12].else = "cleanup_status_broadcast"
      /\ Setup[13].else = "none"
      /\ Setup[14].else = "none"
      /\ Setup[15].else = "none"
  BY DEF Setup, Row
<1>2. s \in 1 .. 12 /\ s # 10
  BY <1>1
<1>3. FailureLabel(s) = JumpOf(s)
  BY <1>1, <1>2, LabelsInOrder DEF FailureLabel, JumpOf
<1>4. /\ Setup[1].step = "sensor.json" /\ Setup[2].step = "config.json"
      /\ Setup[3].step = "pipeline.txt" /\ Setup[4].step = "pipeline string"
      /\ Setup[5].step = "recording directory"
      /\ Setup[6].step = "startup filename" /\ Setup[7].step = "startup copy"
      /\ Setup[8].step = "csv elements" /\ Setup[9].step = "csv links"
      /\ Setup[11].step = "status socket" /\ Setup[12].step = "udp listener"
  BY DEF Setup, Row
<1> DEFINE Known == {1, 2, 3, 4, 5, 6, 7, 8, 9, 11, 12}
<1>0. s \in Known
  BY <1>2
<1>5. Setup[s].step = "pipeline string" <=> s = 4
  BY <1>0, <1>4
<1>6. Setup[s].step = "csv elements" <=> s = 8
  BY <1>0, <1>4
<1>7. Setup[s].step = "udp listener" <=> s = 12
  BY <1>0, <1>4
<1> QED
  BY <1>2, <1>3, <1>5, <1>6, <1>7

\* Behind a jump, a label frees what was assigned before the step that failed,
\* except behind the two wrong ones; before it, nothing that was.
LEMMA JumpsFit ==
  ASSUME NEW s \in 1 .. 12, s # 10, NEW x \in MainVars
  PROVE  /\ JumpOf(s) \in 1 .. 9
         /\ AssignedAt(x) < s => FreedAt(x) >= JumpOf(s)
         /\ \/ s = 4 /\ FreedAt(x) <= 5 /\ AssignedAt(x) >= s /\ x # "pipeline_string"
            \/ s = 12 /\ FreedAt(x) = 3 /\ AssignedAt(x) >= s
            \/ FreedAt(x) < JumpOf(s)
            \/ /\ ~(s = 4 /\ FreedAt(x) <= 5) /\ ~(s = 12 /\ FreedAt(x) = 3)
               /\ AssignedAt(x) < s \/ (s = 4 /\ x = "pipeline_string")
<1>1. CASE s \in 1 .. 4
  BY <1>1 DEF JumpOf, MainVars, AssignedAt, FreedAt
<1>2. CASE s \in 5 .. 8
  BY <1>2 DEF JumpOf, MainVars, AssignedAt, FreedAt
<1>3. CASE s \in 9 .. 12
  BY <1>3 DEF JumpOf, MainVars, AssignedAt, FreedAt
<1> QED
  BY <1>1, <1>2, <1>3
-----------------------------------------------------------------------------
(* Startup: which variables the labels find.                               *)

\* What a label finds, one variable at a time.
LEMMA UsableIs ==
  ASSUME TypeOK, NEW x \in MainVars
  PROVE  x \in Usable <=> \/ AssignedAt(x) < step
                          \/ /\ err_code /\ step <= 15
                             /\ Setup[step].step = "pipeline string"
                             /\ x = "pipeline_string"
<1>1. step \in 1 .. 16
  BY Lengths DEF TypeOK
<1> QED
  BY <1>1, AcquiredIs, Lengths DEF Usable, LeftNull

\* Of the labels that are still to come, one finds all that it uses, or it is one
\* of the two wrong jumps and finds nothing.
LEMMA LabelsFind ==
  ASSUME TypeOK, StepsMatch, pc = "cleanup", NEW l \in 1 .. 9, l >= FirstLabel
  PROVE  /\ ~WrongJump(l) => Cleanup[l].frees \subseteq Usable
         /\ WrongJump(l) => Cleanup[l].frees \cap Usable = {}
<1>1. CASE err_code /\ step <= 15
  <2>1. step \in 1 .. 15 /\ Setup[step].else # "none"
    BY <1>1, Lengths DEF TypeOK, StepsMatch
  <2>2. FirstLabel = JumpOf(step)
    BY <1>1, <2>1, Jumps, Lengths DEF FirstLabel
  <2>3. WrongJump(l) <=> (step = 4 /\ l <= 5) \/ (step = 12 /\ l = 3)
    <3>1. /\ Failed("pipeline string") <=> step = 4
          /\ Failed("udp listener") <=> step = 12
      BY <1>1, <2>1, Jumps, Lengths DEF Failed
    <3>2. /\ Index("cleanup_pipeline_string") = 6
          /\ Index("cleanup_status_broadcast") = 3
      BY LabelsInOrder
    <3>3. l < 6 <=> l <= 5
      OBVIOUS
    <3> QED
      BY <3>1, <3>2, <3>3, Zenon DEF WrongJump
  <2>4. ASSUME NEW x \in MainVars, FreedAt(x) = l
        PROVE  /\ ~WrongJump(l) => x \in Usable
               /\ WrongJump(l) => x \notin Usable
    <3>1. step \in 1 .. 12 /\ step # 10
      BY <2>1, Jumps
    <3>2. x \in Usable <=> AssignedAt(x) < step \/ (step = 4 /\ x = "pipeline_string")
      BY <1>1, <2>1, Jumps, UsableIs
    <3>3. \/ step = 4 /\ FreedAt(x) <= 5 /\ AssignedAt(x) >= step /\ x # "pipeline_string"
          \/ step = 12 /\ FreedAt(x) = 3 /\ AssignedAt(x) >= step
          \/ FreedAt(x) < JumpOf(step)
          \/ /\ ~(step = 4 /\ FreedAt(x) <= 5) /\ ~(step = 12 /\ FreedAt(x) = 3)
             /\ AssignedAt(x) < step \/ (step = 4 /\ x = "pipeline_string")
      BY <3>1, JumpsFit
    <3>4. JumpOf(step) \in 1 .. 9 /\ AssignedAt(x) \in 0 .. 15
      BY <3>1, JumpsFit, Orders
    <3> QED
      BY <2>2, <2>3, <2>4, <3>1, <3>2, <3>3, <3>4
  <2> QED
    BY <2>4, Frees
<1>2. CASE ~(err_code /\ step <= 15)
  <2>1. step = 16 /\ ~WrongJump(l)
    <3>1. step \in 1 .. 16 /\ (~err_code => step = 16)
      BY Lengths DEF TypeOK, StepsMatch
    <3>2. ~Failed("pipeline string") /\ ~Failed("udp listener")
      BY <1>2, Lengths DEF Failed
    <3>3. err_code => ~(step <= 15)
      BY <1>2, Zenon
    <3>4. ~WrongJump(l)
      BY <3>2, Zenon DEF WrongJump
    <3>5. CASE err_code
      BY <3>1, <3>3, <3>4, <3>5
    <3>6. CASE ~err_code
      BY <3>1, <3>4, <3>6, Zenon
    <3> QED
      BY <3>5, <3>6, Zenon
  <2>2. \A x \in MainVars : x \in Usable
    BY <2>1, UsableIs, Orders
  <2> QED
    BY <2>1, <2>2, Frees
<1> QED
  BY <1>1, <1>2

\* The labels before the jump would have freed nothing.
LEMMA NothingBehind ==
  ASSUME NEW s \in 1 .. 12, s # 10, NEW x \in MainVars,
         AssignedAt(x) < s \/ (s = 4 /\ x = "pipeline_string")
  PROVE  FreedAt(x) >= JumpOf(s)
<1>1. CASE AssignedAt(x) < s
  BY <1>1, JumpsFit
<1>2. CASE s = 4
  BY <1>2, Orders DEF JumpOf
<1> QED
  BY <1>1, <1>2

\* What a label frees, no later one does.
LEMMA FreedOnce ==
  ASSUME NEW l \in 1 .. 9, NEW S
  PROVE  /\ (S \cap Remaining(l)) \ Cleanup[l].frees = S \cap Remaining(l + 1)
         /\ S \cap Cleanup[l].frees = {} => S \cap Remaining(l) = S \cap Remaining(l + 1)
<1>1. l \in 1 .. 10 /\ l + 1 \in 1 .. 10
  OBVIOUS
<1>2. /\ Remaining(l) \subseteq MainVars /\ Remaining(l + 1) \subseteq MainVars
      /\ \A x \in MainVars : /\ x \in Remaining(l) <=> FreedAt(x) >= l
                             /\ x \in Remaining(l + 1) <=> FreedAt(x) >= l + 1
                             /\ x \in Cleanup[l].frees <=> FreedAt(x) = l
                             /\ FreedAt(x) \in 1 .. 9
  BY <1>1, RemainingIs, Frees, Orders
<1>3. \A x : /\ x \in Remaining(l + 1) <=> x \in Remaining(l) /\ x \notin Cleanup[l].frees
  BY <1>2
<1> QED
  BY <1>3
-----------------------------------------------------------------------------
(* The inductive invariant.                                                *)

LEMMA KilledType ==
  ASSUME TypeOK, NEW set, Killed(set)
  PROVE  /\ interrupts' \in [Scripts -> Nat]
         /\ missed \subseteq missed' /\ missed' \subseteq Scripts
         /\ \A i \in Scripts :
              /\ interrupts'[i] >= interrupts[i]
              /\ interrupts'[i] <= interrupts[i] + 1
              /\ i \in set /\ child[i] = "exec" => interrupts'[i] > 0
              /\ i \in set /\ child[i] = "forked" => i \in missed'
<1>1. ASSUME NEW i \in Scripts
      PROVE  interrupts[i] + (IF i \in set /\ child[i] = "exec" THEN 1 ELSE 0) \in Nat
  BY DEF TypeOK
<1> QED
  BY <1>1 DEF Killed, Signalled, TypeOK

LEMMA SignalledType ==
  ASSUME TypeOK, NEW set, Signalled(set)
  PROVE  /\ interrupts' \in [Scripts -> Nat]
         /\ \A i \in Scripts : /\ interrupts'[i] >= interrupts[i]
                               /\ interrupts'[i] <= interrupts[i] + 1
<1>1. ASSUME NEW i \in Scripts
      PROVE  interrupts[i] + (IF i \in set /\ child[i] = "exec" THEN 1 ELSE 0) \in Nat
  BY DEF TypeOK
<1> QED
  BY <1>1 DEF Signalled, TypeOK

LEMMA StartupInit == Init => IInv
<1> SUFFICES ASSUME Init PROVE IInv
  OBVIOUS
<1>1. TypeOK
  <2>1. ctrl_c \in 0 .. MaxCtrlC /\ script \in 1 .. (NumScripts + 1)
    BY StartupAssumption DEF Init, StartupAssumption
  <2>2. step \in 1 .. (Len(Setup) + 1) /\ label \in 1 .. (Len(Cleanup) + 1)
    BY Lengths DEF Init
  <2> QED
    BY <2>1, <2>2 DEF Init, TypeOK, Finished
<1>2. StepsMatch /\ HeldMatches
  BY DEF Init, StepsMatch, HeldMatches
<1>3. ValidMatches
  <2>1. Acquired(1) = {"loop"}
    BY DEF Acquired
  <2>2. Acquired(1) \cap MainVars = {"loop"}
    BY <2>1 DEF MainVars
  <2>3. valid \cap MainVars = {"loop"}
    BY DEF Init, MainVars
  <2> QED
    BY <2>2, <2>3, FreedIsMainVars DEF Init, ValidMatches
<1>4. ScriptsTracked /\ InterruptsCounted
  BY DEF Init, ScriptsTracked, InterruptsCounted, ScriptsTold, Finished
<1> QED
  BY <1>1, <1>2, <1>3, <1>4 DEF IInv

LEMMA AcquireInv ==
  ASSUME IInv, Acquire
  PROVE  IInv'
<1>1. /\ step \in 1 .. 15 /\ pc = "setup" /\ pc' = "setup" /\ step' = step + 1
      /\ ~err_code /\ ~err_code'
      /\ UNCHANGED <<script, label, ctrl_c, child, interrupts, missed, quit>>
  <2>1. step \in 1 .. 16 /\ step <= 15 /\ pc = "setup" /\ step' = step + 1 /\ pc' = pc
    <3>1. step \in 1 .. 16
      BY Lengths DEF IInv, TypeOK
    <3>2. step <= 15 /\ pc = "setup" /\ step' = step + 1 /\ pc' = pc
      BY Lengths DEF Acquire
    <3> QED
      BY <3>1, <3>2
  <2>2. ~err_code /\ err_code' = err_code
    BY DEF IInv, StepsMatch, Acquire
  <2>3. UNCHANGED <<script, label, ctrl_c, child, interrupts, missed, quit>>
    BY DEF Acquire
  <2> QED
    BY <2>1, <2>2, <2>3
<1>2. TypeOK'
  <2>1. step' \in 1 .. (Len(Setup) + 1)
    BY <1>1, Lengths
  <2>2. handler' \in BOOLEAN
    <3>1. (handler \/ Setup[step].step = "SIGINT handler") \in BOOLEAN
      OBVIOUS
    <3> QED
      BY <3>1, Zenon DEF Acquire
  <2>3. UNCHANGED err_code
    BY DEF Acquire
  <2> QED
    BY <1>1, <2>1, <2>2, <2>3 DEF IInv, TypeOK
<1>3. StepsMatch'
  BY <1>1 DEF StepsMatch
<1>4. ValidMatches'
  <2>1. ASSUME NEW x \in MainVars
        PROVE  x \in valid' <=> x \in Acquired(step + 1)
    <3>1. x \in valid <=> x \in Acquired(step)
      BY <1>1, FreedIsMainVars DEF IInv, ValidMatches
    <3>2. x \in valid' <=> x \in valid \/ x \in Setup[step].gets
      BY <1>1, Drops DEF Acquire
    <3>3. x \in Setup[step].gets <=> AssignedAt(x) = step
      BY <1>1, Gets
    <3>4. /\ step \in 1 .. 16 /\ step + 1 \in 1 .. 16 /\ AssignedAt(x) \in 0 .. 15
      BY <1>1, Orders
    <3>5. /\ x \in Acquired(step) <=> AssignedAt(x) < step
          /\ x \in Acquired(step + 1) <=> AssignedAt(x) < step + 1
      BY <3>4, AcquiredIs
    <3> QED
      BY <3>1, <3>2, <3>3, <3>4, <3>5
  <2> QED
    BY <1>1, <2>1, FreedIsMainVars DEF ValidMatches
<1>5. HeldMatches'
  BY <1>1 DEF IInv, HeldMatches, Acquire, Excused, Failed
<1>6. ScriptsTracked' /\ InterruptsCounted'
  BY <1>1 DEF IInv, ScriptsTracked, InterruptsCounted, ScriptsTold, Finished
<1> QED
  BY <1>2, <1>3, <1>4, <1>5, <1>6 DEF IInv

LEMMA SetupFailsInv ==
  ASSUME IInv, SetupFails
  PROVE  IInv'
<1>1. /\ step \in 1 .. 15 /\ pc = "setup" /\ pc' = "cleanup" /\ Setup[step].else # "none"
      /\ ~err_code /\ err_code' /\ err_code' \in BOOLEAN /\ label' = FailureLabel(step)
      /\ UNCHANGED <<step, script, ctrl_c, child, interrupts, missed, quit, handler>>
  BY Lengths DEF IInv, TypeOK, StepsMatch, SetupFails
<1>2. /\ step \in 1 .. 12 /\ step # 10 /\ label' = JumpOf(step) /\ label' \in 1 .. 9
  <2>1. step \in 1 .. 12 /\ step # 10 /\ label' = JumpOf(step)
    BY <1>1, Jumps
  <2>2. "loop" \in MainVars
    BY DEF MainVars
  <2> QED
    BY <2>1, <2>2, JumpsFit
<1>3. TypeOK'
  BY <1>1, <1>2, Lengths DEF IInv, TypeOK
<1>4. StepsMatch'
  <2>1. FirstLabel' = label'
    BY <1>1, Lengths DEF FirstLabel, FailureLabel
  <2> QED
    BY <1>1, <1>2, <2>1 DEF StepsMatch
<1>5. ValidMatches'
  <2>1. ASSUME NEW x \in MainVars
        PROVE  x \in valid' <=> x \in Usable' /\ x \in Remaining(label')
    <3>1. x \in valid' <=> AssignedAt(x) < step \/ (step = 4 /\ x = "pipeline_string")
      <4>1. x \in valid <=> AssignedAt(x) < step
        BY <1>1, AcquiredIs, FreedIsMainVars DEF IInv, ValidMatches
      <4>2. x \in LeftNull(Setup[step].step) <=> step = 4 /\ x = "pipeline_string"
        BY <1>1, Jumps DEF LeftNull
      <4>3. x \in valid' <=> x \in valid \/ x \in LeftNull(Setup[step].step)
        BY <1>1, Drops DEF SetupFails
      <4> QED
        BY <4>1, <4>2, <4>3
    <3>2. x \in Usable' <=> AssignedAt(x) < step \/ (step = 4 /\ x = "pipeline_string")
      <4>1. x \in Acquired(step) <=> AssignedAt(x) < step
        BY <1>1, AcquiredIs
      <4>2. x \in LeftNull(Setup[step].step) <=> step = 4 /\ x = "pipeline_string"
        BY <1>1, Jumps DEF LeftNull
      <4>3. Usable' = Acquired(step) \cup LeftNull(Setup[step].step)
        <5>1. err_code' /\ (step <= Len(Setup))' /\ step' = step
          BY <1>1, Lengths
        <5> QED
          BY <5>1, Zenon DEF Usable, Acquired, LeftNull
      <4> QED
        BY <4>1, <4>2, <4>3
    <3>3. x \in Remaining(label') <=> FreedAt(x) >= JumpOf(step)
      BY <1>2, RemainingIs
    <3> QED
      BY <1>2, <3>1, <3>2, <3>3, NothingBehind
  <2> QED
    BY <1>1, <1>2, <2>1, RemainingIs, FreedIsMainVars DEF ValidMatches, Remaining
<1>6. HeldMatches'
  <2>1. PICK left \in LeftBehind(Setup[step].step) :
          held' = (held \cup left) \ Setup[step].drops
    BY DEF SetupFails
  <2>2. left \cap MainVars \subseteq Excused'
    <3>1. CASE step = 8
      <4>1. Setup[step].step = "csv elements"
        BY <1>1, <3>1, Jumps
      <4>2. left \subseteq CsvElements
        BY <2>1, <4>1 DEF LeftBehind
      <4>3. left \cap MainVars \subseteq {"csv_pipeline"}
        BY <4>2 DEF CsvElements, MainVars
      <4>4. err_code' /\ step' = step /\ step <= 15
        BY <1>1
      <4>5. Failed("csv elements")'
        BY <4>1, <4>4, Lengths DEF Failed
      <4> QED
        BY <4>3, <4>5 DEF Excused
    <3>2. CASE step # 8
      BY <1>1, <1>2, <2>1, <3>2, Jumps DEF LeftBehind, MainVars
    <3> QED
      BY <3>1, <3>2
  <2>3. held \cap MainVars \subseteq valid
    BY <1>1, FreedIsMainVars DEF IInv, HeldMatches, Excused, Failed
  <2>4. valid \cap MainVars \subseteq valid'
    BY <1>1, Drops DEF SetupFails
  <2> QED
    BY <2>1, <2>2, <2>3, <2>4, FreedIsMainVars DEF HeldMatches, Freed
<1>7. ScriptsTracked' /\ InterruptsCounted'
  <2>1. \A i \in Scripts : child[i] = "none" /\ interrupts[i] <= ctrl_c
    BY <1>1 DEF IInv, TypeOK, ScriptsTracked, InterruptsCounted, ScriptsTold, Finished
  <2> QED
    BY <1>1, <2>1 DEF IInv, TypeOK, ScriptsTracked, InterruptsCounted, ScriptsTold
<1> QED
  BY <1>3, <1>4, <1>5, <1>6, <1>7 DEF IInv

LEMMA ForkingInv ==
  ASSUME IInv, SetupDone \/ Fork \/ Run
  PROVE  IInv'
<1>1. CASE SetupDone
  <2>1. pc = "setup" /\ step = 16
    BY <1>1, Lengths DEF IInv, TypeOK, SetupDone
  <2>2. TypeOK' /\ HeldMatches'
    BY <1>1 DEF IInv, TypeOK, HeldMatches, Excused, Failed, SetupDone, memory
  <2>3. StepsMatch' /\ ValidMatches'
    BY <1>1, <2>1, Lengths DEF IInv, StepsMatch, ValidMatches, SetupDone, memory
  <2>4. ScriptsTracked' /\ InterruptsCounted'
    BY <1>1, <2>1 DEF IInv, SetupDone, ScriptsTracked, InterruptsCounted, ScriptsTold,
                      Finished
  <2> QED
    BY <2>2, <2>3, <2>4 DEF IInv
<1>2. CASE Fork
  <2>1. TypeOK'
    BY <1>2, StartupAssumption DEF StartupAssumption, IInv, TypeOK, Fork, Scripts, memory
  <2>2. StepsMatch' /\ ValidMatches' /\ HeldMatches'
    BY <1>2 DEF IInv, StepsMatch, ValidMatches, HeldMatches, Excused, Failed, Fork, memory
  <2>3. ScriptsTracked'
    BY <1>2 DEF IInv, TypeOK, ScriptsTracked, ScriptsTold, Fork, Scripts
  <2>4. InterruptsCounted'
    BY <1>2 DEF IInv, InterruptsCounted, ScriptsTold, Finished, Fork
  <2> QED
    BY <2>1, <2>2, <2>3, <2>4 DEF IInv
<1>3. CASE Run
  <2>1. TypeOK'
    BY <1>3 DEF IInv, TypeOK, Run, memory
  <2>2. StepsMatch' /\ ValidMatches' /\ HeldMatches'
    BY <1>3 DEF IInv, StepsMatch, ValidMatches, HeldMatches, Excused, Failed, Run, memory
  <2>3. ScriptsTracked' /\ InterruptsCounted'
    BY <1>3 DEF IInv, ScriptsTracked, InterruptsCounted, ScriptsTold, Finished, Run
  <2> QED
    BY <2>1, <2>2, <2>3 DEF IInv
<1> QED
  BY <1>1, <1>2, <1>3

\* All that the labels free was assigned before the first fork.
LEMMA AllAcquired ==
  ASSUME TypeOK, step = 16, NEW x \in MainVars
  PROVE  x \in Acquired(step) /\ x \in Usable
  BY AcquiredIs, UsableIs, Orders

LEMMA ForkFailsInv ==
  ASSUME IInv, ForkFails
  PROVE  IInv'
<1>1. /\ pc = "fork" /\ script \in Scripts /\ pc' = "cleanup" /\ label' = 2 /\ step = 16
      /\ err_code' /\ UNCHANGED <<step, script, child, ctrl_c, handler, quit>>
      /\ Killed(1 .. (script - 1))
  <2>1. step = 16 /\ pc = "fork"
    BY Lengths DEF IInv, StepsMatch, ForkFails
  <2> QED
    BY <2>1, LabelsInOrder DEF ForkFails, EarlierSignalled
<1>2. TypeOK'
  <2>1. label' \in 1 .. (Len(Cleanup) + 1) /\ err_code' \in BOOLEAN
    BY <1>1, Lengths DEF ForkFails
  <2>2. interrupts' \in [Scripts -> Nat] /\ missed' \subseteq Scripts
    BY <1>1, KilledType DEF IInv
  <2> QED
    BY <1>1, <2>1, <2>2 DEF IInv, TypeOK
<1>3. StepsMatch'
  <2>1. FirstLabel' = 2
    BY <1>1, Lengths, LabelsInOrder DEF FirstLabel
  <2> QED
    BY <1>1, <2>1, Lengths DEF StepsMatch
<1>4. ValidMatches'
  <2>1. ASSUME NEW x \in MainVars
        PROVE  x \in valid' <=> x \in Usable' /\ x \in Remaining(label')
    <3>1. x \in valid
      BY <1>1, <2>1, AllAcquired, FreedIsMainVars DEF IInv, ValidMatches
    <3>2. x \in Usable'
      <4>1. Usable' = Acquired(step)
        BY <1>1, Lengths DEF Usable, Acquired
      <4> QED
        BY <1>1, <4>1, AllAcquired DEF IInv
    <3>3. x \in Remaining(2) <=> FreedAt(x) >= 2
      BY RemainingIs
    <3>4. x = "child_processes" <=> FreedAt(x) = 1
      BY DEF MainVars, FreedAt
    <3>5. valid' = valid \ {"child_processes"}
      BY DEF ForkFails
    <3> QED
      BY <1>1, <3>1, <3>2, <3>3, <3>4, <3>5, Orders
  <2> QED
    BY <1>1, <2>1, RemainingIs, FreedIsMainVars DEF ValidMatches, Remaining
<1>5. HeldMatches'
  <2>1. held \cap MainVars \subseteq valid
    BY <1>1, Lengths, FreedIsMainVars DEF IInv, HeldMatches, Excused, Failed
  <2>2. "script_args" \notin MainVars
    BY DEF MainVars
  <2> QED
    BY <2>1, <2>2, FreedIsMainVars DEF ForkFails, HeldMatches, Freed
<1>6. ScriptsTracked'
  <2> SUFFICES ASSUME NEW i \in Scripts, child[i] \in {"forked", "exec"}
               PROVE  interrupts'[i] > 0 \/ i \in missed'
    BY <1>1, Lengths DEF ScriptsTracked
  <2>1. i \in 1 .. (script - 1)
    BY <1>1 DEF IInv, ScriptsTracked, Scripts
  <2> QED
    BY <1>1, <2>1, KilledType DEF IInv
<1>7. InterruptsCounted'
  <2> SUFFICES ASSUME NEW i \in Scripts PROVE interrupts'[i] <= ctrl_c' + 1
    BY <1>1 DEF InterruptsCounted, ScriptsTold
  <2>1. interrupts[i] <= ctrl_c
    BY <1>1 DEF IInv, TypeOK, InterruptsCounted, ScriptsTold, Finished
  <2>2. interrupts'[i] <= interrupts[i] + 1
    BY <1>1, KilledType DEF IInv
  <2> QED
    BY <1>1, <1>2, <2>1, <2>2 DEF IInv, TypeOK
<1> QED
  BY <1>2, <1>3, <1>4, <1>5, <1>6, <1>7 DEF IInv

LEMMA LoopEndsInv ==
  ASSUME IInv, LoopEnds
  PROVE  IInv'
<1>1. /\ pc = "run" /\ pc' = "cleanup" /\ label' = 1 /\ step = 16 /\ ~err_code
      /\ err_code' = err_code
      /\ UNCHANGED <<step, script, memory, handler, quit, ctrl_c, child, interrupts, missed>>
  <2>1. step = 16 /\ ~err_code
    BY Lengths DEF IInv, StepsMatch, LoopEnds
  <2> QED
    BY <2>1 DEF LoopEnds
<1>2. TypeOK' /\ HeldMatches'
  <2>1. TypeOK'
    BY <1>1, Lengths DEF IInv, TypeOK
  <2>2. HeldMatches'
    BY <1>1 DEF IInv, HeldMatches, Excused, Failed, memory
  <2> QED
    BY <2>1, <2>2
<1>3. StepsMatch'
  BY <1>1, Lengths DEF StepsMatch, FirstLabel
<1>4. ValidMatches'
  <2>1. ASSUME NEW x \in MainVars
        PROVE  x \in valid /\ x \in Usable' /\ x \in Remaining(1)
    <3>1. x \in valid
      BY <1>1, <2>1, AllAcquired, FreedIsMainVars DEF IInv, ValidMatches
    <3>2. Usable' = Acquired(step)
      BY <1>1 DEF Usable, Acquired
    <3>3. x \in Acquired(step)
      BY <1>1, AllAcquired DEF IInv
    <3> QED
      BY <3>1, <3>2, <3>3, RemainingIs, Orders
  <2>2. Remaining(1) \subseteq MainVars
    BY RemainingIs
  <2> QED
    BY <1>1, <2>1, <2>2, FreedIsMainVars DEF ValidMatches, Remaining, memory, Freed
<1>5. ScriptsTracked' /\ InterruptsCounted'
  BY <1>1 DEF IInv, ScriptsTracked, InterruptsCounted, ScriptsTold, Finished
<1> QED
  BY <1>2, <1>3, <1>4, <1>5 DEF IInv

LEMMA OnlyFirstLabelKills ==
  ASSUME NEW l \in 1 .. 9
  PROVE  KillsScripts(l) <=> l = 1
<1>1. Cleanup[1].label = "cleanup_hardware_scripts"
  BY DEF Cleanup
<1>2. Index(Cleanup[l].label) = l /\ Index(Cleanup[1].label) = 1
  BY IndexOfLabel
<1> QED
  BY <1>1, <1>2 DEF KillsScripts

\* The next label finds what this one has left, whether it freed what it uses or
\* found nothing.
LEMMA NextLabel ==
  ASSUME IInv, pc = "cleanup", label \in 1 .. 9, label' = label + 1,
         UNCHANGED <<step, err_code>>,
         \/ UsesWhatIsValid(label) /\ valid' = valid \ Cleanup[label].frees
         \/ ~UsesWhatIsValid(label) /\ valid' = valid,
         pc' = "cleanup"
  PROVE  StepsMatch' /\ ValidMatches'
<1>1. StepsMatch'
  <2>1. FirstLabel' = FirstLabel
    BY DEF FirstLabel, FailureLabel
  <2>2. FirstLabel <= label /\ FirstLabel \in Int
    <3>1. FirstLabel <= label
      BY DEF IInv, StepsMatch
    <3>2. CASE err_code /\ step <= 15
      <4>1. step \in 1 .. 15 /\ Setup[step].else # "none"
        BY <3>2, Lengths DEF IInv, TypeOK, StepsMatch
      <4>2. FirstLabel = JumpOf(step) /\ step \in 1 .. 12 /\ step # 10
        BY <3>2, <4>1, Jumps, Lengths DEF FirstLabel
      <4> QED
        BY <3>1, <4>2 DEF JumpOf
    <3>3. CASE ~(err_code /\ step <= 15)
      BY <3>1, <3>3, Lengths, LabelsInOrder DEF FirstLabel
    <3> QED
      BY <3>2, <3>3
  <2> QED
    BY <2>1, <2>2 DEF IInv, StepsMatch
<1>2. ValidMatches'
  <2>1. valid \cap Freed = Usable \cap Remaining(label)
    BY DEF IInv, ValidMatches
  <2>2. Usable' = Usable
    BY DEF Usable, Acquired
  <2> SUFFICES valid' \cap Freed = Usable \cap Remaining(label + 1)
    BY <2>2 DEF ValidMatches, Remaining, Freed
  <2>3. CASE UsesWhatIsValid(label)
    <3>1. valid' \cap Freed = (valid \cap Freed) \ Cleanup[label].frees
      BY <2>3
    <3> QED
      BY <2>1, <3>1, FreedOnce
  <2>4. CASE ~UsesWhatIsValid(label)
    <3>1. Usable \cap Cleanup[label].frees = {}
      <4>1. ~(Cleanup[label].frees \subseteq Usable)
        <5>1. Cleanup[label].frees \subseteq Remaining(label) \cap Freed
          BY Frees, RemainingIs, FreedIsMainVars
        <5> QED
          BY <2>1, <2>4, <5>1 DEF UsesWhatIsValid
      <4> QED
        BY <4>1, LabelsFind DEF IInv, StepsMatch
    <3> QED
      BY <2>1, <2>4, <3>1, FreedOnce
  <2> QED
    BY <2>3, <2>4
<1> QED
  BY <1>1, <1>2

LEMMA LabelInv ==
  ASSUME IInv, Label
  PROVE  IInv'
<1>1. /\ label \in 1 .. 9 /\ pc = "cleanup" /\ label' = label + 1
      /\ UsesWhatIsValid(label) /\ valid' = valid \ Cleanup[label].frees
      /\ held' = held \ Cleanup[label].frees
      /\ UNCHANGED <<pc, step, script, err_code, handler, quit, ctrl_c, child>>
  BY Lengths DEF IInv, TypeOK, Label
<1>2. Killed(IF label = 1 THEN Scripts ELSE {})
  BY <1>1, OnlyFirstLabelKills DEF Label
<1>3. TypeOK'
  <2>1. interrupts' \in [Scripts -> Nat] /\ missed' \subseteq Scripts
    BY <1>2, KilledType DEF IInv
  <2> QED
    BY <1>1, <2>1, Lengths DEF IInv, TypeOK
<1>4. StepsMatch' /\ ValidMatches'
  BY <1>1, NextLabel
<1>5. HeldMatches'
  BY <1>1 DEF IInv, HeldMatches, Excused, Failed
<1>6. CASE label = 1
  <2>1. \A i \in Scripts :
          child[i] \in {"forked", "exec"} => interrupts'[i] > 0 \/ i \in missed'
    BY <1>2, <1>6, KilledType DEF IInv
  <2>2. ScriptsTracked'
    BY <1>1, <2>1 DEF IInv, ScriptsTracked
  <2>3. ASSUME NEW i \in Scripts PROVE interrupts'[i] <= ctrl_c' + 1
    <3>1. interrupts[i] <= ctrl_c
      BY <1>1, <1>6 DEF IInv, TypeOK, InterruptsCounted, ScriptsTold, Finished
    <3>2. interrupts'[i] <= interrupts[i] + 1
      BY <1>2, KilledType DEF IInv
    <3> QED
      BY <1>1, <1>3, <3>1, <3>2 DEF IInv, TypeOK
  <2>4. InterruptsCounted'
    BY <1>1, <1>6, <2>3 DEF InterruptsCounted, ScriptsTold
  <2> QED
    BY <1>3, <1>4, <1>5, <2>2, <2>4 DEF IInv
<1>7. CASE label # 1
  <2>1. \A i \in Scripts : interrupts'[i] = interrupts[i]
    BY <1>2, <1>7 DEF Killed, Signalled, IInv, TypeOK
  <2>2. missed' = missed
    BY <1>2, <1>7 DEF Killed
  <2>3. ScriptsTracked' /\ InterruptsCounted'
    BY <1>1, <1>7, <2>1, <2>2
    DEF IInv, TypeOK, ScriptsTracked, InterruptsCounted, ScriptsTold, Finished
  <2> QED
    BY <1>3, <1>4, <1>5, <2>3 DEF IInv
<1> QED
  BY <1>6, <1>7

\* No script has been forked when a label finds nothing.
LEMMA NoScriptsYet ==
  ASSUME IInv, pc = "cleanup", label \in 1 .. 9, ~UsesWhatIsValid(label)
  PROVE  \A i \in Scripts : child[i] = "none"
<1>1. WrongJump(label)
  <2>1. ~WrongJump(label) => Cleanup[label].frees \subseteq Usable
    BY LabelsFind DEF IInv, StepsMatch
  <2>2. Cleanup[label].frees \subseteq Remaining(label) \cap Freed
    BY Frees, RemainingIs, FreedIsMainVars
  <2> QED
    BY <2>1, <2>2 DEF IInv, ValidMatches, UsesWhatIsValid
<1>2. err_code /\ step <= Len(Setup)
  BY <1>1, Zenon DEF WrongJump, Failed
<1> QED
  BY <1>2 DEF IInv, ScriptsTracked

LEMMA LabelUndefinedInv ==
  ASSUME IInv, LabelUndefined
  PROVE  IInv'
<1>1. /\ label \in 1 .. 9 /\ pc = "cleanup" /\ ~UsesWhatIsValid(label)
      /\ held' \subseteq held
      /\ UNCHANGED <<step, script, valid, err_code, handler, quit, ctrl_c, child,
                     interrupts, missed>>
  BY Lengths DEF IInv, TypeOK, LabelUndefined
<1>2. (pc' = "cleanup" /\ label' = label + 1) \/ (pc' = "crashed" /\ label' = label)
  BY <1>1 DEF LabelUndefined
<1>3. \A i \in Scripts : child[i] = "none"
  BY <1>1, NoScriptsYet
<1>4. TypeOK'
  BY <1>1, <1>2, Lengths DEF IInv, TypeOK, Finished
<1>5. StepsMatch' /\ ValidMatches'
  <2>1. CASE pc' = "cleanup"
    BY <1>1, <1>2, <2>1, NextLabel
  <2>2. CASE pc' = "crashed"
    BY <1>1, <2>2 DEF IInv, StepsMatch, ValidMatches
  <2> QED
    BY <1>2, <2>1, <2>2
<1>6. HeldMatches'
  BY <1>1 DEF IInv, HeldMatches, Excused, Failed
<1>7. ScriptsTracked'
  BY <1>1, <1>2, <1>3 DEF IInv, ScriptsTracked
<1>8. InterruptsCounted'
  BY <1>1, <1>2 DEF IInv, TypeOK, InterruptsCounted, ScriptsTold, Finished
<1> QED
  BY <1>4, <1>5, <1>6, <1>7, <1>8 DEF IInv

LEMMA ExitInv ==
  ASSUME IInv, Exit
  PROVE  IInv'
<1>1. /\ label = 10 /\ pc = "cleanup" /\ pc' = "exited"
      /\ UNCHANGED <<step, script, label, memory, err_code, handler, quit, ctrl_c,
                     child, interrupts, missed>>
  BY Lengths DEF IInv, TypeOK, Exit
<1>2. TypeOK'
  BY <1>1 DEF IInv, TypeOK, Finished
<1>3. StepsMatch' /\ HeldMatches'
  BY <1>1 DEF IInv, StepsMatch, HeldMatches, Excused, Failed, memory
<1>4. ValidMatches'
  <2>1. Remaining(10) = {}
    BY RemainingIs, Orders
  <2> QED
    BY <1>1, <2>1 DEF IInv, ValidMatches, memory
<1>5. ScriptsTracked' /\ InterruptsCounted'
  BY <1>1 DEF IInv, TypeOK, ScriptsTracked, InterruptsCounted, ScriptsTold, Finished
<1> QED
  BY <1>2, <1>3, <1>4, <1>5 DEF IInv

LEMMA ExecInv ==
  ASSUME IInv, NEW i \in Scripts, Exec(i)
  PROVE  IInv'
<1>1. UNCHANGED <<pc, step, script, label, valid, held, err_code, handler, quit,
                  ctrl_c, interrupts, missed>>
  BY DEF Exec, main, place, memory
<1>2. TypeOK'
  BY <1>1 DEF IInv, TypeOK, Exec
<1>3. StepsMatch' /\ ValidMatches' /\ HeldMatches' /\ InterruptsCounted'
  BY <1>1
  DEF IInv, StepsMatch, FirstLabel, FailureLabel, ValidMatches, Usable, Acquired,
      HeldMatches, Excused, Failed, InterruptsCounted, ScriptsTold, Remaining
<1>4. ScriptsTracked'
  BY <1>1 DEF IInv, TypeOK, ScriptsTracked, ScriptsTold, Exec
<1> QED
  BY <1>2, <1>3, <1>4 DEF IInv

LEMMA CtrlCInv ==
  ASSUME IInv, CtrlC
  PROVE  IInv'
<1>1. /\ Signalled(Scripts) /\ ctrl_c' = ctrl_c + 1 /\ pc' \in {pc, "killed", "crashed"}
      /\ pc \notin Finished
      /\ UNCHANGED <<step, script, label, valid, held, err_code, handler, child, missed>>
  BY DEF CtrlC, memory
<1>2. TypeOK'
  <2>1. ctrl_c' \in 0 .. MaxCtrlC
    BY StartupAssumption DEF StartupAssumption, IInv, TypeOK, CtrlC
  <2>2. interrupts' \in [Scripts -> Nat]
    BY <1>1, SignalledType DEF IInv
  <2>3. quit' \in BOOLEAN /\ handler' \in BOOLEAN /\ err_code' \in BOOLEAN
    BY <1>1 DEF IInv, TypeOK, CtrlC
  <2> QED
    BY <1>1, <2>1, <2>2, <2>3 DEF IInv, TypeOK, Finished
<1>3. StepsMatch' /\ ValidMatches' /\ HeldMatches'
  BY <1>1
  DEF IInv, StepsMatch, FirstLabel, FailureLabel, ValidMatches, Usable, Acquired,
      HeldMatches, Excused, Failed, Remaining, Finished
<1>4. ScriptsTracked'
  BY <1>1, SignalledType DEF IInv, TypeOK, ScriptsTracked, ScriptsTold, Finished
<1>5. InterruptsCounted'
  <2> SUFFICES ASSUME NEW i \in Scripts
               PROVE  interrupts'[i] <=
                        ctrl_c' + IF (ScriptsTold \/ pc \in Finished)' THEN 1 ELSE 0
    BY DEF InterruptsCounted
  <2>1. interrupts'[i] <= interrupts[i] + 1
    BY <1>1, SignalledType DEF IInv
  <2>2. interrupts[i] <= ctrl_c + IF ScriptsTold \/ pc \in Finished THEN 1 ELSE 0
    BY DEF IInv, InterruptsCounted
  <2>3. ScriptsTold \/ pc \in Finished => (ScriptsTold \/ pc \in Finished)'
    BY <1>1 DEF ScriptsTold, Finished
  <2>4. interrupts[i] \in Nat /\ interrupts'[i] \in Nat /\ ctrl_c \in Nat
    BY <1>2 DEF IInv, TypeOK
  <2> QED
    BY <1>1, <2>1, <2>2, <2>3, <2>4
<1> QED
  BY <1>2, <1>3, <1>4, <1>5 DEF IInv

LEMMA StartupNext == IInv /\ [Next]_vars => IInv'
<1> SUFFICES ASSUME IInv, [Next]_vars PROVE IInv'
  OBVIOUS
<1>1. CASE MainStep
  BY <1>1, AcquireInv, SetupFailsInv, ForkingInv, ForkFailsInv, LoopEndsInv,
     LabelInv, LabelUndefinedInv, ExitInv DEF MainStep
<1>2. CASE UNCHANGED vars
  BY <1>2
  DEF vars, main, place, memory, IInv, TypeOK, StepsMatch, FirstLabel, FailureLabel,
      ValidMatches, Usable, Acquired, Remaining, HeldMatches, Excused, Failed,
      ScriptsTracked, InterruptsCounted, ScriptsTold
<1> QED
  BY <1>1, <1>2, ExecInv, CtrlCInv DEF Next

LEMMA StartupInv == Spec => []IInv
  BY StartupInit, StartupNext, PTL DEF Spec
-----------------------------------------------------------------------------
(* Theorems.                                                               *)

\* main.c: wherever the setup or a fork fails and whenever a signal ends the loop,
\* each label uses variables that were assigned and that nothing has freed, and
\* none of them behind the two wrong jumps (main.c:143 and main.c:258).
THEOREM LabelsUseTheirOwn == Spec => []LabelsUseWhatIsValid
<1>1. ASSUME IInv, pc = "cleanup", label <= Len(Cleanup)
      PROVE  UsesWhatIsValid(label) <=> ~WrongJump(label)
  <2>1. label \in 1 .. 9
    BY <1>1, Lengths DEF IInv, TypeOK
  <2>2. /\ ~WrongJump(label) => Cleanup[label].frees \subseteq Usable
        /\ WrongJump(label) => Cleanup[label].frees \cap Usable = {}
    BY <1>1, <2>1, LabelsFind DEF IInv, StepsMatch
  <2>3. Cleanup[label].frees \subseteq Remaining(label) \cap Freed
    BY <2>1, Frees, RemainingIs, FreedIsMainVars
  <2>4. valid \cap Freed = Usable \cap Remaining(label)
    BY <1>1 DEF IInv, ValidMatches
  <2>5. Cleanup[label].frees # {}
    BY <2>1 DEF Cleanup
  <2> QED
    BY <2>2, <2>3, <2>4, <2>5 DEF UsesWhatIsValid
<1>2. IInv => LabelsUseWhatIsValid
  BY <1>1 DEF LabelsUseWhatIsValid
<1> QED
  BY <1>2, StartupInv, PTL

\* main.c: when main has returned, from whichever failure, everything that a label
\* frees has been freed, for any number of scripts and any steps that fail.
THEOREM SetupIsUndone == Spec => []CleanupIsComplete
<1>1. IInv => CleanupIsComplete
  BY DEF IInv, ValidMatches, HeldMatches, CleanupIsComplete
<1> QED
  BY <1>1, StartupInv, PTL

\* main.c:325-331 and main.c:303-311: no script runs on after the camera, unless
\* the SIGINT of main reached it before its execvp; whenever children exec.
THEOREM ScriptsEndWithCamera == Spec => []NoScriptOutlives
<1>1. IInv => NoScriptOutlives
  BY DEF IInv, ScriptsTracked, ScriptsTold, NoScriptOutlives
<1> QED
  BY <1>1, StartupInv, PTL

\* One Ctrl-C never raises a third KeyboardInterrupt in a script.
THEOREM OneCtrlCIsTwoInterrupts == Spec => []AtMostTwoInterrupts
<1>1. IInv => AtMostTwoInterrupts
  BY DEF IInv, TypeOK, InterruptsCounted, AtMostTwoInterrupts
<1> QED
  BY <1>1, StartupInv, PTL
-----------------------------------------------------------------------------
(* SensorSetup: operators.                                                 *)

\* Settings that are changed are those of the same camera.
LEMMA SettingsChanged ==
  ASSUME NEW shot \in Shots, NEW exposure_time \in Numbers, NEW gain \in Numbers
  PROVE  /\ [shot EXCEPT !.exposure_time = exposure_time] \in Shots
         /\ [shot EXCEPT !.exposure_time = exposure_time, !.gain = gain] \in Shots
         /\ [shot EXCEPT !.exposure_time = exposure_time].model = shot.model
         /\ [shot EXCEPT !.exposure_time = exposure_time, !.gain = gain].model
              = shot.model
  BY DEF Shots

\* Whether a camera can be set up does not depend on its settings.
LEMMA SetupOfModel ==
  ASSUME NEW shot \in Shots, NEW other \in Shots, shot.model = other.model,
         SensorSetupInfo(shot) # {}
  PROVE  SensorSetupInfo(other) # {}
  BY CamerasAssumption DEF SensorSetupInfo

\* What a camera reports, and nothing of a place without a camera.
LEMMA NoCameraNoSetup == SensorSetupInfo(NoCamera) = {}
  BY DEF SensorSetupInfo

LEMMA SetupOfShot ==
  ASSUME NEW shot \in Shots, NEW info \in SensorSetupInfo(shot)
  PROVE  /\ info.name = shot.model.name
         /\ info.width = Resolution(shot.model.name).width
         /\ info.height = Resolution(shot.model.name).height
         /\ info.caps_type = CapsType(shot.model.filter)
         /\ info.pixel_color_filter = ColorFilter(shot.model.filter)
         /\ Whole(info).name = info.name
         /\ Whole(info).width = info.width
         /\ Whole(info).height = info.height
         /\ Whole(info).caps_type = info.caps_type
         /\ Whole(info).pixel_color_filter = info.pixel_color_filter
         /\ Whole(info).exposure_time \in Numbers
         /\ Whole(info).gain \in Numbers
  BY NumbersAssumption DEF SensorSetupInfo, Whole, Shots
\* A comparison of names has the same outcome with any settings.
LEMMA NameOfModel ==
  ASSUME NEW shot \in Shots, NEW other \in Shots, shot.model = other.model,
         NEW current \in SensorSetupInfo(shot), NEW now \in SensorSetupInfo(other),
         NEW read, SameName(read, current)
  PROVE  SameName(read, now)
<1>1. current.name = now.name
  BY SetupOfShot
<1> QED BY <1>1 DEF SameName
-----------------------------------------------------------------------------
(* The inductive invariant.                                                *)

\* A file holds something to read only when it was written or edited.
LEMMA TextToRead ==
  ASSUME FileInv, ~sensor_json.edited, NEW read \in Load(sensor_json.text)
  PROVE  /\ sensor_json.of \in Shots
         /\ \E info \in SensorSetupInfo(sensor_json.of) :
              read = [settings |-> Whole(info), nvmm |-> FALSE]
<1>1. sensor_json.text # <<>>
  BY TextAssumption
<1>2. PICK info \in SensorSetupInfo(sensor_json.of) :
        sensor_json.of \in Shots /\ sensor_json.text \in Beginnings(Written(info))
  BY <1>1 DEF FileInv
<1>3. Load(sensor_json.text) \in {{}, {[settings |-> Whole(info), nvmm |-> FALSE]}}
  BY <1>2, TextAssumption
<1> QED BY <1>2, <1>3

\* Whatever a file holds, what is read from it has settings of some value.
LEMMA NumbersRead ==
  ASSUME FileInv, NEW read \in Load(sensor_json.text)
  PROVE  {read.settings.exposure_time, read.settings.gain} \subseteq Numbers
<1>1. CASE sensor_json.edited
  BY <1>1, TextAssumption DEF FileInv
<1>2. CASE ~sensor_json.edited
  <2>1. PICK info \in SensorSetupInfo(sensor_json.of) :
          /\ sensor_json.of \in Shots
          /\ read = [settings |-> Whole(info), nvmm |-> FALSE]
    BY <1>2, TextToRead
  <2> QED BY <2>1, SetupOfShot
<1> QED BY <1>1, <1>2

\* An edit is one of a text that a file can hold.
LEMMA TextHeld ==
  ASSUME FileInv, ~sensor_json.edited
  PROVE  sensor_json.text \in Texts
<1>1. CASE sensor_json.text = <<>>
  BY <1>1 DEF Texts
<1>2. CASE sensor_json.text # <<>>
  <2>1. PICK info \in SensorSetupInfo(sensor_json.of) :
          sensor_json.of \in Shots /\ sensor_json.text \in Beginnings(Written(info))
    BY <1>2 DEF FileInv
  <2> QED BY <2>1 DEF Texts
<1> QED BY <1>1, <1>2

LEMMA InitHolds == SetupInit => SetupIInv
  BY CamerasAssumption
  DEF SetupInit, SetupIInv, BusInv, FileInv, ProgramInv, StreamInv, NoFile

LEMMA AttachHolds ==
  ASSUME SetupIInv, NEW camera \in Cameras \cup {NoCamera}, Attach(camera)
  PROVE  SetupIInv'
  BY CamerasAssumption
  DEF Attach, SetupIInv, BusInv, FileInv, ProgramInv, StreamInv

LEMMA SetupOpensHolds ==
  ASSUME SetupIInv, SetupOpens
  PROVE  SetupIInv'
<1>1. attached \in Shots
  BY NoCameraNoSetup DEF SetupOpens, SetupIInv, BusInv
<1>2. FileInv'
  BY <1>1 DEF SetupOpens, Opened, FileInv
<1> QED BY <1>2 DEF SetupOpens, SetupIInv, BusInv, ProgramInv, StreamInv

LEMMA SetupWritesHolds ==
  ASSUME SetupIInv, SetupWrites
  PROVE  SetupIInv'
<1>0. PICK info \in SensorSetupInfo(setup) :
        \E text \in Beginnings(Written(info)) :
          sensor_json' = [sensor_json EXCEPT !.text = text]
  BY DEF SetupWrites
<1>1. PICK text \in Beginnings(Written(info)) :
        sensor_json' = [sensor_json EXCEPT !.text = text]
  BY <1>0
<1>2. setup \in Shots /\ sensor_json = [text |-> <<>>, of |-> setup, edited |-> FALSE]
  BY DEF SetupIInv, FileInv, SetupWrites
<1>3. sensor_json' = [text |-> text, of |-> setup, edited |-> FALSE]
  BY <1>1, <1>2
<1>4. FileInv'
  BY <1>2, <1>3 DEF SetupWrites, FileInv
<1> QED BY <1>4 DEF SetupWrites, SetupIInv, BusInv, ProgramInv, StreamInv

LEMMA EditFileHolds ==
  ASSUME SetupIInv, EditFile
  PROVE  SetupIInv'
<1>1. PICK edit \in Edited(sensor_json.text) :
        sensor_json' = [sensor_json EXCEPT !.text = edit, !.edited = TRUE]
  BY DEF EditFile
<1>2. sensor_json.text \in Texts
  BY TextHeld DEF EditFile, SetupIInv
<1>3. sensor_json' = [text |-> edit, of |-> sensor_json.of, edited |-> TRUE]
  BY <1>1 DEF SetupIInv, FileInv
<1>4. FileInv'
  BY <1>2, <1>3 DEF EditFile, FileInv
<1> QED BY <1>4 DEF EditFile, SetupIInv, BusInv, ProgramInv, StreamInv

LEMMA StartProgramHolds ==
  ASSUME SetupIInv, StartProgram
  PROVE  SetupIInv'
<1>1. PICK read \in Load(sensor_json.text) :
        loaded' = [info |-> {read}, of |-> sensor_json.of,
                   edited |-> sensor_json.edited]
  BY DEF StartProgram
<1>2. {read.settings.exposure_time, read.settings.gain} \subseteq Numbers
  BY NumbersRead DEF SetupIInv
<1>3. ~loaded'.edited =>
        /\ loaded'.of \in Shots
        /\ \E info \in SensorSetupInfo(loaded'.of) :
             loaded'.info = {[settings |-> Whole(info), nvmm |-> FALSE]}
  BY <1>1, TextToRead DEF SetupIInv
<1>4. ProgramInv'
  BY <1>1, <1>2, <1>3 DEF StartProgram, ProgramInv
<1>5. media' = NoMedia
  BY DEF StartProgram, SetupIInv, ProgramInv
<1>6. UNCHANGED <<attached, sensor_json, setup>>
  BY DEF StartProgram
<1>7. BusInv' /\ FileInv'
  BY <1>5, <1>6 DEF SetupIInv, BusInv, FileInv
<1>8. StreamInv'
  BY <1>5 DEF StreamInv
<1> QED BY <1>4, <1>7, <1>8 DEF SetupIInv

LEMMA ViewerConnectsHolds ==
  ASSUME SetupIInv, ViewerConnects
  PROVE  SetupIInv'
<1>1. PICK read \in loaded.info, current \in SensorSetupInfo(attached),
           record \in Recorded(attached) :
        /\ SameName(read, current)
        /\ media' = [caps |-> Caps(read), record |-> record]
        /\ attached' = [attached EXCEPT
                         !.exposure_time = read.settings.exposure_time,
                         !.gain = read.settings.gain]
  BY DEF ViewerConnects
<1>2. attached \in Shots
  BY <1>1, NoCameraNoSetup DEF SetupIInv, BusInv
<1>3. {read.settings.exposure_time, read.settings.gain} \subseteq Numbers
  BY <1>1 DEF ViewerConnects, SetupIInv, ProgramInv
<1>4. attached' \in Shots /\ attached'.model = attached.model
  <2> DEFINE exposure_time == read.settings.exposure_time
             gain == read.settings.gain
  <2>1. exposure_time \in Numbers /\ gain \in Numbers
    BY <1>3
  <2>2. attached' = [attached EXCEPT !.exposure_time = exposure_time, !.gain = gain]
    BY <1>1
  <2> HIDE DEF exposure_time, gain
  <2> QED BY <1>2, <2>1, <2>2, SettingsChanged
<1>5. PICK now \in SensorSetupInfo(attached') : TRUE
  BY <1>1, <1>2, <1>4, SetupOfModel
<1>6. SameName(read, now)
  BY <1>1, <1>2, <1>4, <1>5, NameOfModel
<1>7. StreamInv'
  BY <1>1, <1>4, <1>5, <1>6 DEF ViewerConnects, StreamInv, SameName, Caps
<1> QED BY <1>4, <1>7 DEF ViewerConnects, SetupIInv, BusInv, FileInv, ProgramInv

LEMMA SetSensorExposureTimeHolds ==
  ASSUME SetupIInv, NEW microseconds \in ExposureTimes,
         SetSensorExposureTime(microseconds)
  PROVE  SetupIInv'
<1>1. PICK read \in loaded.info, current \in SensorSetupInfo(attached) :
        SameName(read, current) /\ media.caps = Caps(read)
  BY DEF SetSensorExposureTime, SetupIInv, StreamInv
<1>2. attached \in Shots
  BY DEF SetSensorExposureTime, SetupIInv, StreamInv
<1>3. attached' \in Shots /\ attached'.model = attached.model
  BY <1>2, SettingsChanged, NumbersAssumption DEF SetSensorExposureTime, Shots
<1>4. PICK now \in SensorSetupInfo(attached') : TRUE
  BY <1>1, <1>2, <1>3, SetupOfModel
<1>5. SameName(read, now)
  BY <1>1, <1>2, <1>3, <1>4, NameOfModel
<1>6. StreamInv'
  BY <1>1, <1>3, <1>4, <1>5 DEF SetSensorExposureTime, StreamInv, SameName, Caps
<1> QED BY <1>3, <1>6 DEF SetSensorExposureTime, SetupIInv, BusInv, FileInv, ProgramInv

LEMMA ViewerLeavesHolds ==
  ASSUME SetupIInv, ViewerLeaves
  PROVE  SetupIInv'
  BY DEF ViewerLeaves, SetupIInv, BusInv, FileInv, ProgramInv, StreamInv

LEMMA ProgramEndsHolds ==
  ASSUME SetupIInv, SensorRejected \/ StopProgram
  PROVE  SetupIInv'
  BY DEF SensorRejected, StopProgram, SetupIInv, BusInv, FileInv, ProgramInv, StreamInv

LEMMA StepHolds ==
  ASSUME SetupIInv, [SetupNext]_setupVars
  PROVE  SetupIInv'
<1>1. CASE UNCHANGED setupVars
  BY <1>1 DEF setupVars, SetupIInv, BusInv, FileInv, ProgramInv, StreamInv
<1> QED
  BY <1>1, AttachHolds, SetupOpensHolds, SetupWritesHolds, EditFileHolds,
     StartProgramHolds, ViewerConnectsHolds, SetSensorExposureTimeHolds,
     ViewerLeavesHolds, ProgramEndsHolds
  DEF SetupNext

\* The whole of it, of every behaviour.
THEOREM SetupIsOfCamera == SetupSpec => []SetupIInv
  BY InitHolds, StepHolds, PTL DEF SetupSpec
-----------------------------------------------------------------------------
(* What it gives.                                                          *)

\* writeSensorSetupJSON and loadSensorSetupInfo: the program starts with the
\* settings that the camera of the file reported.
THEOREM SetupIsKept == SetupSpec => []SetupKept
<1>1. SetupIInv => SetupKept
  BY DEF SetupIInv, ProgramInv, SetupKept
<1> QED BY <1>1, SetupIsOfCamera, PTL

\* Cameras of one name report the same caps.
LEMMA OneNameOneCaps ==
  ASSUME NEW one \in Shots, NEW other \in Shots,
         NEW written \in SensorSetupInfo(one), NEW current \in SensorSetupInfo(other),
         written.name = current.name
  PROVE  Caps([settings |-> Whole(written), nvmm |-> FALSE])
           = Caps([settings |-> current, nvmm |-> FALSE])
<1>1. one.model \in Models /\ other.model \in Models
  BY DEF Shots
<1>2. one.model.name = other.model.name
  BY SetupOfShot
<1>3. one.model.filter = other.model.filter
  BY <1>1, <1>2, CamerasAssumption
<1>4. /\ Whole(written).caps_type = current.caps_type
      /\ Whole(written).pixel_color_filter = current.pixel_color_filter
      /\ Whole(written).width = current.width
      /\ Whole(written).height = current.height
  BY <1>2, <1>3, SetupOfShot
<1> QED BY <1>4 DEF Caps

\* media_configure: the stream asks the camera for what it delivers, whichever
\* camera the file was written for.
THEOREM CapsAreOfCamera == SetupSpec => []CapsFitCamera
<1>1. ASSUME SetupIInv, media # NoMedia, ~loaded.edited
      PROVE  \E current \in SensorSetupInfo(attached) :
               media.caps = Caps([settings |-> current, nvmm |-> FALSE])
  <2>1. PICK read \in loaded.info, current \in SensorSetupInfo(attached) :
          SameName(read, current) /\ media.caps = Caps(read)
    BY <1>1 DEF SetupIInv, StreamInv
  <2>2. PICK info \in SensorSetupInfo(loaded.of) :
          /\ loaded.of \in Shots
          /\ loaded.info = {[settings |-> Whole(info), nvmm |-> FALSE]}
    BY <1>1 DEF SetupIInv, ProgramInv
  <2>3. read = [settings |-> Whole(info), nvmm |-> FALSE]
    BY <2>1, <2>2
  <2>4. attached \in Shots
    BY <1>1 DEF SetupIInv, StreamInv
  <2>5. info.name = current.name
    BY <2>1, <2>2, <2>3, SetupOfShot DEF SameName
  <2> QED BY <2>1, <2>2, <2>3, <2>4, <2>5, OneNameOneCaps
<1>2. SetupIInv => CapsFitCamera
  BY <1>1 DEF CapsFitCamera
<1> QED BY <1>2, SetupIsOfCamera, PTL
-----------------------------------------------------------------------------
(* What cJSON makes of the texts.                                          *)

LEMMA NoTokens == AreTokens(<<>>)
  BY DEF AreTokens

\* A file that was cut short is of tokens still.
LEMMA BeginningOfTokens ==
  ASSUME NEW text, AreTokens(text), NEW beginning \in Beginnings(text)
  PROVE  AreTokens(beginning)
<1> DEFINE S == {text[i] : i \in DOMAIN text}
           T == {beginning[i] : i \in DOMAIN beginning}
<1>1. text \in Seq(S) /\ \A i \in DOMAIN text : IsToken(text[i])
  BY DEF AreTokens
<1>2. PICK n \in 0 .. Len(text) : beginning = SubSeq(text, 1, n)
  BY DEF Beginnings
<1> HIDE DEF S
<1>3. /\ beginning \in Seq(S) /\ Len(beginning) = n
      /\ \A i \in 1 .. n : beginning[i] = text[i]
  BY <1>1, <1>2
<1>4. DOMAIN beginning = 1 .. n /\ DOMAIN text = 1 .. Len(text) /\ n \in 0 .. Len(text)
  BY <1>1, <1>2, <1>3
<1>5. \A i \in DOMAIN beginning : IsToken(beginning[i])
  BY <1>1, <1>3, <1>4
<1>6. beginning = [i \in 1 .. n |-> beginning[i]]
  BY <1>3
<1>7. beginning \in [1 .. n -> T] /\ n \in Nat
  BY <1>4, <1>6
<1>8. beginning \in Seq(T)
  BY <1>7
<1> QED
  BY <1>5, <1>8 DEF AreTokens

\* Whatever a file holds, it is of tokens.
LEMMA FileOfTokens ==
  ASSUME FileInv
  PROVE  AreTokens(sensor_json.text)
<1>1. CASE sensor_json.edited
  BY <1>1, TokensAssumption DEF FileInv
<1>2. CASE ~sensor_json.edited /\ sensor_json.text # <<>>
  <2>1. PICK info \in SensorSetupInfo(sensor_json.of) :
          sensor_json.of \in Shots /\ sensor_json.text \in Beginnings(Written(info))
    BY <1>2 DEF FileInv
  <2>2. AreTokens(Written(info))
    BY <2>1, TokensAssumption
  <2> QED
    BY <2>1, <2>2, BeginningOfTokens
<1> QED
  BY <1>1, <1>2, NoTokens

\* What cJSON reads is of tokens, whichever file and whichever stream it is of.
THEOREM RecordIsText == SetupSpec => []RecordInv
<1>1. SetupInit => RecordInv
  BY NoTokens DEF SetupInit, NoMedia, RecordInv
<1>2. ASSUME SetupIInv, RecordInv, [SetupNext]_setupVars
      PROVE  RecordInv'
  <2>1. CASE ViewerConnects
    <3>1. PICK read \in loaded.info, current \in SensorSetupInfo(attached),
               record \in Recorded(attached) :
            media' = [caps |-> Caps(read), record |-> record]
      BY <2>1 DEF ViewerConnects
    <3>2. attached \in Shots
      BY <1>2, <3>1, NoCameraNoSetup DEF SetupIInv, BusInv
    <3>3. AreTokens(record) /\ media'.record = record
      BY <3>1, <3>2, TokensAssumption
    <3> QED
      BY <3>3 DEF RecordInv
  <2>2. CASE UNCHANGED media
    BY <1>2, <2>2 DEF RecordInv
  <2>3. CASE media' = NoMedia
    BY <2>3, NoTokens DEF RecordInv, NoMedia
  <2>4. ViewerConnects \/ UNCHANGED media \/ media' = NoMedia
    BY <1>2 DEF SetupNext, setupVars, Attach, SetupOpens, SetupWrites, EditFile,
       StartProgram, SensorRejected, SetSensorExposureTime, ViewerLeaves, StopProgram
  <2> QED
    BY <2>1, <2>2, <2>3, <2>4
<1> QED
  BY <1>1, <1>2, SetupIsOfCamera, PTL DEF SetupSpec

\* cJSON_Parse, cJSON_Print and cJSON_Delete: of every file that is written, cut
\* or edited, and of the sensor metadata of every stream, each token and each
\* block is kept, or the text is refused and nothing is.
THEOREM TextsAreParsed == SetupSpec => []ParseIsClean
<1>1. ASSUME NEW text, AreTokens(text)
      PROVE  ParsesCleanly(text)
  <2> DEFINE S == {text[i] : i \in DOMAIN text}
  <2>1. text \in Seq(S) /\ \A i \in DOMAIN text : IsToken(text[i])
    BY <1>1 DEF AreTokens
  <2> HIDE DEF S
  <2> QED
    BY <2>1, ParsedIsClean
<1>2. SetupIInv /\ RecordInv => ParseIsClean
  BY <1>1, FileOfTokens DEF SetupIInv, RecordInv, ParseIsClean
<1> QED
  BY <1>2, SetupIsOfCamera, RecordIsText, PTL
=============================================================================
