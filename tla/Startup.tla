------------------------------ MODULE Startup ------------------------------
(***************************************************************************)
(* main() from the first line to the last: what each step of the setup     *)
(* acquires, the cleanup label it jumps to when it fails, the scripts it   *)
(* forks, and Ctrl-C, which the terminal sends to the camera and to every  *)
(* script.  A script that has received a SIGINT ends by itself             *)
(* (HardwareInterface).  What a child does that could not exec and goes on *)
(* as a second camera is not followed.                                     *)
(***************************************************************************)
EXTENDS Naturals, Sequences, FiniteSets

CONSTANTS NumScripts,    \* entries of "Hardware Scripts" in config.json
          MayFail,       \* steps of the setup that can fail, "fork", "exec"
          MaxCtrlC       \* bound: times that Ctrl-C is pressed

Scripts == 1 .. NumScripts

\* The setup in its order: a step, the variables it assigns, what it frees
\* whether it fails or not, and the label that it jumps to ("none": main does not
\* look whether it failed).
Row(step, gets, drops, else) ==
  [step |-> step, gets |-> gets, drops |-> drops, else |-> else]

Setup ==
  << Row("sensor.json", {"sensor_setup_info"}, {"sensor_file"}, "cleanup_loop"),
     Row("config.json", {"control_data", "metadata"}, {"config_file"},
         "cleanup_sensor_setup_info"),
     Row("pipeline.txt", {"pipeline_string_format"}, {"pipeline_file"},
         "cleanup_config"),
     Row("pipeline string", {"pipeline_string"}, {}, "cleanup_hardware_scripts"),
     Row("recording directory", {"recording_dir"}, {}, "cleanup_pipeline_string"),
     Row("startup filename", {"startup_metadata_filepath"}, {"recording_dir"},
         "cleanup_pipeline_string"),
     Row("startup copy", {}, {"startup_metadata_filepath"},
         "cleanup_pipeline_string"),
     Row("csv elements", {"csv_pipeline"}, {}, "cleanup_pipeline_string"),
     Row("csv links", {}, {}, "cleanup_csv_pipeline"),
     Row("rtsp server",
         {"rtsp_server", "mount_point_str", "rtsp_server_id", "session_timer"},
         {}, "none"),
     Row("status socket", {"status_socket", "status_address"}, {},
         "cleanup_rtsp_server"),
     Row("udp listener", {"udp_listener", "udp_address"}, {},
         "cleanup_status_broadcast"),
     Row("status timer", {"status_broadcast_id"}, {}, "none"),
     Row("SIGINT handler", {}, {}, "none"),
     Row("script array", {"child_processes"}, {}, "none") >>

\* The labels in the order in which they follow each other, and what each uses
\* and frees: label 1 with number_of_hardware_scripts, which is assigned with
\* child_processes.
Cleanup ==
  << [label |-> "cleanup_hardware_scripts",  frees |-> {"child_processes"}],
     [label |-> "cleanup_udp_listener",      frees |-> {"udp_listener"}],
     [label |-> "cleanup_status_broadcast",  frees |-> {"status_broadcast_id"}],
     [label |-> "cleanup_rtsp_server",       frees |-> {"rtsp_server_id", "rtsp_server"}],
     [label |-> "cleanup_csv_pipeline",      frees |-> {"csv_pipeline"}],
     [label |-> "cleanup_pipeline_string",   frees |-> {"pipeline_string"}],
     [label |-> "cleanup_config",            frees |-> {"metadata", "control_data"}],
     [label |-> "cleanup_sensor_setup_info", frees |-> {"sensor_setup_info"}],
     [label |-> "cleanup_loop",              frees |-> {"loop"}] >>

Index(name) == CHOOSE i \in 1 .. Len(Cleanup) : Cleanup[i].label = name

\* What a step that fails leaves behind: some of the four csv elements, the address
\* of the status broadcast (statusbroadcaster.c:64-68), or a listener that could
\* not be bound (udp_server.c:53-62).
CsvElements == {"csv_pipeline", "appsrc", "csv_queue", "csv_sink"}

LeftBehind(name) ==
  CASE name = "csv elements"  -> SUBSET CsvElements \ {CsvElements}
    [] name = "status socket" -> {{"status_address"}}
    [] name = "udp listener"  -> {{}, {"unbound_listener"}}
    [] OTHER                  -> {{}}

\* NULL, which pipeline_string is left with, may be freed (g_free).
LeftNull(name) == IF name = "pipeline string" THEN {"pipeline_string"} ELSE {}

ASSUME StartupAssumption ==
  /\ NumScripts \in Nat /\ MaxCtrlC \in Nat
  /\ MayFail \subseteq ({Setup[i].step : i \in 1 .. Len(Setup)} \cup {"fork", "exec"})

VARIABLES
  pc,          \* "setup", "fork", "run", "cleanup", "exited", "killed" or "crashed"
  step,        \* the step of the setup, the one that failed, or past the last
  script,      \* the script to fork
  label,       \* the label that comes next
  valid,       \* the variables that are assigned and not freed
  held,        \* what main holds, whether a variable still refers to it or not
  err_code,    \* EXIT_FAILURE
  handler,     \* handleSIGINT is installed
  quit,        \* the main loop has been told to stop
  ctrl_c,      \* times that Ctrl-C was pressed
  child,       \* of each script: "none", "forked", "exec" or "camera"
  interrupts,  \* of each script: KeyboardInterrupts it got
  missed       \* scripts that main signalled before they had reached execvp

place == <<pc, step, script, label>>
memory == <<valid, held>>
main == <<place, memory, err_code, handler, quit>>
vars == <<main, ctrl_c, child, interrupts, missed>>

Init ==
  /\ pc = "setup" /\ step = 1 /\ script = 1 /\ label = 1
  /\ held = {"loop", "config_file", "sensor_file", "pipeline_file"}
  /\ valid = held
  /\ err_code = FALSE /\ handler = FALSE /\ quit = FALSE /\ ctrl_c = 0
  /\ child = [i \in Scripts |-> "none"]
  /\ interrupts = [i \in Scripts |-> 0] /\ missed = {}
-----------------------------------------------------------------------------
\* SIGINT to a set of children.  One that has not reached execvp runs its copy
\* of handleSIGINT, which changes nothing in the script it becomes.
Signalled(set) ==
  interrupts' = [i \in Scripts |->
    interrupts[i] + IF i \in set /\ child[i] = "exec" THEN 1 ELSE 0]

\* kill() of main.
Killed(set) ==
  /\ Signalled(set)
  /\ missed' = missed \cup {i \in set \cap Scripts : child[i] = "forked"}

\* Faulty variants: the jump is to the label before, or to the one after.
OneLabelEarlier(i) == Index(Setup[i].else) - 1

OneLabelLater(i) == Index(Setup[i].else) + 1

FailureLabel(i) == Index(Setup[i].else)

Acquire ==
  /\ pc = "setup" /\ step <= Len(Setup)
  /\ valid' = (valid \cup Setup[step].gets) \ Setup[step].drops
  /\ held' = (held \cup Setup[step].gets) \ Setup[step].drops
  /\ step' = step + 1
  /\ handler' = (handler \/ Setup[step].step = "SIGINT handler")
  /\ UNCHANGED <<pc, script, label, err_code, quit, ctrl_c, child, interrupts, missed>>

SetupFails ==
  /\ pc = "setup" /\ step <= Len(Setup)
  /\ Setup[step].step \in MayFail /\ Setup[step].else # "none"
  /\ \E left \in LeftBehind(Setup[step].step) :
       held' = (held \cup left) \ Setup[step].drops
  /\ valid' = (valid \cup LeftNull(Setup[step].step)) \ Setup[step].drops
  /\ pc' = "cleanup" /\ label' = FailureLabel(step) /\ err_code' = TRUE
  /\ UNCHANGED <<step, script, handler, quit, ctrl_c, child, interrupts, missed>>

SetupDone ==
  /\ pc = "setup" /\ step > Len(Setup)
  /\ pc' = "fork"
  /\ UNCHANGED <<step, script, label, memory, err_code, handler, quit, ctrl_c,
                 child, interrupts, missed>>
-----------------------------------------------------------------------------
Fork ==
  /\ pc = "fork" /\ script \in Scripts
  /\ child' = [child EXCEPT ![script] = "forked"]
  /\ script' = script + 1
  /\ UNCHANGED <<pc, step, label, memory, err_code, handler, quit, ctrl_c,
                 interrupts, missed>>

\* A child whose execvp fails goes on after the if, in its parent's program.
Exec(i) ==
  /\ child[i] = "forked"
  /\ \/ child' = [child EXCEPT ![i] = "exec"]
     \/ "exec" \in MayFail /\ child' = [child EXCEPT ![i] = "camera"]
  /\ UNCHANGED <<main, ctrl_c, interrupts, missed>>

\* A faulty variant: the scripts forked so far are left.
NoneSignalled == UNCHANGED <<interrupts, missed>>

EarlierSignalled == Killed(1 .. (script - 1))

\* The kills follow the failed fork at once; the arguments of its script stay.
ForkFails ==
  /\ pc = "fork" /\ script \in Scripts /\ "fork" \in MayFail
  /\ EarlierSignalled
  /\ valid' = valid \ {"child_processes"}
  /\ held' = (held \ {"child_processes"}) \cup {"script_args"}
  /\ pc' = "cleanup" /\ label' = Index("cleanup_udp_listener") /\ err_code' = TRUE
  /\ UNCHANGED <<step, script, handler, quit, ctrl_c, child>>

\* g_main_loop_run: a quit that came before it is forgotten.
Run ==
  /\ pc = "fork" /\ script > NumScripts
  /\ pc' = "run" /\ quit' = FALSE
  /\ UNCHANGED <<step, script, label, memory, err_code, handler, ctrl_c, child,
                 interrupts, missed>>

LoopEnds ==
  /\ pc = "run" /\ quit
  /\ pc' = "cleanup" /\ label' = 1
  /\ UNCHANGED <<step, script, memory, err_code, handler, quit, ctrl_c, child,
                 interrupts, missed>>
-----------------------------------------------------------------------------
\* A faulty variant: the scripts are killed at the next label as well.
KillsTwice(l) == l \in {1, 2}

KillsScripts(l) == Cleanup[l].label = "cleanup_hardware_scripts"

UsesWhatIsValid(l) == Cleanup[l].frees \subseteq valid

\* One label that frees what it should.
Label ==
  /\ pc = "cleanup" /\ label <= Len(Cleanup) /\ UsesWhatIsValid(label)
  /\ valid' = valid \ Cleanup[label].frees
  /\ held' = held \ Cleanup[label].frees
  /\ Killed(IF KillsScripts(label) THEN Scripts ELSE {})
  /\ label' = label + 1
  /\ UNCHANGED <<pc, step, script, err_code, handler, quit, ctrl_c, child>>

\* One that uses a variable that is not assigned: it ends the process, unless
\* the variable is only the id of a source; or nothing is freed and main goes on;
\* or the id is by chance that of another source, which is removed.
LabelUndefined ==
  /\ pc = "cleanup" /\ label <= Len(Cleanup) /\ ~UsesWhatIsValid(label)
  /\ \/ /\ Cleanup[label].label # "cleanup_status_broadcast"
        /\ pc' = "crashed" /\ UNCHANGED <<label, held>>
     \/ /\ \E source \in {{}, {"rtsp_server_id"}, {"session_timer"}} :
             held' = held \ source
        /\ label' = label + 1 /\ pc' = pc
  /\ UNCHANGED <<step, script, valid, err_code, handler, quit, ctrl_c, child,
                 interrupts, missed>>

Exit ==
  /\ pc = "cleanup" /\ label > Len(Cleanup)
  /\ pc' = "exited"
  /\ UNCHANGED <<step, script, label, memory, err_code, handler, quit, ctrl_c,
                 child, interrupts, missed>>
-----------------------------------------------------------------------------
Finished == {"exited", "killed", "crashed"}

\* handleSIGINT, which uses the loop though it may be freed, or the default
\* action before it is installed.
CtrlC ==
  /\ pc \notin Finished /\ ctrl_c < MaxCtrlC
  /\ ctrl_c' = ctrl_c + 1
  /\ pc' \in IF ~handler THEN {"killed"}
             ELSE IF "loop" \in valid THEN {pc} ELSE {pc, "crashed"}
  /\ quit' = handler
  /\ Signalled(Scripts)
  /\ UNCHANGED <<step, script, label, memory, err_code, handler, child, missed>>

MainStep ==
  Acquire \/ SetupFails \/ SetupDone \/ Fork \/ ForkFails \/ Run \/ LoopEnds
  \/ Label \/ LabelUndefined \/ Exit

Next == MainStep \/ (\E i \in Scripts : Exec(i)) \/ CtrlC

Spec == Init /\ [][Next]_vars
-----------------------------------------------------------------------------
(* Properties.                                                             *)

Freed == UNION {Cleanup[l].frees : l \in 1 .. Len(Cleanup)}

TypeOK ==
  /\ pc \in {"setup", "fork", "run", "cleanup"} \cup Finished
  /\ step \in 1 .. (Len(Setup) + 1) /\ script \in 1 .. (NumScripts + 1)
  /\ label \in 1 .. (Len(Cleanup) + 1)
  /\ err_code \in BOOLEAN /\ handler \in BOOLEAN /\ quit \in BOOLEAN
  /\ ctrl_c \in 0 .. MaxCtrlC
  /\ child \in [Scripts -> {"none", "forked", "exec", "camera"}]
  /\ interrupts \in [Scripts -> Nat] /\ missed \subseteq Scripts

Failed(name) == err_code /\ step <= Len(Setup) /\ Setup[step].step = name

\* The two jumps whose label is wrong: main.c:143, from where five labels use
\* what is not assigned, and main.c:258, from where one removes the source of a
\* status timer that has not been started (main.c:337).
WrongJump(l) ==
  \/ Failed("pipeline string") /\ l < Index("cleanup_pipeline_string")
  \/ Failed("udp listener") /\ l = Index("cleanup_status_broadcast")

\* Wherever the setup or a fork fails and whenever a signal ends the loop, a
\* label uses what has been assigned and nothing has freed: all labels but those of
\* the two wrong jumps, and of these none.
LabelsUseWhatIsValid ==
  pc = "cleanup" /\ label <= Len(Cleanup) =>
    (UsesWhatIsValid(label) <=> ~WrongJump(label))

Excused == IF Failed("csv elements") THEN {"csv_pipeline"} ELSE {}

\* main.c:325-350: when main returns, from wherever, everything that any label
\* frees has been freed, unless it is the pipeline of csv elements of which
\* another could not be made (main.c:193-198).
CleanupIsComplete ==
  pc = "exited" => held \cap Freed \subseteq Excused

\* main.c:281: the array is used to kill the child processes.  A script runs on
\* after the camera has exited only when the SIGINT of main came before its execvp:
\* main waits neither for a child to exec nor for one to end.
NoScriptOutlives ==
  pc = "exited" =>
    \A i \in Scripts :
      child[i] \in {"forked", "exec"} => interrupts[i] > 0 \/ i \in missed

\* One Ctrl-C costs a script at most two KeyboardInterrupts, from the terminal
\* and from main: the assumption of HardwareInterface on MaxRaised.
AtMostTwoInterrupts ==
  ctrl_c <= 1 => \A i \in Scripts : interrupts[i] <= 2

\* main.c:297: in a child, call execvp and execute the current python script.
\* No child is a second camera on the sockets of the first.
ChildrenAreScripts == \A i \in Scripts : child[i] # "camera"
-----------------------------------------------------------------------------
(* The inductive invariant behind these.                                   *)

\* What the steps before one have assigned, and what the labels from one on free.
Acquired(s) == {"loop"} \cup UNION {Setup[i].gets : i \in 1 .. (s - 1)}

Remaining(l) == UNION {Cleanup[i].frees : i \in l .. Len(Cleanup)}

\* Where main was when it went to the labels, and with which of their variables.
FirstLabel ==
  CASE ~err_code                           -> 1
    [] err_code /\ step <= Len(Setup)      -> FailureLabel(step)
    [] err_code /\ ~(step <= Len(Setup))   -> Index("cleanup_udp_listener")

Usable ==
  Acquired(step) \cup IF err_code /\ step <= Len(Setup)
                      THEN LeftNull(Setup[step].step) ELSE {}

StepsMatch ==
  /\ pc = "setup" => ~err_code
  /\ pc \in {"fork", "run"} => ~err_code /\ step = Len(Setup) + 1
  /\ pc = "cleanup" => FirstLabel <= label
  /\ err_code /\ step <= Len(Setup) => Setup[step].else # "none"
  /\ pc = "cleanup" /\ ~err_code => step = Len(Setup) + 1

\* Of the variables that labels free, those are valid that were assigned and that
\* a label ahead frees, and nothing is held but what a valid one refers to.
ValidMatches ==
  /\ pc \in {"setup", "fork", "run"} => valid \cap Freed = Acquired(step) \cap Freed
  /\ pc = "cleanup" => valid \cap Freed = Usable \cap Remaining(label)
  /\ pc = "exited" => valid \cap Freed = {}

HeldMatches == held \cap Freed \subseteq valid \cup Excused

\* Main has told its scripts to end.
ScriptsTold == pc = "exited" \/ (pc = "cleanup" /\ label > 1)

ScriptsTracked ==
  /\ pc = "setup" \/ (pc = "cleanup" /\ err_code /\ step <= Len(Setup)) =>
       \A i \in Scripts : child[i] = "none"
  /\ pc = "fork" => \A i \in Scripts : child[i] # "none" => i < script
  /\ ScriptsTold =>
       \A i \in Scripts :
         child[i] \in {"forked", "exec"} => interrupts[i] > 0 \/ i \in missed

InterruptsCounted ==
  \A i \in Scripts :
    interrupts[i] <= ctrl_c + IF ScriptsTold \/ pc \in Finished THEN 1 ELSE 0

IInv ==
  TypeOK /\ StepsMatch /\ ValidMatches /\ HeldMatches /\ ScriptsTracked
    /\ InterruptsCounted
=============================================================================
