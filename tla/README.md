# Verification of configurable_camera

TLA+ models of the ORNL configurable camera program (C, GStreamer, GLib, and the
Python scripts it starts), checked with TLC and proved about with TLAPS.

## The system

| component | state it keeps | operations | talks to |
|---|---|---|---|
| Raw trigger protocol (`udp_server.c`) | the bound UDP socket, its GIOChannel | `udp_received_callback`, `parseTrigger`, `processHSTAppTrigger` | recording control, the sensor setters |
| Recording control (`pipeline.c`) | `PipelineData`: path, flags, csv path, timer id | `record_raw`, `stop_record_raw`, `file_limit`, `restart_file_limit_timer`, `new_csv`, `metadata_cleanup` | emits `split-now` to splitmuxsink, swaps the csv sink |
| RTSP media lifecycle (`rtsp_server.c`) | media, sink, ids of watch, timer and probe | `media_configure`, `cleanup_RTSP_media`, `format_recording_filepath` | called by gst-rtsp-server and splitmuxsink |
| Program (`main.c`) | main loop, sockets, child processes | setup, SIGINT, chain of cleanup labels | owns everything above |
| Status broadcast (`statusbroadcaster.c`) | last sensor information | a 5 s timer | reads the flags of `PipelineData`, the camera and the configuration; builds its message with cJSON |
| Configuration (`config.c`, `addresschecker.c`) | `ControlData`, `Metadata`, list of scripts, parsed JSON | `readConfigFile`, `replace_with_address`, `format_recording_directory`, frees | used by all |
| Sensor (`sensor.c`) | sensor.json, settings in pylonsrc, the latch `has_temp` | getters, setters, JSON | the probe, the status broadcast, triggers |
| cJSON (`cJSON.c`, vendored) | the blocks it has allocated | create, add, reference, print, parse, delete | config.json, sensor.json, the status messages |
| Control scripts (`hardware/*.py`) | sockets, motor phase, pins | receive loop, commands, `close` | started and interrupted by the program |

The callbacks of the main loop (trigger, limit timer, status, session cleanup,
SIGINT) run one after the other.  gst-rtsp-server builds a media, and usually
destroys it, on a client thread; frames, the metadata probe and splitmuxsink's
`format-location` run on streaming threads; each control script is a process.

What makes it hard: callbacks of several threads share `PipelineData` without a
lock, GLib ids are kept by hand, a timer is replaced inside its own callback,
triggers arrive as datagrams that can be lost, queued or run together, storage
can fail at each step, and an exception can hit any line of a script that holds
a motor energised.

What makes each part correct:

* triggers and recording: no event source is ever lost track of; a recording
  runs only during a stream, always has a limit, always ends, and is the file
  its trigger named; the status says what happens; a stream leaves nothing to
  the next one; a clip keeps its frames;
* start and exit: wherever a step fails, the labels use what is assigned and free
  what they are there for; no script outlives the camera;
* configuration: an error path frees what it holds, nothing dangles or is freed
  twice; a documented file is accepted; status messages go to the network that was
  configured;
* sensor: a stream asks its camera for what that camera delivers; the settings that
  were written are the ones that are loaded, those that a message has set persist,
  and a damaged file is refused;
* metadata: a csv begins with its header and has its frames in order, whatever
  exchanges the sink; every status message can be read, and leaves the JSON it
  shares with the configuration as it was;
* scripts: outputs are off whenever a script waits or has ended; the motor
  neither slips nor drifts; an interrupt ends the script.

## Modules

| module | models | state and actions |
|---|---|---|
| `Trigger` | the text protocol | A text is a sequence of words and delimiters and a token a run of words, so two datagrams read as one text glue a word to the next. `ParseTrigger(text)` is the set of zero or one triggers `parseTrigger` returns. |
| `Camera` | the main loop, one callback at a time | `PipelineData`, the live GLib sources (`timers`, `watches`) apart from the ids that are remembered, queued datagrams. One action per callback and outcome: `Arrive`, `UdpReceived`, `FileLimitFires`, `MediaConfigure`, `SensorRejected`, `StorageRejected`, `CleanupRTSPMedia`, `HandleSIGINT`, `Exit`, and the abnormal ends of each. Where `format_recording_directory` fails its callers free a freed block: the process dies or goes on. `half_done` is a history variable: exactly one of the two directory calls of a start failed; it stays where both fail, since the old clip goes on. |
| `CameraSession` | abstract promise | idle, live or ended; at most one clip, only when live, always limited. `Camera` implements it. |
| `RawRecorder` | recording frame by frame | `record_raw` and `stop_record_raw` in two steps (path, then `split-now`) against the streaming thread, the limit timer against `max-size-time`. Time is counted in frames. |
| `ClipStore` | abstract promise | one file at a time, once, in one piece, of bounded length. `RawRecorder` implements it. |
| `CameraThreads` | client thread and main loop, statement by statement | the same fields as `Camera`, read and written one at a time by `restart_file_limit_timer`, `record_raw`, `stop_record_raw`, `media_configure`, `cleanup_RTSP_media`. `Teardown` is the set of threads that can drop the last reference to a media. |
| `HardwareInterface` | receive loop of a script (`interface.py`) | line by line, with the handlers and `close`; `Escape` is an exception from any line, `Interrupt` a KeyboardInterrupt. |
| `FocusMotor` | stepper motor of `gpio_focus_motor.py` | the coil patterns, the phase that is kept, and the rotor they pull. |
| `GPIOScript` | the two composed | implements both. |
| `Startup` | `main()` | the setup as a table of steps: the variables that each assigns, what it frees, and the label it jumps to when it fails; what a failing step leaves behind. `valid` are the variables that may be used, `held` what exists, whether something still refers to it or not. A label that uses a variable that is not valid (`LabelUndefined`) ends the process, does nothing, or removes another source. Fork and exec of the scripts, Ctrl-C at any moment, the labels one by one. |
| `Config` | `readConfigFile` and the users of what it leaves | a file is a sequence of fields; one action per field, per interface of `replace_with_address`, per failing call; then the places that follow the pointers. |
| `IPv4` | `isValidIp4` | a recursive function over the characters, with the locals of the function; `IsDottedQuad` is what it should recognise. |
| `CJSON` | the functions of cJSON.c that build, print and free | the heap is a function from addresses to blocks; an item and each string it owns are blocks, so a block freed twice or never shows. `Delete` frees at once what the loop and the recursion of `cJSON_Delete` free one by one: all that the items it reaches own, and the item; a block that two of their pointers lead to is freed twice. A text is a sequence of tokens. |
| `CJSONParse` | the parser | one operator per `parse_*` function. The calls that have not returned are a stack of frames with the locals `item`, `head` and `current_item`; the text is read token by token, each by the line that waits for it (`expects`); `Unwound` is the return from list to list after a refusal, each of which deletes its items. |
| `SensorSetup` | the way of the camera's settings | `sensor_setup` writes sensor.json (any part of which reaches the disk), an editor changes it, `main` loads it, `media_configure` compares names and streams, messages set the exposure time (`message_set` is the history of it). Cameras are exchanged between streams. What is written of a camera and what is read from a text are constant operators (`Written`, `Load`), so that it can be proved about. |
| `SensorText` | the text of sensor.json | the values of those operators: `SetupText`, `StaticTexts` and `LoadSensorSetupInfo`, which print and parse with `CJSON` and `CJSONParse`. |
| `SensorInfo` | `getSensorDynamicInfo` | the call in four steps, for any number of threads that share the static `has_temp`. |
| `StatusBroadcast` | `status_broadcaster` | one tick: free, ask the camera, build the message in the heap of `CJSON` with references into the JSON of config.json, send, delete. |
| `CsvWriter` | `new_csv`, `metadata_cleanup` and the csv pipeline | one action per call that another thread can see between: open, header, stop, remove, free, copy, make, link, play; the queue's thread pushes a line at any of these moments. |
| `Metadata` | the three composed | the client thread, the main loop, the streaming thread and the queue's thread; media come and go; `frame_level_metadata` is `FrameArrives`, the steps of the call and `FrameLine`. |
| `StatusReader` | what a receiver reads in a status message | `Readable`: the message, parsed with `CJSONParse`. |
| `MC*` | values for the constants | |
| `*Proofs` | the theorems | |

`Camera`, `CameraThreads` and `Metadata` are three views of one program: the first has
all callbacks and inputs and lets each run to its end; the second has the start,
stop, limit, configure and cleanup code only and interleaves it; the third
interleaves what the other two leave out, the status message and the csv.

## Runs

| run | what it shows |
|---|---|
| `camera` | sources, flags, files and session stay consistent in any order of viewers, triggers, limits, rejected sensors and failing storage; `CameraSession` is implemented; a clip has its text file and its csv, unless exactly one of the two directory calls of its trigger, or of one that came during it, failed, and it ends |
| `camera_filed` (violation) | not every start or stop message leaves its text file |
| `recorder` | frames follow the triggers; clips keep their frames and limit and are closed; `ClipStore` is implemented |
| `recorder_default` (violation) | the same with the shipped limits |
| `threads` | with every interleaving of the two threads, and media ending on the client thread, the watch of a stream, and the limit timer whose id is held, are not lost, recordings end, triggers are taken. It does not say that there is no second timer: two threads in `restart_file_limit_timer` can leave one whose id nobody holds |
| `threads_session` (violation) | the same when an expired session's media is cleaned up on the main loop |
| `gpio_script` | in any order of commands and with two exceptions at any line: outputs off, no slip, no drift, the script ends; both abstract modules are implemented |
| `start` | `main`, and beside it the way of the camera's settings; they share no state, and each is run while the other stays where it begins. Labels use only what is assigned, except behind the two wrong jumps; when main returns nothing is left that a label frees; a script outlives the camera only if it was signalled before its `execvp`; it gets at most two interrupts. Whatever camera is attached when, and however much of sensor.json reached the disk: a stream's caps are those of its camera, the program starts with the settings that were written, and cJSON neither loses nor keeps a block of any cut or edited file |
| `startup_exec` (violation) | a child whose `execvp` fails is a second camera |
| `config` | error paths free every block that a pointer still holds, and none twice; documented files are accepted and harmless; the address used is of the configured interface, and the broadcast address of the same entry or, if a later interface has that address too, of the last one that does; `isValidIp4` accepts dotted quads and nothing else |
| `sensor_settings` (violation) | the exposure time that a message has set is not what the next start loads |
| `metadata` | status ticks, frames, changes of the camera and exchanges of the csv sink in any order: messages can be read and leave the shared JSON intact, no temperature state is NONE, every csv is well formed, and the sink follows the path as long as no two exchanges overlap |

### Bounds

* `camera*`: 2 or 3 datagrams (starts for all and for this camera, a stop, a
  setting, one for another camera, one with too few tokens): two or three
  triggers read as one text, or a trigger in each of several streams.  `camera`
  has three source ids, a timer, a watch and the one that replaces the timer, and
  `camera_filed` four.  Viewers come and go without bound.
* `recorder*`: a limit of 4 frames, a timer 1 frame late, calls of at most 2
  frames, `max-size-time` of 8 (above 4 + 1 + 2) or 4; up to three clips, streams
  without bound.  Each timestamp starts one clip.
* `threads*`: two media, so that an old cleanup can meet a new configure, at most
  two triggers, five ids.
* `gpio_script`: steps of 5 instead of 50 half steps, so that commands start
  at different phases of the cycle of 8; two queued datagrams; travel of 20; two
  exceptions, which is what one Ctrl-C can cause (`AtMostTwoInterrupts` of
  `Startup`).
* `start`, `startup_exec`: two scripts, so that a fork fails after another one has
  succeeded; any step, fork or exec fails, alone or one after the other; Ctrl-C
  twice (once in `startup_exec`, where only exec fails).
* `config`: the four pointers of Control Data in every order, each one missing, one
  unknown or numeric field; lists of scripts with complete, incomplete and
  unknown fields; an interface with two addresses, an address on two
  interfaces, a name that does not exist, a wrong address; each library call
  fails or not.  `isValidIp4`: all texts of one to five segments out of seven
  kinds (empty, 0, 255, 256, 0255, 1000, one with a letter).
* `start`, `sensor_settings`: three cameras (monochrome, color with settings that are neither whole
  nor default, one whose color filter is unknown) and none; every prefix of the
  file; every token replaced by a number out of range, a string, a bracket or
  nonsense, or a member removed.  `MaxChanges` = 3 changes from outside (attach,
  setup, edit, message): two cameras around one setup, or setup, edit and
  exchange (2 in `sensor_settings`: attach and message).  `NestingLimit` = 2 stands
  for cJSON's 1000.
  `Numbers` has the settings of the cameras, what they are cut to, 0 and the value
  that an edit saturates to.
* `metadata`: `MaxEvents` = 4 events (a frame, an exchange of the sink, a tick of the
  status timer, a change of the camera) and at most `MaxSwaps` = 4 exchanges, each
  in all its steps; two names of csv files, so that a name is used again; two
  scripts with capabilities of different depth; cameras that are warm, hot,
  without a temperature, or unplugged.  Four events are two overlapping
  exchanges with a line in between, or three messages over one JSON.  The names
  of the files are symmetric; there is no liveness in this run.

Deadlock is checked in the two recorder runs; elsewhere the program ends or the bound
on inputs is reached.

### Fairness

* `Camera`: a timer that has expired and a socket that stays readable are
  dispatched (GLib does).
* `RawRecorder`: frames keep coming while a stream is live, a begun call ends, an
  expired timer is dispatched.
* `CameraThreads`: both threads make progress.  The trigger and timer callbacks
  have strong fairness: one iteration of the main loop dispatches every ready
  source, so a source that is ready again and again while the loop is idle is
  not passed over for ever.
* Scripts: the process runs.  Nothing is ever assumed of viewers, triggers or
  Ctrl-C.
* `SensorSetup` and `Metadata` state safety only.

## Proofs

All theorems hold for every value of the constants that the modules' assumptions
allow.

* `CameraProofs`: the safety invariants of `camera`, and that `Camera`
  implements `CameraSession`.  The properties are not inductive alone: a trigger
  that starts a clip is safe only because a watch exists only when the stream is
  armed (`StreamIsArmed`), and a new stream is clean only because the cleanup of
  the old one was complete (`IdleIsQuiet`).  `IInv` is their conjunction; one
  lemma per action preserves it.  `ClipsAreDocumented` follows from it: a
  clip that is recorded has its text file and its csv, unless `half_done`: of the
  two calls of `format_recording_directory` that its trigger makes (udp_server.c:173
  for the text file and the csv, pipeline.c:30 for the clip) exactly one failed.
  If the first failed, the clip has neither; if the second, the old clip goes on
  beside the files of the new trigger.
* `RawRecorderProofs`: `FramesFollow`, `ClipsKept` and the refinement of
  `ClipStore` under `RoomForClips`: limit + lateness + call length is less than
  `max-size-time`.  The core is `AgeBounded`: the open fragment is hardly older than
  the timer.  Without the hypothesis it is false (`recorder_default`).
* `CameraThreadsProofs`: `StreamStaysArmed`, `OneWatch`, `StoppedListening` for any
  number of media and triggers under `ClientTeardown`: media end on the client
  thread, which is also the thread that builds the next one.  Without it the last
  is false (`threads_session`).  The invariant says, for each label a thread can be
  at, which of the ids it holds is live.
* `StartupProofs`: for any number of scripts, any steps that fail and any number
  of Ctrl-Cs.  `LabelsUseTheirOwn`: a label uses what is assigned and not freed, but
  for the labels behind the two wrong jumps (main.c:143 and 258), which do not.
  `SetupIsUndone`: when main returns, nothing is held that any label frees, unless
  the csv elements could not all be made.  `ScriptsEndWithCamera`: a script that
  lives on was signalled by main between its `fork` and its `execvp`; nothing is
  assumed of how soon a child execs.  `OneCtrlCIsTwoInterrupts`, the assumption of
  `HardwareInterface`.  The invariant relates the tables to the variables:
  `ValidMatches` says that at a step the variables valid are those of the steps
  before it, and at a label those of them that this label or a later one frees;
  `HeldMatches` that nothing else is held.  Every variable that a label frees is
  assigned by one step (`AssignedAt`) and freed by one label (`FreedAt`), and the
  later it is assigned the earlier it is freed; so a step that fails finds its
  variables valid from its own label on, and from no other, which lemmas about
  the rows of the tables show row by row.
* Of what `main` loads before that (`SensorSetup`, in `StartupProofs` too), for any
  cameras and settings.  `SetupIsKept`: the program
  starts with what the camera of the file reported.  `CapsAreOfCamera`: a stream
  asks a camera for what it delivers, though the file may be of another camera and
  the cameras are exchanged; what is compared is the name, and settings change
  neither name nor caps.  The proofs rest on `TextAssumption`: the loader refuses
  the beginning of a text or reads what was written, and of an edited text it
  reads settings of some value.  That is what cJSON does, and TLC evaluates it
  in `start` with the operators of `SensorText`, for every camera there with
  every setting in `Numbers`, every beginning of its text and every edit of one.
  `TextsAreParsed`: whatever file is read, and whatever a stream records of its camera,
  `ParseIsClean` holds of it.  By `FileInv` the file is the beginning of a text that was
  written or an edit of one, by `RecordInv` a record is of the camera it was made of,
  so both are sequences of tokens (`TokensAssumption`, which TLC evaluates in `start` of
  the same texts), and of those it is `ParsedIsClean`.
* `GPIOScriptProofs`, about `HardwareInterface`, `FocusMotor` and `GPIOScript`.
  Outputs are off when a script waits or has ended and stay off once closed, for
  any datagrams and at most two exceptions.  For any step size and any number of
  commands the rotor is within half a step of the commanded position and follows
  every pattern; the invariant ties the phase to the rotor's position modulo 8.
  The script implements both modules, so these theorems hold of it.
* `ConfigProofs`: for every file, every list of interfaces and every failing
  call, error paths free every block a pointer still holds (`FailureFreesHeld`);
  a documented file crashes nothing
  (`DocumentedFilesNeverCrash`); the address in use is the configured one or
  of the configured interface, and the broadcast address of the last entry that
  has it (`StatusOnOwnNetwork`).  The invariant follows the loop over the
  interfaces: `Resolved` says that the address is the configured string or comes
  from an entry seen so far, and the broadcast address from the last entry seen so far
  with that address.  It needs that no interface is named like an address: otherwise a
  resolved address could be replaced once more.  `GoodFilesPass`: a documented
  file is refused only if a call fails, or the machine has no interface and no
  address of the name.  For that the invariant says the reverse, in `AcceptInv`:
  when the loop has passed an entry that a key names, the key holds an address.
  `AddressesAreQuads`: of all texts, of any length, `isValidIp4` accepts the dotted
  quads and nothing else.  `Means` says of the locals what has been read (a dot
  behind every number, the digits since then and what they spell), and the loop
  keeps it.  The library's induction theorems cannot be used, so lemma `Inductive`
  states induction about a set, from the well-foundedness of the order.  It
  follows that only dotted quads are accepted (`AddressesAreRecognised`), and
  `GoodFilesPass` is about those that the file and the system hold, not about what
  `isValidIp4` makes of them.
* `MetadataProofs`, first for `SensorInfo` and `CsvWriter` on their own, that is
  however their calls are timed.  `NoStateIsNone`: a struct keeps the state NONE only between the
  first test of `has_temp` and the decision.  `CsvFilesAreWhole`: for any number of
  threads that exchange the sink at once, of files and of frames.  The invariant
  says that a sink, `csv_filepath` or a swap can refer to a file only when its header
  is written (`HeaderWritten`), that a header is due only for a file nobody refers
  to (`HeaderDue`), and that every line that waits is behind every line that was
  written (`LinesBehind`).  Most steps of a swap give no file a new reference;
  lemma `Quiet` does them all.  `SinkIsOfPath` adds `SinkInv`: as long as no two swaps
  have overlapped, the one swap that runs knows, at each of its lines, where the
  sink is that `csv_filepath` names.
  The program composes both with the status broadcast: `ProgramCallsSensor` and
  `ProgramWritesCsv` show that every step of `Metadata` is one of theirs or leaves
  their state alone, and `MetadataIsSound` that the properties carry over.
  `ConfigIsKept`, for any configuration, scripts and readings: the status messages
  leave the JSON of config.json as it was, free nothing twice, and leave no block of a
  message behind.  The
  argument is about a message while it is built: its blocks are apart from those of
  config.json, and what its items own is in it and owned once (a reference owns
  neither children nor value).  The lemmas about the heap are in `CJSONProofs`:
  `AddsItem` and `Joined` show that adding an item to an
  object or an array keeps this, and
  `TreeDeleted` that `Delete` then frees the message and nothing else: everything owned
  is reached, by induction over what is not reached yet.  `Formatted` is the whole message.  `HeapInv` says that between
  messages the heap is config.json's and the struct of the sensor.  It rests on
  `StatusAssumption`: the heap the messages find is whole, and the capabilities of a
  script are an item of it or absent, as readConfigFile leaves them.
* **The parser of cJSON** (`CJSONProofs`, from the frames on).  `ParsedIsFreed`, for
  texts of any length and nesting and for any limit: a text that is refused, at any
  token and in any depth, leaves the heap empty, and what a text is parsed into is freed
  by one `Delete`; nothing is freed twice and nothing is lost.  While a text is read
  the heap is a forest (`Forest`): a tree for the root and one for the members of
  every list that is open, since a list hangs its members on its item only when it ends.
  Blocks are allocated in turn, so every pointer leads onward and the tree of the
  innermost list is the last part of the heap; `ForestCut` deletes it and leaves a
  forest.  `Standing` says this of a parser that still reads, and how its frames lie
  one behind the other (`Frames`); one lemma per `parse_*` function keeps it
  (`LiteralStands`, `StringStands`, `NameStands`, `ListBegunStands`, `MemberStands`,
  `ListEndStands`), and `UnwoundToRoot` follows a refusal back to the root.

  `ParsedIsClean` adds that what was built prints as the tokens that were read, and
  no others: none is dropped, doubled or exchanged, however lists are nested.  Its
  invariant gives every item a place in the text (`Placed`), which nothing in the
  program keeps: the list it is a member of, where its name and its value begin, and
  where they end.  `Places` says that the tokens there spell the item, its name and
  the bracket, colon and comma around them, but for the items whose value, name or
  colon is still to come; `StandsAt` ties the line that waits to the token that
  is read next.  Each line of the parser moves this on by one token
  (`AdvancedKeeps`).  When the root has its end, `SettledPrints` shows, by induction
  over the passes of `Printed`, that each item prints as the tokens of its place.

Only model-checked: liveness (`RecordingEnds`, `ClipEnds`, `RecordingEndsInStream`,
`TriggersHeard`, `InterruptEnds`), which needs fairness and ENABLED, out of the
prover's reach; and that a receiver can read a status message (`MessageReadable`),
the converse of `ParsedIsClean`: that a tree built by the program prints as a text
that is not refused.

## Assumptions

* A GLib id is not reused while it is live or remembered.
* `Startup`: what the child does that goes on as a second camera is not followed,
  nor is the return value of `gst_rtsp_server_attach`, which main does not look at.
  A SIGINT that reaches a child before its `execvp` runs the camera's handler and
  changes nothing in the script that the child becomes.
* `Config`: no key twice in one object, a file shorter than the 4096 byte buffer, no
  empty strings.  getifaddrs lists dotted quads under names that are none.
* `CJSON`: allocation succeeds; white space and the escapes inside a string are left
  out.  Of `loadSensorSetupInfo` only the root of the JSON is freed (sensor.c:576):
  the leak, like that of the name strings and of the struct of a camera that
  does not answer (sensor.c:254), is not followed.  sensor.json is shorter than its
  1024 byte buffer.  Numbers are counted in tenths, enough for a cast to int to
  lose something.
* `SensorSetup`: cameras of one name have one color filter (`media_configure` compares
  the names only), and `Numbers` has every value that a setting can take.
* `SensorInfo`: the settings of a camera are read in one step, and so are
  temperature and state; `CsvWriter`: a line is pushed in one step, and a sink that
  is at NULL or unlinked at that moment loses it.
* In `CameraThreads` raw recording is on and storage works; reads and writes of
  one field are atomic.  Only the ids and the value of the path are followed:
  `record_raw` overwrites the old path and does not free it (pipeline.c:37), and so
  does `stop_record_raw` (pipeline.c:51), so the block of every clip is lost.

## Findings

* `camera_filed`: datagrams that wait together are read as one text.  Only the
  first command is executed, and its timestamp is glued to the next label.
* `recorder_default`: a clip that reaches the limit can be reopened, and so
  truncated, by splitmuxsink before the timer moves the path on.
* `threads_session`: when an expired session's media is cleaned up on the main
  loop while the next one is configured, the id of a watch is lost, and the
  program goes on listening after the stream.
* `startup_exec`: there is no exit behind `execvp`.
* `sensor_settings`: docs/App_Systems.md:96 says that exposure time and gain that are set
  on the sensor are written to sensor.json, so that they persist.
  `setSensorExposureTime` and `setSensorGain` (sensor.c:671-681) write to pylonsrc only.
  Even the next stream of the same program begins with the old value.

Seen while modelling, without a run of its own:

* A Ctrl-C between `signal` (main.c:270) and `g_main_loop_run` (main.c:321) ends the
  scripts and is forgotten by the loop, against docs/Manual.md:138-141.  `Startup` has
  the steps.
* Two failure jumps of main have the wrong label; `LabelsUseWhatIsValid` names them
  as its exceptions (`WrongJump`).  A pipeline string that cannot be formatted goes to
  `cleanup_hardware_scripts` (main.c:143), where the number of scripts, their ids, the
  listener and the sources are not assigned.  A listener that cannot be started goes
  to `cleanup_status_broadcast` (main.c:258), which removes a timer that is not there
  yet (main.c:337).
* A script that main signals before its `execvp` is left running.  After a failed
  fork the signals follow the earlier forks at once (main.c:306), so there this is to
  be expected (`NoScriptOutlives` names it as its exception).
* No label frees the status socket and its address, the address of the listener,
  the session timer, `pipeline_string_format` or `mount_point_str`, so main always
  exits with them.  A failed csv element leaves the ones that were made, a failed
  fork the arguments of its script, a failed bind the listener.
* One address on two interfaces: each match of `replace_with_address` overwrites the
  broadcast address (config.c:431), so status messages go to that of the last
  interface, though Control IP names another one, and the string before it is lost.
  `FailureFreesAll` speaks of blocks that a pointer still holds and does not see it.
* A start trigger that is handled while the viewer leaves assigns its path after
  the cleanup, and the next stream records from its first frame (`CameraThreads`).
* `new_csv` can run on the client thread and on the main loop at once.  Then
  `csv_filepath` is freed twice, or a sink appends to the file of the other call:
  without its premise `SinkFollowsPath` is false after two overlapping swaps.  The
  lines that are written stay in order even then (`CsvFilesAreWhole`).
* A line that meets the stopped sink ends the queue's thread for good, and the
  csv files of all later streams stay empty but for the header (`stalled`).
* A camera that is unplugged, or at exactly 0 degrees, when it is first asked is
  taken to have no temperature until the program ends; one that is unplugged
  later makes the probe format a NULL struct.
* The status message of an idle camera has "Sensor Temperature" twice and no
  "Gain" (statusbroadcaster.c:109-113).
* `isValidIp4` accepts leading zeros, which GLib refuses.
* A sensor.json without NVMM leaves `use_nvmm` uninitialised (sensor.c:526), and one
  that does not parse is followed as NULL (sensor.c:528).

* A sensor that is rejected before the sink was first set makes the cleanup of the
  media emit `split-now` on an uninitialised pointer (rtsp_server.c:33;
  `CleanupAborts`), and a media that is freed while the status timer asks its
  camera ends the program too (statusbroadcaster.c:151; `SourceGone`).
* Buffers at their limit: a read of 1024 bytes (udp_server.c:216), a config.json of
  4096 (config.c:210), a full line of pipeline.txt (config.c:516).  The models
  assume shorter inputs.
* A config.json without Raw Time Limit leaves 0 (config.c:95), where
  docs/App_Systems.md:86 gives a default of 600.
* The time in a csv line is "%d.%d" of seconds and nanoseconds, without leading
  zeros (sensor.c:358), so times need not increase as the lines do.

## Not modelled

* Of `Config`: `gst_pipeline_txt_gen` and `copy_file`, one pass over a file each.
* Of the status broadcast: `setup_socket`, `readCPUTemp` and `statfs`, whose results are
  values of `Machines`.  Of the trigger protocol: opening and closing the socket.
* The layout of a csv line, and the setters that nothing calls.
* Of cJSON: duplicate, compare, minify, the escapes of strings and failing
  allocations; the program does not call the first three.
* A start message delivered twice with one timestamp, in `RawRecorder`.
* Logging and printing have no state.  The text commands that the ISSI and
  Fujinon classes write to their devices are one line each.
