----------------------------- MODULE SensorSetup -----------------------------
(***************************************************************************)
(* How the settings of a camera reach a stream (sensor.c): sensor_setup     *)
(* writes what the attached camera reports to sensor.json, the camera      *)
(* program loads it when it starts, and media_configure compares the names *)
(* before it lets a viewer's stream use it.  In between the file may be cut *)
(* short, edited by hand, or be that of another camera.  What is written   *)
(* and how it is read is given by operators, which SensorText defines; the *)
(* parser that reads it is that of CJSONParse.                             *)
(***************************************************************************)
EXTENDS CJSONParse

CONSTANTS Models,      \* what a camera is, whatever its settings
          Cameras,     \* cameras that can be attached
          NoCamera,    \* no camera is attached
          Numbers,     \* values that an exposure time or a gain can have
          ExposureTimes, \* exposure times (tenths) that messages set
          MaxChanges,  \* bound on the changes from outside the program
          Written(_),  \* sensorSetupInfoJSON of a setup: its text
          Recorded(_), \* sensorStaticInfoJSON of a camera: the possible texts
          Edited(_),   \* what one edit can make of a text
          Load(_)      \* loadSensorSetupInfo of a text: what it can return

VARIABLES attached,    \* the camera on the bus, with its settings
          setup,        \* the camera sensor_setup is writing down, or NoCamera
          sensor_json,  \* [text, of: the camera it was written for, edited]
          program,      \* "off" or "running"
          loaded,       \* what main loaded: [info, of, edited]
          media,        \* the caps and the sensor metadata of the stream
          message_set,  \* history: the exposure time that the last message set,
                        \* unless a setup, an edit or an exchange came after it
          changes       \* changes from outside so far

setupVars ==
  <<attached, setup, sensor_json, program, loaded, media, message_set, changes>>
-----------------------------------------------------------------------------
(* sensor.c.                                                               *)

Resolution(name) ==
  LET size(w, h) == [width |-> w, height |-> h]
  IN CASE name \in {"acA4112-30um", "acA4112-30uc", "a2A3840-45ucPRO"} -> size(3840, 2160)
       [] name = "acA2040-90um"                       -> size(2048, 2048)
       [] name = "acA2040-90uc"                       -> size(2040, 2046)
       [] name \in {"acA2040-120um", "acA2040-120uc"} -> size(2048, 1536)
       [] name = "a2A5328-15ucPRO"                    -> size(5328, 4608)
       [] name \in {"acA4096-30uc", "acA4096-30um"}   -> size(4096, 2168)
       [] name \in {"acA1920-155um", "acA1920-150uc"} -> size(1920, 1200)
       [] OTHER                                       -> size(1920, 1080)

ColorFilter(filter) == <<"GRAY8", "rggb", "gbrg", "grbg", "bggr">>[filter + 1]

CapsType(filter) == IF filter = 0 THEN "video/x-raw" ELSE "video/x-bayer"

\* getSensorSetupInfo: nothing when no camera answers, or one whose color
\* filter is unknown.
SensorSetupInfo(camera) ==
  LET model == camera.model
  IN IF camera = NoCamera \/ model.filter \notin 0 .. 4 THEN {}
     ELSE {[name |-> model.name, serial_number |-> model.serial_number,
            width |-> Resolution(model.name).width,
            height |-> Resolution(model.name).height,
            caps_type |-> CapsType(model.filter),
            pixel_color_filter |-> ColorFilter(model.filter),
            exposure_time |-> camera.exposure_time, gain |-> camera.gain,
            exposure_auto |-> model.exposure_auto, gain_auto |-> model.gain_auto]}

\* What the cast to int leaves of a setup's settings, in tenths.
Whole(info) == [info EXCEPT !.exposure_time = 10 * Truncate(@),
                            !.gain = 10 * Truncate(@)]

Caps(loadedInfo) ==
  LET s == loadedInfo.settings
  IN <<s.caps_type, loadedInfo.nvmm, s.pixel_color_filter, s.width, s.height>>
-----------------------------------------------------------------------------
(* What the constants have to satisfy.                                     *)

\* The cameras, with any settings.
Shots == [model : Models, exposure_time : Numbers, gain : Numbers]

\* What reaches the file of a text: any part of it from its beginning.
Beginnings(text) == {SubSeq(text, 1, n) : n \in 0 .. Len(text)}

\* What a file can hold that was not edited.
Texts ==
  {<<>>} \cup UNION {UNION {Beginnings(Written(info)) : info \in SensorSetupInfo(shot)}
                     : shot \in Shots}

\* media_configure compares nothing but names: cameras of one model have one
\* color filter.
ASSUME CamerasAssumption ==
  /\ Cameras \subseteq Shots
  /\ NoCamera \notin Shots
  /\ \A one, other \in Models : one.name = other.name => one.filter = other.filter

ASSUME NumbersAssumption ==
  /\ ExposureTimes \subseteq Numbers
  /\ \A number \in Numbers : 10 * Truncate(number) \in Numbers

\* The loader refuses a text that was cut, or reads from it what was written;
\* of an edited text it reads settings of some value.
ASSUME TextAssumption ==
  /\ Load(<<>>) = {}
  /\ \A shot \in Shots : \A info \in SensorSetupInfo(shot) :
       \A text \in Beginnings(Written(info)) :
         Load(text) \in {{}, {[settings |-> Whole(info), nvmm |-> FALSE]}}
  /\ \A text \in Texts : \A edit \in Edited(text) : \A read \in Load(edit) :
       {read.settings.exposure_time, read.settings.gain} \subseteq Numbers

\* Texts are of tokens, whoever has written or edited them.
ASSUME TokensAssumption ==
  /\ \A shot \in Shots :
       /\ \A info \in SensorSetupInfo(shot) : AreTokens(Written(info))
       /\ \A record \in Recorded(shot) : AreTokens(record)
  /\ \A text \in Texts : \A edit \in Edited(text) : AreTokens(edit)
-----------------------------------------------------------------------------
NoFile == [text |-> <<>>, of |-> NoCamera, edited |-> FALSE]

Nothing == [info |-> {}, of |-> NoCamera, edited |-> FALSE]

NoMedia == [caps |-> <<>>, record |-> <<>>]

SetupInit ==
  /\ attached \in Cameras
  /\ setup = NoCamera /\ sensor_json = NoFile
  /\ program = "off" /\ loaded = Nothing
  /\ media = NoMedia
  /\ message_set = {} /\ changes = 0

Change == changes < MaxChanges /\ changes' = changes + 1

\* Somebody changes the camera between two streams.
Attach(camera) ==
  /\ Change
  /\ media = NoMedia /\ setup = NoCamera
  /\ attached' = camera /\ message_set' = {}
  /\ UNCHANGED <<setup, sensor_json, program, loaded, media>>

\* A faulty variant: the old text stays until the new one is written.
OldTextKept(text) == text

\* fopen(..., "w").
Opened(text) == <<>>

\* writeSensorSetupJSON reads the camera and truncates the file.
SetupOpens ==
  /\ Change
  /\ setup = NoCamera /\ media = NoMedia
  /\ SensorSetupInfo(attached) # {}
  /\ setup' = attached /\ message_set' = {}
  /\ sensor_json' = [text |-> Opened(sensor_json.text), of |-> attached,
                     edited |-> FALSE]
  /\ UNCHANGED <<attached, program, loaded, media>>

\* The text reaches the file when it is closed; of a process that is killed,
\* or on a disk that fills up, any part of it does.
SetupWrites ==
  /\ setup # NoCamera /\ setup' = NoCamera
  /\ \E info \in SensorSetupInfo(setup) :
       \E text \in Beginnings(Written(info)) :
         sensor_json' = [sensor_json EXCEPT !.text = text]
  /\ UNCHANGED <<attached, program, loaded, media, message_set, changes>>

\* A user edits the file (bound: one edit after a setup).
EditFile ==
  /\ Change
  /\ setup = NoCamera /\ ~sensor_json.edited
  /\ \E edit \in Edited(sensor_json.text) :
       sensor_json' = [sensor_json EXCEPT !.text = edit, !.edited = TRUE]
  /\ message_set' = {}
  /\ UNCHANGED <<attached, setup, program, loaded, media>>

\* The start of main; the program ends when there is nothing to load.
StartProgram ==
  /\ program = "off"
  /\ \E info \in Load(sensor_json.text) :
       loaded' = [info |-> {info}, of |-> sensor_json.of,
                  edited |-> sensor_json.edited]
  /\ program' = "running"
  /\ UNCHANGED <<attached, setup, sensor_json, media, message_set, changes>>

\* A faulty variant: any camera that answers is streamed.
NameNotChecked(info, current) == TRUE

SameName(info, current) == info.settings.name = current.name

\* media_configure: the launch line gives the camera its settings.
ViewerConnects ==
  /\ program = "running" /\ media = NoMedia /\ setup = NoCamera
  /\ \E info \in loaded.info, current \in SensorSetupInfo(attached),
        record \in Recorded(attached) :
       /\ SameName(info, current)
       /\ media' = [caps |-> Caps(info), record |-> record]
       /\ attached' = [attached EXCEPT !.exposure_time = info.settings.exposure_time,
                                      !.gain = info.settings.gain]
  /\ UNCHANGED <<setup, sensor_json, program, loaded, message_set, changes>>

\* Sensor connection failed, or the current sensor has not been set up.
SensorRejected ==
  /\ program = "running" /\ media = NoMedia /\ setup = NoCamera
  /\ \/ SensorSetupInfo(attached) = {}
     \/ \E info \in loaded.info, current \in SensorSetupInfo(attached) :
          ~SameName(info, current)
  /\ program' = "off" /\ loaded' = Nothing
  /\ UNCHANGED <<attached, setup, sensor_json, media, message_set, changes>>

\* A message sets the exposure time in pylonsrc.
SetSensorExposureTime(microseconds) ==
  /\ Change
  /\ media # NoMedia
  /\ attached' = [attached EXCEPT !.exposure_time = microseconds]
  /\ message_set' = {microseconds}
  /\ UNCHANGED <<setup, sensor_json, program, loaded, media>>

ViewerLeaves ==
  /\ media # NoMedia /\ media' = NoMedia
  /\ UNCHANGED <<attached, setup, sensor_json, program, loaded, message_set, changes>>

StopProgram ==
  /\ program = "running"
  /\ program' = "off" /\ loaded' = Nothing /\ media' = NoMedia
  /\ UNCHANGED <<attached, setup, sensor_json, message_set, changes>>

SetupNext ==
  \/ \E camera \in Cameras \cup {NoCamera} : Attach(camera)
  \/ SetupOpens \/ SetupWrites \/ EditFile
  \/ StartProgram \/ ViewerConnects \/ SensorRejected
  \/ \E microseconds \in ExposureTimes : SetSensorExposureTime(microseconds)
  \/ ViewerLeaves \/ StopProgram

SetupSpec == SetupInit /\ [][SetupNext]_setupVars
-----------------------------------------------------------------------------
\* A stream asks the camera for what this camera delivers, whichever camera was
\* there when sensor.json was written and when the program was started: only
\* an edited file can ask for something else.
CapsFitCamera ==
  (media # NoMedia /\ ~loaded.edited) =>
    \E info \in SensorSetupInfo(attached) :
      media.caps = Caps([settings |-> info, nvmm |-> FALSE])

\* writeSensorSetupJSON and loadSensorSetupInfo: the program starts with the
\* settings that the camera reported to sensor_setup, cut to whole numbers,
\* however much of the file reached the disk.
SetupKept ==
  (program = "running" /\ ~loaded.edited) =>
    \E info \in SensorSetupInfo(loaded.of) :
      loaded.info = {[settings |-> Whole(info), nvmm |-> FALSE]}

\* docs/App_Systems.md:96: the settings in sensor.json "are also edited by the
\* program when those values are set on the sensor", so that they persist.  After a
\* message has set the exposure time, that is what a restart would load.
SettingsPersist ==
  program = "off" =>
    \A microseconds \in message_set, info \in Load(sensor_json.text) :
      info.settings.exposure_time = 10 * Truncate(microseconds)

\* Of every file that is written, cut or edited, and of the sensor metadata of
\* every stream, cJSON keeps each token and each block, or refuses it and
\* keeps nothing.
ParseIsClean ==
  ParsesCleanly(sensor_json.text) /\ ParsesCleanly(media.record)
-----------------------------------------------------------------------------
(* The inductive invariant behind these: SetupIInv, and RecordInv with it.  *)

\* The camera on the bus is one of the cameras, with settings of its own or
\* that a stream has given it.
BusInv == attached \in Shots \cup {NoCamera}

\* A file that is being written is empty, and one that nobody edited holds no
\* more than what was written of its camera.
FileInv ==
  /\ setup # NoCamera =>
       /\ setup \in Shots /\ media = NoMedia
       /\ sensor_json = [text |-> <<>>, of |-> setup, edited |-> FALSE]
  /\ sensor_json = [text |-> sensor_json.text, of |-> sensor_json.of,
                    edited |-> sensor_json.edited]
  /\ IF sensor_json.edited
     THEN \E text \in Texts : sensor_json.text \in Edited(text)
     ELSE \/ sensor_json.text = <<>>
          \/ /\ sensor_json.of \in Shots
             /\ \E info \in SensorSetupInfo(sensor_json.of) :
                  sensor_json.text \in Beginnings(Written(info))

\* One setup is loaded while the program runs, and none otherwise.
ProgramInv ==
  \/ /\ program = "off" /\ loaded = Nothing /\ media = NoMedia
  \/ /\ program = "running"
     /\ \E read \in loaded.info :
          /\ loaded.info = {read}
          /\ {read.settings.exposure_time, read.settings.gain} \subseteq Numbers
     /\ ~loaded.edited =>
          /\ loaded.of \in Shots
          /\ \E info \in SensorSetupInfo(loaded.of) :
               loaded.info = {[settings |-> Whole(info), nvmm |-> FALSE]}

\* A stream plays from a camera of the name that was loaded.
StreamInv ==
  media # NoMedia =>
    /\ attached \in Shots
    /\ \E read \in loaded.info, current \in SensorSetupInfo(attached) :
         SameName(read, current) /\ media.caps = Caps(read)

SetupIInv == BusInv /\ FileInv /\ ProgramInv /\ StreamInv

\* What a stream records of its camera is text.
RecordInv == AreTokens(media.record)
=============================================================================
