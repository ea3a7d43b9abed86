------------------------------ MODULE SensorText ------------------------------
(***************************************************************************)
(* The text of sensor.json and of a stream's sensor metadata (sensor.c):   *)
(* what sensorSetupInfoJSON and sensorStaticInfoJSON print of a camera, and *)
(* what loadSensorSetupInfo reads from a text, through cJSON.              *)
(***************************************************************************)
EXTENDS SensorSetup
LOCAL INSTANCE SequencesExt

CONSTANT Edits          \* tokens an editor puts in the place of a value

NoText == "NULL"
-----------------------------------------------------------------------------
(* sensorSetupInfoJSON and sensorStaticInfoJSON.                           *)

Autos == <<"AUTO_OFF", "AUTO_ONCE", "AUTO_CONTINUOUS">>

AutoName(auto) == IF auto + 1 \in DOMAIN Autos THEN Autos[auto + 1] ELSE "ERROR"

\* (int) of a double, so that it prints without a fraction.
IntNumber(number) == Number(Truncate(number))

\* The members of sensor.json; settings are cast to int.
SetupFields(info) ==
  <<Field("Model", String(info.name)),
    Field("Serial Number", String(info.serial_number)),
    Field("Width", Number(info.width)), Field("Height", Number(info.height)),
    Field("Caps Type", String(info.caps_type)),
    Field("Color Filter", String(info.pixel_color_filter)),
    Field("Exposure Time", IntNumber(info.exposure_time)),
    Field("Gain", IntNumber(info.gain)),
    Field("Auto Exposure", String(AutoName(info.exposure_auto))),
    Field("Auto Gain", String(AutoName(info.gain_auto))),
    Field("NVMM", Bool(FALSE))>>

\* sensorSetupInfoJSON.
SetupText(info) ==
  LET root == CreateObject(EmptyHeap)
  IN Printed(AddFields(root.heap, root.item, SetupFields(info)), root.item)

\* Binning of sensorStaticInfoJSON: -1 when the camera has none.
BinningMode(mode) == CASE mode = 1  -> {"Average"} [] mode = 0 -> {"Sum"}
                       [] mode = -1 -> {"None"}    [] OTHER    -> {}

StaticFields(camera) ==
  LET model == camera.model
      Binning == Number(IF model.binning = -1 THEN 1 ELSE model.binning)
  IN {<<Field("Pixel Bit Depth", Number(model.pixel_size)),
        Field("Gamma", Number(1)),
        Field("Horizontal Binning", Binning),
        Field("Horizontal Binning Mode", String(mode)),
        Field("Vertical Binning", Binning),
        Field("Vertical Binning Mode", String(mode)),
        Field("Shutter Mode", String(IF model.shutter = 2 THEN "Global" ELSE "Unknown"))>>
      : mode \in BinningMode(model.binning_mode)}

\* sensorStaticInfoJSON: no text for a binning mode it does not know.
StaticTexts(camera) ==
  LET root == CreateObject(EmptyHeap)
      text(info, fields) ==
        Printed(AddFields(root.heap, root.item, SetupFields(info) \o fields),
                root.item)
  IN UNION {{text(info, fields) : fields \in StaticFields(camera)}
              : info \in SensorSetupInfo(camera)}
-----------------------------------------------------------------------------
(* loadSensorSetupInfo.                                                    *)

\* The struct as memset leaves it; use_nvmm is not initialised.
Unloaded ==
  [name |-> NoText, serial_number |-> NoText, width |-> 0, height |-> 0,
   caps_type |-> NoText, pixel_color_filter |-> NoText,
   exposure_time |-> 0, gain |-> 0, exposure_auto |-> 0, gain_auto |-> 0]

StringKeys == {"Model", "Serial Number", "Caps Type", "Color Filter",
               "Auto Exposure", "Auto Gain"}

\* Settings the file does not know are OFF.
AutoValue(text) == IF \E i \in DOMAIN Autos : Autos[i] = text
                   THEN (CHOOSE i \in DOMAIN Autos : Autos[i] = text) - 1 ELSE 0

LoadField(info, key, text, valueint) ==
  CASE key = "Model"         -> [info EXCEPT !.name = text]
    [] key = "Serial Number" -> [info EXCEPT !.serial_number = text]
    [] key = "Caps Type"     -> [info EXCEPT !.caps_type = text]
    [] key = "Color Filter"  -> [info EXCEPT !.pixel_color_filter = text]
    [] key = "Width"         -> [info EXCEPT !.width = valueint]
    [] key = "Height"        -> [info EXCEPT !.height = valueint]
    [] key = "Exposure Time" -> [info EXCEPT !.exposure_time = 10 * valueint]
    [] key = "Gain"          -> [info EXCEPT !.gain = 10 * valueint]
    [] key = "Auto Exposure" -> [info EXCEPT !.exposure_auto = AutoValue(text)]
    [] key = "Auto Gain"     -> [info EXCEPT !.gain_auto = AutoValue(text)]
    [] OTHER                 -> info

Complete(info) ==
  /\ NoText \notin {info.name, info.serial_number, info.caps_type,
                    info.pixel_color_filter}
  /\ 0 \notin {info.width, info.height}

\* The items of the object that was read, with their strings.
Members(blocks, items) ==
  LET text(p) == IF p = NULL THEN NoText ELSE blocks[p].text
      member(it) == [key |-> text(it.string), text |-> text(it.valuestring),
                     valueint |-> it.valueint]
  IN [i \in DOMAIN items |-> member(blocks[items[i]])]

FollowsNull(members) ==
  \E m \in ToSet(members) :
    m.key = NoText \/ (m.key \in StringKeys /\ m.text = NoText)

\* use_nvmm is what the last "NVMM" says, and not initialised without one.
UseNVMM(members) ==
  LET last == SelectLastInSeq(members, LAMBDA m : m.key = "NVMM")
  IN IF last = 0 THEN BOOLEAN ELSE {members[last].valueint # 0}

LoadMembers(members) ==
  LET load(info, m) == LoadField(info, m.key, m.text, m.valueint)
      settings(info) == {[settings |-> info, nvmm |-> b] : b \in UseNVMM(members)}
      checked(info) == IF Complete(info) THEN settings(info) ELSE {}
  IN IF FollowsNull(members) THEN {} ELSE checked(FoldLeft(load, Unloaded, members))

LoadItem(json) ==
  IF json.item = NULL THEN {}
  ELSE LoadMembers(Members(json.heap.blocks,
                           Items(json.heap, json.heap.blocks[json.item].child)))

\* What main can be left with: nothing when it cannot go on (a JSON or a string
\* that is NULL is followed, or a field is missing), else the settings with
\* the value use_nvmm has.
LoadSensorSetupInfo(text) == LoadItem(Parse(EmptyHeap, text))
-----------------------------------------------------------------------------
\* What a user makes of a file: a token is replaced, or a member removed.
EditedText(text) ==
  {ReplaceAt(text, at, token) : at \in DOMAIN text, token \in Edits} \cup
  {SubSeq(text, 1, at - 1) \o SubSeq(text, at + 4, Len(text)) : at \in DOMAIN text}
=============================================================================
