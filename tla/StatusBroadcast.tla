--------------------------- MODULE StatusBroadcast ---------------------------
(***************************************************************************)
(* The status message (statusbroadcaster.c): once per period the main loop  *)
(* asks the camera, builds a JSON object in cJSON's heap, sends it and      *)
(* deletes it.  The capabilities of the hardware scripts are not copied:    *)
(* the message points into the JSON of config.json, which has to survive.   *)
(***************************************************************************)
EXTENDS CJSON, SensorInfo

CONSTANTS ConfigHeap,   \* the heap with the JSON of config.json in it
          Scripts,      \* [name, port, capabilities: an item of it, text]
          ControlData,  \* values of config.json that the message repeats
          Machines      \* readings of the machine: disk, CPU, clock, recording

\* The JSON of config.json is whole, and what a script shares with a message is
\* an item of it, or nothing.
ASSUME StatusAssumption ==
  /\ IsHeap(ConfigHeap) /\ ConfigHeap.sound = TRUE
  /\ Len(Scripts) \in Nat
  /\ \A n \in 1 .. Len(Scripts) : Scripts[n].capabilities # NULL =>
       /\ Scripts[n].capabilities \in DOMAIN ConfigHeap.blocks
       /\ IsItem(ConfigHeap.blocks[Scripts[n].capabilities])

VARIABLES heap, sensor_info,   \* cJSON's heap and the struct of the sensor
          status,              \* "idle", "info" (asking the camera) or "send"
          message              \* the last text sent, or <<>>

statusVars == <<heap, sensor_info, status, message>>

StatusInit ==
  /\ heap = ConfigHeap /\ sensor_info = NULL
  /\ status = "idle" /\ message = <<>>

\* status_broadcaster, up to the sensor.  freeSensorDynamicInfo clears its own
\* copy of the pointer only.
StatusBegin(is_streaming) ==
  /\ status = "idle"
  /\ \/ /\ is_streaming
        /\ heap' = Free(heap, sensor_info)
        /\ status' = "info" /\ GetInfo("status")
     \/ /\ ~is_streaming
        /\ heap' = Free(Free(heap, sensor_info), sensor_info)
        /\ status' = "send" /\ UNCHANGED sensorVars
  /\ UNCHANGED <<sensor_info, message>>

\* What getSensorDynamicInfo returns: a block, or NULL.
StatusInfo ==
  /\ status = "info"
  /\ \/ /\ at["status"] = "done"
        /\ heap' = Allocate(heap, [info |-> info["status"]])
        /\ sensor_info' = Fresh(heap)
     \/ /\ at["status"] = "failed"
        /\ sensor_info' = NULL /\ UNCHANGED heap
  /\ Release("status")
  /\ status' = "send" /\ UNCHANGED message
-----------------------------------------------------------------------------
(* formatStatusBroadcastJSON.                                              *)

ConfigFields ==
  <<Field("Name", ControlData.name), Field("Hostname", ControlData.hostname),
    Field("IP Address", ControlData.controlIP),
    Field("Control Port", ControlData.controlPort),
    Field("Location", ControlData.location),
    Field("Range (m)", ControlData.range), Field("Lens", ControlData.lensName),
    Field("Recording Directory", ControlData.rawStorage),
    Field("RTSP Address", ControlData.RTSPaddress)>>

StateName(state) == IF state = "NONE" THEN "BAD VALUE" ELSE state

SensorFields(si) ==
  <<Field("Sensor", String(si.name)),
    Field("Sensor Temperature", Tenths(si.temperature)),
    Field("Exposure Time", Tenths(si.exposure_time)),
    Field("Gain", Tenths(si.gain)),
    Field("Sensor Temperature State", String(StateName(si.state)))>>

InactiveFields ==
  <<Field("Sensor", String("Pipeline Inactive")),
    Field("Sensor Temperature", Number(0)), Field("Sensor Temperature", Number(0)),
    Field("Exposure Time", Number(0)),
    Field("Sensor Temperature State", String("OK"))>>

MachineFields(is_streaming, machine) ==
  <<Field("RTSP", Bool(is_streaming)), Field("Raw", Bool(machine.is_raw_recording)),
    Field("Memory Remaining (GB)", Number(machine.memory_remaining_gb)),
    Field("Disk Size (GB)", Number(machine.disk_size_gb)),
    Field("CPU Temperature", Number(machine.cpu_temp)),
    Field("Timestamp", Number(machine.timestamp))>>

\* One element of the hardware list; atoi has been applied to the port.
AddHardware(h, hardware_list, script) ==
  LET hardware == CreateObject(h)
      listed   == AddItemToArray(hardware.heap, hardware_list, hardware.item)
      named    == AddFields(listed, hardware.item,
                            <<Field("Name", String(script.name)),
                              Field("Control Port", Number(script.port))>>)
  IN AddItemReferenceToObject(named, hardware.item, "Capabilities",
                              script.capabilities)

AddHardwareList(h, hardware_list) ==
  LET added[n \in 0 .. Len(Scripts)] ==
        IF n = 0 THEN h ELSE AddHardware(added[n - 1], hardware_list, Scripts[n])
  IN added[Len(Scripts)]

\* The object that is sent, in the heap that holds it.
FormatStatusBroadcastJSON(is_streaming, machine) ==
  LET root   == CreateObject(heap)
      sensor == IF sensor_info = NULL THEN InactiveFields
                ELSE SensorFields(heap.blocks[sensor_info].info)
      filled == AddFields(root.heap, root.item,
                          ConfigFields \o sensor \o MachineFields(is_streaming, machine))
      list   == CreateArray(filled)
      listed == AddItemToObject(list.heap, root.item, "Hardware", list.item)
  IN [heap |-> AddHardwareList(listed, list.item), item |-> root.item]

\* The rest of status_broadcaster: the text is sent, the object deleted.
StatusSend(is_streaming) ==
  /\ status = "send"
  /\ \E json \in {FormatStatusBroadcastJSON(is_streaming, machine) : machine \in Machines} :
       /\ message' = Printed(json.heap, json.item)
       /\ heap' = Free(Delete(json.heap, json.item), sensor_info)
  /\ sensor_info' = NULL /\ status' = "idle"
  /\ UNCHANGED sensorVars
-----------------------------------------------------------------------------
\* However many messages have shared it, the JSON of config.json is as it was
\* read, block by block, nothing has been freed twice, and nothing of a message
\* is left over: all that is allocated besides is the struct sensor_info points to.
ConfigJSONKept ==
  /\ heap.sound
  /\ [p \in DOMAIN heap.blocks \ {sensor_info} |-> heap.blocks[p]] = ConfigHeap.blocks
=============================================================================
