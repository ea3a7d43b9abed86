------------------------------ MODULE SensorInfo ------------------------------
(***************************************************************************)
(* getSensorDynamicInfo (sensor.c), called from two threads: the main loop  *)
(* asks for the status message, the streaming thread for every frame.  What *)
(* the first call reads decides, in the static has_temp, whether the        *)
(* temperature is ever read again.                                         *)
(***************************************************************************)
EXTENDS Integers

CONSTANTS Callers,     \* the threads that call
          Reports,     \* what an attached camera can report
          Unplugged    \* no camera answers

VARIABLES camera,      \* the report the camera would give now, or Unplugged
          has_temp,    \* -1: not known, 0: no temperature, 1: has one
          at,          \* at[caller]: where the call is
          info         \* info[caller]: the struct it fills

sensorVars == <<camera, has_temp, at, info>>

States == {"OK", "CRITICAL", "ERROR", "NONE"}

ASSUME SensorInfoAssumption ==
  /\ Unplugged \notin Reports
  /\ \A report \in Reports : report.state \in States

Settings(report) ==
  [name |-> report.name, gain |-> report.gain,
   exposure_time |-> report.exposure_time, temperature |-> 0, state |-> "OK"]

\* The struct after memset: state 0 is OK.
Cleared == [name |-> "NULL", gain |-> 0, exposure_time |-> 0,
            temperature |-> 0, state |-> "OK"]

SensorInit ==
  /\ camera \in Reports
  /\ has_temp = -1
  /\ at = [caller \in Callers |-> "idle"]
  /\ info = [caller \in Callers |-> Cleared]

\* The camera warms up or cools down, is unplugged, or another one plugged in.
CameraChanges ==
  /\ \/ camera # Unplugged /\ camera' = Unplugged
     \/ \E report \in Reports \ {camera} :
          /\ camera # Unplugged => (camera.state = "NONE") = (report.state = "NONE")
          /\ camera' = report
  /\ UNCHANGED <<has_temp, at, info>>

GetInfo(caller) ==
  /\ at[caller] = "idle"
  /\ at' = [at EXCEPT ![caller] = "settings"]
  /\ info' = [info EXCEPT ![caller] = Cleared]
  /\ UNCHANGED <<camera, has_temp>>

\* The settings; without a name the call fails.
GetSettings(caller) ==
  /\ at[caller] = "settings"
  /\ \/ /\ camera = Unplugged
        /\ at' = [at EXCEPT ![caller] = "failed"]
        /\ UNCHANGED info
     \/ /\ camera # Unplugged
        /\ at' = [at EXCEPT ![caller] = "latch"]
        /\ info' = [info EXCEPT ![caller] = Settings(camera)]
  /\ UNCHANGED <<camera, has_temp>>

\* Where a call goes for each value of has_temp.
Branch == [known \in {-1, 0, 1} |->
             CASE known = -1 -> "first" [] known = 0 -> "done" [] OTHER -> "again"]

TestLatch(caller) ==
  /\ at[caller] = "latch"
  /\ at' = [at EXCEPT ![caller] = Branch[has_temp]]
  /\ info' = [info EXCEPT ![caller].state = IF has_temp = -1 THEN "NONE" ELSE @]
  /\ UNCHANGED <<camera, has_temp>>

\* A camera that is gone, or has no such feature, leaves the struct as it is.
Reading(caller) ==
  IF camera = Unplugged \/ camera.state = "NONE" THEN info[caller]
  ELSE [info[caller] EXCEPT !.temperature = camera.temperature,
                            !.state = camera.state]

ReadTemperature(caller) ==
  /\ at[caller] \in {"first", "again"}
  /\ info' = [info EXCEPT ![caller] = Reading(caller)]
  /\ at' = [at EXCEPT ![caller] = IF @ = "first" THEN "decide" ELSE "done"]
  /\ UNCHANGED <<camera, has_temp>>

NoTemperature(read) == read.temperature = 0 \/ read.state = "NONE"

\* A faulty variant: the state is left at NONE.
StateLeft(read) == read

\* "set it to a valid value, never touch it again".
Validated(read) == IF NoTemperature(read) THEN [read EXCEPT !.state = "OK"] ELSE read

SetLatch(caller) ==
  /\ at[caller] = "decide"
  /\ has_temp' = IF NoTemperature(info[caller]) THEN 0 ELSE 1
  /\ info' = [info EXCEPT ![caller] = Validated(info[caller])]
  /\ at' = [at EXCEPT ![caller] = "done"]
  /\ UNCHANGED camera

\* The caller has used the struct and frees it.
Release(caller) ==
  /\ at[caller] \in {"done", "failed"}
  /\ at' = [at EXCEPT ![caller] = "idle"]
  /\ info' = [info EXCEPT ![caller] = Cleared]
  /\ UNCHANGED <<camera, has_temp>>

InCall(caller) ==
  GetSettings(caller) \/ TestLatch(caller) \/ ReadTemperature(caller) \/ SetLatch(caller)

\* The callers on their own, for what holds however they are called.
SensorNext ==
  \/ CameraChanges
  \/ \E caller \in Callers : GetInfo(caller) \/ InCall(caller) \/ Release(caller)

SensorSpec == SensorInit /\ [][SensorNext]_sensorVars
-----------------------------------------------------------------------------
\* The comment at sensor.c:281 says the state of a camera without a temperature
\* is set "to a valid value" once and for all: whichever caller decides while the
\* other one reads, and whenever the camera is unplugged, no status message and
\* no line of csv is made of a struct whose state is NONE.
TemperatureValid ==
  \A caller \in Callers : at[caller] = "done" => info[caller].state # "NONE"
=============================================================================
