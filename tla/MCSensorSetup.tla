---------------------------- MODULE MCSensorSetup ----------------------------
(* Values for the constants of SensorSetup.                                *)
EXTENDS SensorText

Model(name, filter, auto) ==
  [name |-> name, serial_number |-> name, filter |-> filter,
   exposure_auto |-> auto, gain_auto |-> 0,
   pixel_size |-> 8, binning |-> -1, binning_mode |-> -1, shutter |-> 2]

\* Two cameras of one size, and one with an unknown color filter.
Mono    == Model("acA4096-30um", 0, 0)
Color   == Model("acA4096-30uc", 3, 2)
Unknown == Model("acA2040-90uc", 5, 0)

MCModels == {Mono, Color, Unknown}

\* Settings that are neither whole nor default.
MCCameras ==
  {[model |-> Mono, exposure_time |-> 15, gain |-> 15],
   [model |-> Color, exposure_time |-> 999995, gain |-> 15],
   [model |-> Unknown, exposure_time |-> 0, gain |-> 0]}

\* A number that saturates, a string, a nested and an empty list's bracket.
MCEdits == {Tenths(1999999), String("x"), Token("["), Token("bad")}

\* What the settings of the cameras are cut to, what an edited file can hold
\* in their place, and what a message sets.
MCNumbers == {0, 10, 15, 999990, 999995}
=============================================================================
