------------------------------ MODULE MCMetadata ------------------------------
(* Values for the constants of Metadata.                                   *)
EXTENDS StatusReader, TLC

\* The names of csv files are interchangeable.
PathSymmetry == Permutations(Paths)

\* The capabilities of two scripts of a config.json.
FocusText == <<Token("["), Token("{"), String("Name"), Token(":"), String("Focus"),
               Token("}"), Token("]")>>
LightText == <<Token("["), Token("]")>>

Script(text) == <<Token("{"), String("Capabilities"), Token(":")>> \o text \o <<Token("}")>>

ConfigJSON == Parse(EmptyHeap, <<Token("[")>> \o Script(FocusText) \o <<Token(",")>>
                                \o Script(LightText) \o <<Token("]")>>)

MCConfigHeap == ConfigJSON.heap

CapabilitiesOf(i) ==
  LET blocks == MCConfigHeap.blocks
  IN blocks[Items(MCConfigHeap, blocks[ConfigJSON.item].child)[i]].child

MCScripts ==
  <<[name |-> "focus", port |-> 5001, capabilities |-> CapabilitiesOf(1), text |-> FocusText],
    [name |-> "light", port |-> 5002, capabilities |-> CapabilitiesOf(2), text |-> LightText]>>

\* A config.json without a lens.
MCControlData ==
  [name |-> String("cam"), hostname |-> String("host"), controlIP |-> String("10.0.0.2"),
   controlPort |-> Number(6000), location |-> String("roof"), range |-> Number(0),
   lensName |-> Absent, rawStorage |-> String("/data/"), RTSPaddress |-> String("10.0.0.2")]

MCMachines ==
  {[is_raw_recording |-> FALSE, memory_remaining_gb |-> 1, disk_size_gb |-> 2,
    cpu_temp |-> -1, timestamp |-> 3]}

Camera(temperature, state) ==
  [name |-> "acA4096-30um", gain |-> 0, exposure_time |-> 50000,
   temperature |-> temperature, state |-> state]

\* A camera at room temperature and too hot; a camera without a temperature.
MCReports == {Camera(300, "OK"), Camera(900, "CRITICAL"), Camera(0, "NONE")}
=============================================================================
