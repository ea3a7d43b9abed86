------------------------------- MODULE Config -------------------------------
(***************************************************************************)
(* readConfigFile: config.json is read field by field into ControlData and *)
(* Metadata, the names of network interfaces are replaced by addresses,    *)
(* and a failure jumps to the label that frees what was allocated.  Then   *)
(* the places of the program that follow the pointers it has left.         *)
(* A file holds no key twice in one object and fits the 4096 byte buffer;  *)
(* a string of it is not empty.                                            *)
(***************************************************************************)
EXTENDS Naturals, Sequences, IPv4

CONSTANTS Documents,       \* contents of config.json
          InterfaceLists,  \* what getifaddrs can return, the AF_INET entries
          Spelling,        \* the characters of the strings that can be addresses
          Texts,           \* characters to ask isValidIp4 about
          Faults,          \* library calls that can fail
          NULL

\* The addresses among the strings, and those that isValidIp4 takes for one.
DottedQuads == {string \in DOMAIN Spelling : IsDottedQuad(Spelling[string])}

Addresses == {string \in DOMAIN Spelling : IsValidIp4(Spelling[string])}

\* An object of the file: a sequence of fields with values.
IsObject(object) ==
  /\ Len(object) \in Nat
  /\ \A i \in 1 .. Len(object) : object[i].value # NULL
  /\ \A i, j \in 1 .. Len(object) :
       object[i].key = object[j].key /\ object[i].key # "number" => i = j

ASSUME ConfigAssumption ==
  /\ \A d \in Documents :
       /\ d.readable \in BOOLEAN
       /\ d.control # NULL => IsObject(d.control)
       /\ d.metadata # NULL => IsObject(d.metadata)
  /\ \A l \in InterfaceLists :
       /\ Len(l) \in Nat
       /\ \A i \in 1 .. Len(l) :
            /\ l[i].addr \in DottedQuads /\ l[i].brd \in DottedQuads
            /\ l[i].name \notin DottedQuads

ASSUME SpellingAssumption ==
  /\ NULL \notin DOMAIN Spelling
  /\ Texts \subseteq Seq(Characters)
  /\ \A string \in DOMAIN Spelling : Spelling[string] \in Seq(Characters)

VARIABLES
  doc,               \* the file
  pc, at,            \* what is next, the field it has reached
  list, ifa,         \* what getifaddrs returned for each address, the entry
  blocks,            \* what is allocated, by the pointer that holds it
  rawStorage, controlIP, broadcastAddress, RTSPaddress, location,
  head,              \* the hardware scripts
  fault              \* a library call has failed

network == <<controlIP, broadcastAddress, RTSPaddress>>
fields  == <<rawStorage, network, location, head>>
loop    == <<list, ifa>>
vars    == <<doc, pc, at, loop, blocks, fields, fault>>

AddressKeys == {"Control IP", "RTSP Address"}

Init ==
  /\ doc \in Documents
  /\ pc = "open" /\ at = 1 /\ ifa = 1
  /\ list = [key \in AddressKeys |-> <<>>]
  /\ blocks = {} /\ fault = FALSE
  /\ rawStorage = NULL /\ location = NULL /\ head = NULL
  /\ controlIP = NULL /\ broadcastAddress = NULL /\ RTSPaddress = NULL
-----------------------------------------------------------------------------
(* free_Metadata, free_ControlData and the labels.                         *)

FreeMetadata == {"metadata", "location"}

\* A faulty variant: ControlData frees its pointer to Metadata.location too.
FreeControlDataAndLocation ==
  {"control_data", "location", "controlIP", "RTSPaddress", "rawStorage",
   "hostname", "broadcastAddress", "head"}

FreeControlData ==
  {"control_data", "controlIP", "RTSPaddress", "rawStorage", "hostname",
   "broadcastAddress", "head"}

\* A faulty variant: metadata errors go to the label after theirs.
FreedAtNext(label) ==
  CASE label \in {"failed", "err"} -> {FreeControlData, {"json"}}
    [] label = "unknown metadata"  -> {FreeMetadata, FreeControlData, {"json"}}
    [] label = "exit"              -> {FreeMetadata, FreeControlData}
    [] OTHER                       -> {{"json"}}

\* The calls from a label to the return, each as the set of what it frees.
FreedAt(label) ==
  CASE label \in {"failed", "unknown metadata"} ->
         {FreeMetadata, FreeControlData, {"json"}}
    [] label \in {"failed_metadata", "err"} -> {FreeControlData, {"json"}}
    [] label = "exit"                       -> {FreeMetadata, FreeControlData}

\* Two of the calls free one block of held.
FreedTwice(calls, held) ==
  \E c, d \in calls : c # d /\ held \cap c \cap d # {}

Leave(label, end) ==
  /\ pc' = IF FreedTwice(FreedAt(label), blocks) THEN "crashed" ELSE end
  /\ blocks' = blocks \ UNION FreedAt(label)

Fail(label) == Leave(label, "failed") /\ UNCHANGED <<doc, at, loop, fields>>

\* A library call fails.
FaultAt(call, label) == call \in Faults /\ fault' = TRUE /\ Fail(label)
-----------------------------------------------------------------------------
(* The file and Control Data.                                              *)

OpenFails ==
  /\ pc = "open" /\ ~doc.readable
  /\ pc' = "failed"
  /\ UNCHANGED <<doc, at, loop, blocks, fields, fault>>

Open ==
  /\ pc = "open" /\ doc.readable
  /\ IF doc.control = NULL
     THEN pc' = "failed" /\ UNCHANGED blocks   \* failed_control frees json
     ELSE pc' = "control" /\ blocks' = {"json", "control_data"}
  /\ UNCHANGED <<doc, at, loop, fields, fault>>

Field == doc.control[at]

Reading(key) == pc = "control" /\ at <= Len(doc.control) /\ Field.key = key

NextField == at' = at + 1 /\ UNCHANGED <<doc, pc, loop, fault>>

ReadRawStorage ==
  /\ Reading("Raw Storage")
  /\ rawStorage' = Field.value /\ blocks' = blocks \cup {"rawStorage"}
  /\ NextField
  /\ UNCHANGED <<network, location, head>>

\* A bool or an int.
ReadNumber ==
  /\ Reading("number")
  /\ NextField
  /\ UNCHANGED <<fields, blocks>>

ReadUnknown == Reading("unknown") /\ Fail("err") /\ UNCHANGED fault

\* read_HardwareScripts.  A script with an unknown field ends the list with
\* NULL, which the next assignment to itr->next follows.
ReadHardwareScripts ==
  /\ Reading("Hardware Scripts")
  /\ IF \E i \in 1 .. Len(Field.value) : "unknown" \in Field.value[i]
     THEN pc' = "crashed" /\ UNCHANGED <<doc, at, loop, blocks, fields, fault>>
     ELSE /\ head' = Field.value /\ blocks' = blocks \cup {"head"}
          /\ NextField
          /\ UNCHANGED <<rawStorage, network, location>>

ReadControlIP ==
  /\ Reading("Control IP")
  /\ controlIP' = Field.value /\ blocks' = blocks \cup {"controlIP"}
  /\ pc' = "getifaddrs"
  /\ UNCHANGED <<doc, at, loop, fault, rawStorage, broadcastAddress,
                 RTSPaddress, location, head>>

ReadRTSPAddress ==
  /\ Reading("RTSP Address")
  /\ RTSPaddress' = Field.value /\ blocks' = blocks \cup {"RTSPaddress"}
  /\ pc' = "getifaddrs"
  /\ UNCHANGED <<doc, at, loop, fault, rawStorage, controlIP,
                 broadcastAddress, location, head>>
-----------------------------------------------------------------------------
(* replace_with_address, for either address.                               *)

GetIfAddrs ==
  /\ pc = "getifaddrs"
  /\ pc' = "interfaces" /\ ifa' = 1
  /\ \E l \in InterfaceLists : list' = [list EXCEPT ![Field.key] = l]
  /\ UNCHANGED <<doc, at, blocks, fields, fault>>

GetIfAddrsFails == pc = "getifaddrs" /\ FaultAt("getifaddrs", "err")

GetNameInfoFails ==
  /\ pc = "interfaces" /\ ifa <= Len(list[Field.key])
  /\ FaultAt("getnameinfo", "err")

\* A faulty variant: only the name that was configured is compared.
ByName(configured, resolved) == configured

\* The string that is compared with the address of the entry.
ByAddress(configured, resolved) == resolved

Interface ==
  /\ pc = "interfaces" /\ ifa <= Len(list[Field.key])
  /\ LET entry == list[Field.key][ifa]
         Replaced(name) == IF name = entry.name THEN entry.addr ELSE name
     IN IF Field.key = "Control IP"
        THEN /\ controlIP' = Replaced(controlIP)
             /\ IF ByAddress(controlIP, Replaced(controlIP)) = entry.addr
                THEN /\ broadcastAddress' = entry.brd
                     /\ blocks' = blocks \cup {"broadcastAddress"}
                ELSE UNCHANGED <<broadcastAddress, blocks>>
             /\ UNCHANGED RTSPaddress
        ELSE /\ RTSPaddress' = Replaced(RTSPaddress)
             /\ UNCHANGED <<controlIP, broadcastAddress, blocks>>
  /\ ifa' = ifa + 1
  /\ UNCHANGED <<doc, pc, at, list, rawStorage, location, head, fault>>

FreeIfAddrs ==
  /\ pc = "interfaces" /\ ifa > Len(list[Field.key])
  /\ pc' = "control" /\ at' = at + 1
  /\ UNCHANGED <<doc, loop, blocks, fields, fault>>
-----------------------------------------------------------------------------
(* Metadata and the checks at the end.                                     *)

ReadMetadata ==
  /\ pc = "control" /\ at > Len(doc.control)
  /\ IF doc.metadata = NULL
     THEN Fail("failed_metadata")
     ELSE /\ pc' = "metadata" /\ at' = 1
          /\ blocks' = blocks \cup {"metadata"}
          /\ UNCHANGED <<doc, loop, fields>>
  /\ UNCHANGED fault

\* Only the location is kept: ControlData.location points to the same block.
ReadMetadataField ==
  /\ pc = "metadata" /\ at <= Len(doc.metadata)
  /\ LET field == doc.metadata[at]
     IN CASE field.key = "unknown"  -> Fail("unknown metadata")
          [] field.key = "Location" ->
               /\ location' = field.value /\ blocks' = blocks \cup {"location"}
               /\ at' = at + 1
               /\ UNCHANGED <<doc, pc, loop, rawStorage, network, head>>
          [] OTHER ->
               /\ at' = at + 1
               /\ UNCHANGED <<doc, pc, loop, blocks, fields>>
  /\ UNCHANGED fault

GetHostnameFails ==
  /\ pc = "metadata" /\ at > Len(doc.metadata)
  /\ FaultAt("gethostname", "failed")

\* A faulty variant: the broadcast address is not checked.
TwoAddresses == {controlIP, RTSPaddress}

CheckedAddresses == {controlIP, broadcastAddress, RTSPaddress}

\* The JSON stays: the capabilities of the scripts point into it.
JSONKept == blocks

ReadConfigFileReturns ==
  /\ pc = "metadata" /\ at > Len(doc.metadata)
  /\ IF CheckedAddresses \subseteq Addresses
     THEN /\ pc' = "accepted" /\ blocks' = JSONKept \cup {"hostname"}
          /\ UNCHANGED <<doc, at, loop, fields>>
     ELSE Fail("failed")
  /\ UNCHANGED fault
-----------------------------------------------------------------------------
(* What the program does with the pointers; a NULL that is followed        *)
(* crashes it.                                                             *)

Follow(from, safe, next) ==
  /\ pc = from
  /\ pc' = IF safe THEN next ELSE "crashed"
  /\ UNCHANGED <<doc, at, loop, blocks, fields, fault>>

FormatRecordingDirectory == Follow("accepted", rawStorage # NULL, "forking")

\* The fields of a script that main copies for execvp.
ScriptArgs == {"Filepath", "Listener Port", "Device IP", "Device Port"}

ForkScripts ==
  Follow("forking",
         head = NULL \/ \A i \in 1 .. Len(head) : ScriptArgs \subseteq head[i],
         "running")

\* parseTrigger compares a label other than "all" with the location.
ParseTrigger == Follow("running", location # NULL, "running")

\* formatStatusBroadcastJSON refers to the capabilities in the JSON.
Capabilities ==
  IF head = NULL THEN {}
  ELSE {i \in 1 .. Len(head) : "Capabilities" \in head[i]}

StatusBroadcast ==
  Follow("running", Capabilities # {} => "json" \in blocks, "running")

Exit ==
  /\ pc = "running" /\ Leave("exit", "exited")
  /\ UNCHANGED <<doc, at, loop, fields, fault>>

Next ==
  \/ OpenFails \/ Open
  \/ ReadRawStorage \/ ReadNumber \/ ReadUnknown \/ ReadHardwareScripts
  \/ ReadControlIP \/ ReadRTSPAddress
  \/ GetIfAddrs \/ GetIfAddrsFails \/ GetNameInfoFails
  \/ Interface \/ FreeIfAddrs
  \/ ReadMetadata \/ ReadMetadataField \/ GetHostnameFails
  \/ ReadConfigFileReturns
  \/ FormatRecordingDirectory \/ ForkScripts \/ ParseTrigger
  \/ StatusBroadcast \/ Exit

Spec == Init /\ [][Next]_vars
-----------------------------------------------------------------------------
(* Properties.                                                             *)

Keys(object) == {object[i].key : i \in 1 .. Len(object)}

Value(key) ==
  doc.control[CHOOSE i \in 1 .. Len(doc.control) : doc.control[i].key = key].value

\* A file as docs/App_Systems.md, Config JSON Template, describes it.
WellFormed ==
  /\ doc.readable /\ doc.control # NULL /\ doc.metadata # NULL
  /\ "unknown" \notin Keys(doc.control) \cup Keys(doc.metadata)
  /\ {"Raw Storage", "Control IP", "RTSP Address"} \subseteq Keys(doc.control)
  /\ "Location" \in Keys(doc.metadata)
  /\ \A i \in 1 .. Len(doc.control) :
       doc.control[i].key = "Hardware Scripts" =>
         \A j \in 1 .. Len(doc.control[i].value) :
           /\ ScriptArgs \subseteq doc.control[i].value[j]
           /\ "unknown" \notin doc.control[i].value[j]

\* The phases of readConfigFile, and of the program after it.
InControl == pc \in {"control", "getifaddrs", "interfaces"}
InMetadata == pc = "metadata"
Accepted == pc \in {"accepted", "forking", "running"}

TypeOK ==
  /\ doc \in Documents
  /\ \/ InControl \/ InMetadata \/ Accepted
     \/ pc \in {"open", "failed", "crashed", "exited"}
  /\ at \in Nat \ {0} /\ ifa \in Nat \ {0}
  /\ list \in [AddressKeys -> InterfaceLists \cup {<<>>}]
  /\ blocks \subseteq FreeMetadata \cup FreeControlData \cup {"json"}
  /\ fault \in BOOLEAN

\* What is allocated in each phase.
HeapByPhase ==
  /\ pc \in {"open", "failed"} => blocks = {}
  /\ InControl => blocks \cap FreeMetadata = {}
  /\ InControl \/ InMetadata \/ Accepted => doc.control # NULL /\ "json" \in blocks
  /\ InMetadata \/ Accepted => doc.metadata # NULL

\* The address that a key of Control Data is being replaced in.
InLoop == pc \in {"getifaddrs", "interfaces"}

FieldsReached ==
  /\ InLoop => at <= Len(doc.control) /\ Field.key \in AddressKeys
  /\ pc = "interfaces" => ifa <= Len(list[Field.key]) + 1

OnControlIP == InLoop /\ Field.key = "Control IP"

\* How far the entries have been compared with Control IP.
Compared ==
  IF OnControlIP
  THEN IF pc = "getifaddrs" THEN 0 ELSE ifa - 1
  ELSE Len(list["Control IP"])

\* Entry i is the last of the first n with the address: each match overwrites
\* the broadcast address of the one before it.
LastHolder(entries, n, i) ==
  /\ entries[i].addr = controlIP
  /\ \A j \in 1 .. n : entries[j].addr = controlIP => j <= i

Resolved(configured, entries, n) ==
  /\ \/ controlIP = configured
     \/ \E i \in 1 .. n : entries[i].name = configured /\ controlIP = entries[i].addr
  /\ \/ broadcastAddress = NULL
     \/ \E i \in 1 .. n :
          LastHolder(entries, n, i) /\ broadcastAddress = entries[i].brd

\* Control IP is not read yet, or it and its broadcast address come from the
\* entries compared so far.
ControlResolved ==
  InControl \/ InMetadata \/ Accepted =>
    \/ controlIP = NULL /\ broadcastAddress = NULL /\ ~OnControlIP
    \/ \E k \in 1 .. Len(doc.control) :
         /\ doc.control[k].key = "Control IP"
         /\ InControl => k <= at
         /\ pc = "control" => k < at
         /\ Resolved(doc.control[k].value, list["Control IP"], Compared)

\* The pointers of the fields that have been read.
PointersSet ==
  /\ pc = "open" =>
       at = 1 /\ controlIP = NULL /\ broadcastAddress = NULL /\ head = NULL
  /\ InControl \/ InMetadata \/ Accepted =>
       /\ \A i \in 1 .. Len(doc.control) :
            (InControl => i < at) /\ doc.control[i].key = "Raw Storage" =>
              rawStorage # NULL
       /\ head = NULL \/ \E i \in 1 .. Len(doc.control) :
            doc.control[i].key = "Hardware Scripts" /\ head = doc.control[i].value
  /\ InMetadata \/ Accepted =>
       \A i \in 1 .. Len(doc.metadata) :
         (InMetadata => i < at) /\ doc.metadata[i].key = "Location" =>
           location # NULL

\* Whichever statement fails, its label frees every block that a pointer holds.
FailureFreesAll == pc = "failed" => blocks = {}

\* No pointer that config.json leaves NULL or dangling is followed, and nothing
\* is freed twice, when the file is as documented.
OnlyMalformedCrash == pc = "crashed" => ~WellFormed

\* docs/App_Systems.md:83: Control IP is an address or the name of an
\* interface.  The address that is used is that address or the one of that
\* interface, entry i, and status messages go to the broadcast address of the
\* same entry, unless a later interface has the address too: then the last
\* such interface, entry j, overwrites it (config.c:425-431).
StatusOnControlNetwork ==
  Accepted =>
    LET configured == Value("Control IP")
        entries    == list["Control IP"]
    IN \E i \in 1 .. Len(entries) :
         /\ configured \in {entries[i].name, entries[i].addr}
         /\ controlIP = entries[i].addr
         /\ \E j \in i .. Len(entries) :
              /\ LastHolder(entries, Len(entries), j)
              /\ broadcastAddress = entries[j].brd

\* getifaddrs knows the interface or address that a key names.
Present(key) ==
  \E i \in 1 .. Len(list[key]) :
    Value(key) \in {list[key][i].name, list[key][i].addr}

\* A documented file whose interfaces exist is refused only if a call fails; the
\* RTSP address may be an address of another machine.
GoodFilesAccepted ==
  pc = "failed" /\ WellFormed /\ ~fault =>
    ~Present("Control IP")
    \/ (Value("RTSP Address") \notin DottedQuads /\ ~Present("RTSP Address"))

\* The accepted addresses have been checked.
AddressesChecked == Accepted => CheckedAddresses \subseteq Addresses

\* isValidIp4 accepts the dotted quads and nothing else.
OnlyDottedQuads == \A text \in Texts : IsValidIp4(text) <=> IsDottedQuad(text)

\* A configuration is accepted (config.c:271-282) only with addresses that are four
\* numbers of 0 to 255, whatever a segment that precedes another one has left in
\* the counters of isValidIp4.
AddressesRecognised ==
  /\ OnlyDottedQuads
  /\ Accepted => CheckedAddresses \subseteq DottedQuads

IInv ==
  /\ TypeOK /\ HeapByPhase /\ FieldsReached /\ ControlResolved /\ PointersSet
  /\ AddressesChecked /\ OnlyMalformedCrash

\* Field k of Control Data has been read, and its name compared with so many
\* entries.
Reached(k) == (InControl => k <= at) /\ (pc = "control" => k < at)

ComparedWith(key) ==
  IF InLoop /\ Field.key = key
  THEN IF pc = "getifaddrs" THEN 0 ELSE ifa - 1
  ELSE Len(list[key])

Named(key, k) ==
  \E i \in 1 .. ComparedWith(key) :
    doc.control[k].value \in {list[key][i].name, list[key][i].addr}

\* An entry that Control IP names is not passed over, ...
ControlMatched ==
  InControl \/ InMetadata =>
    \A k \in 1 .. Len(doc.control) :
      doc.control[k].key = "Control IP" /\ Reached(k) =>
        controlIP # NULL /\ (Named("Control IP", k) => broadcastAddress # NULL)

\* ... nor one that RTSP Address names, and an address remains as it is.
RTSPMatched ==
  InControl \/ InMetadata =>
    \A k \in 1 .. Len(doc.control) :
      doc.control[k].key = "RTSP Address" /\ Reached(k) =>
        /\ RTSPaddress \in Addresses \cup {doc.control[k].value}
        /\ doc.control[k].value \in Addresses \/ Named("RTSP Address", k) =>
             RTSPaddress \in Addresses

\* The inductive invariant of GoodFilesAccepted, beside IInv.
AcceptInv == ControlMatched /\ RTSPMatched /\ GoodFilesAccepted
=============================================================================
