----------------------------- MODULE StatusReader -----------------------------
(***************************************************************************)
(* Who receives the status messages of Metadata: a program that reads JSON, *)
(* as cJSON does.                                                          *)
(***************************************************************************)
EXTENDS Metadata, CJSONParse
LOCAL INSTANCE SequencesExt

\* Who reads a text finds the scripts of config.json in their order, each with
\* the capabilities that the file gives it.
Readable(text) ==
  LET received == Parse(EmptyHeap, text)
      block(p) == received.heap.blocks[p]
      members(object, key) ==
        {q \in ToSet(Items(received.heap, block(object).child)) :
           block(block(q).string).text = key}
      values(object, key) ==
        {Printed(received.heap, p) : p \in members(object, key)}
  IN /\ received.item # NULL /\ received.end = Len(text) + 1
     /\ \E list \in members(received.item, "Hardware") :
          LET hardware == Items(received.heap, block(list).child)
          IN /\ Len(hardware) = Len(Scripts)
             /\ \A i \in DOMAIN Scripts :
                  /\ values(hardware[i], "Name") = {<<String(Scripts[i].name)>>}
                  /\ values(hardware[i], "Control Port") = {<<Number(Scripts[i].port)>>}
                  /\ values(hardware[i], "Capabilities") = {Scripts[i].text}

\* Every message that is sent is one JSON text with the whole hardware list,
\* whatever the messages before it have done to the JSON they share.
MessageReadable == [][message' = message \/ Readable(message')]_message
=============================================================================
