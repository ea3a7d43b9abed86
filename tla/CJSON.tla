-------------------------------- MODULE CJSON --------------------------------
(***************************************************************************)
(* The part of cJSON.c that the program calls to build, print and free     *)
(* JSON.  A heap holds what cJSON allocates: items and the strings they own *)
(* are blocks of their own, so that a block freed twice, or never, shows.  *)
(* A printed text is a sequence of tokens; white space and the escapes     *)
(* inside a string are left out, and allocation succeeds.                  *)
(***************************************************************************)
EXTENDS Integers, Sequences, FiniteSets, SequencesExt

CONSTANT IntMax     \* INT_MAX; -IntMax stands for INT_MIN

ASSUME CJSONAssumption == IntMax \in Nat

NULL == 0

\* Tokens of a text.  A number is a double, counted in tenths.
Token(kind)    == [kind |-> kind, text |-> "", number |-> 0]
String(text)   == [kind |-> "string", text |-> text, number |-> 0]
Tenths(number) == [kind |-> "number", text |-> "", number |-> number]
Number(number) == Tenths(10 * number)
Bool(value)    == Token(IF value THEN "true" ELSE "false")

\* A token says what its kind does.
IsToken(token) ==
  token \in {Token(token.kind), String(token.text), Tenths(token.number)}

AreTokens(text) ==
  text \in Seq({text[i] : i \in DOMAIN text}) /\ \A i \in DOMAIN text : IsToken(text[i])

\* The char * that is NULL.
Absent == Token("absent")

EmptyItem ==
  [type |-> "Invalid", reference |-> FALSE, next |-> NULL, prev |-> NULL,
   child |-> NULL, string |-> NULL, valuestring |-> NULL,
   valueint |-> 0, valuedouble |-> 0]
IsItem(it) ==
  it \in [type : {it.type}, reference : BOOLEAN, next : Nat, prev : Nat, child : Nat,
          string : Nat, valuestring : Nat, valueint : {it.valueint},
          valuedouble : {it.valuedouble}]
-----------------------------------------------------------------------------
(* The heap: its blocks by address, and whether every free was of a block. *)

EmptyHeap == [blocks |-> <<>>, sound |-> TRUE]

IsHeap(heap) ==
  /\ heap = [blocks |-> heap.blocks, sound |-> heap.sound]
  /\ heap.blocks = [p \in DOMAIN heap.blocks |-> heap.blocks[p]]
  /\ IsFiniteSet(DOMAIN heap.blocks) /\ DOMAIN heap.blocks \subseteq Nat \ {NULL}

Fresh(heap) ==
  CHOOSE p \in 1 .. Cardinality(DOMAIN heap.blocks) + 1 :
    p \notin DOMAIN heap.blocks

Allocate(heap, block) ==
  [heap EXCEPT !.blocks = [p \in DOMAIN @ \cup {Fresh(heap)} |->
                              IF p \in DOMAIN @ THEN @[p] ELSE block]]

\* free(NULL) does nothing.
Free(heap, p) ==
  CASE p = NULL -> heap
    [] p \in DOMAIN heap.blocks ->
         [heap EXCEPT !.blocks =
            [q \in DOMAIN heap.blocks \ {p} |-> heap.blocks[q]]]
    [] OTHER -> [heap EXCEPT !.sound = FALSE]

\* What an item owns: the items behind and below it, and two strings.  A
\* reference does not own what it shares.
Slots == {"next", "string", "child", "valuestring"}

Owned(it, slot) ==
  CASE slot = "next"   -> it.next
    [] slot = "string" -> it.string
    [] slot = "child"  -> IF it.reference THEN NULL ELSE it.child
    [] OTHER           -> IF it.reference THEN NULL ELSE it.valuestring

\* cJSON_Delete goes to the items behind and below those it frees.
Onward(heap, items) ==
  {Owned(heap.blocks[p], slot) : p \in items, slot \in {"next", "child"}}
    \cap DOMAIN heap.blocks

Reached(heap, item) ==
  LET size == Cardinality(DOMAIN heap.blocks)
      from[n \in 0 .. size] ==
        [items \in SUBSET DOMAIN heap.blocks |->
           LET all == items \cup Onward(heap, items)
           IN IF n = 0 \/ all = items THEN items ELSE from[n - 1][all]]
  IN from[size][{item} \cap DOMAIN heap.blocks]

\* It frees them and what they own, and twice what two pointers lead to.
Delete(heap, item) ==
  LET pointers == {x \in Reached(heap, item) \X Slots :
                     Owned(heap.blocks[x[1]], x[2]) # NULL}
      owned    == {Owned(heap.blocks[x[1]], x[2]) : x \in pointers}
      freed    == owned \cup ({item} \ {NULL})
  IN [blocks |-> [p \in DOMAIN heap.blocks \ freed |-> heap.blocks[p]],
      sound  |-> /\ heap.sound
                 /\ freed \subseteq DOMAIN heap.blocks
                 /\ Cardinality(owned) = Cardinality(pointers)
                 /\ item \notin owned]
-----------------------------------------------------------------------------
(* Items.  Every operation answers the heap and the item (NULL: none).     *)

Truncate(number) == IF number >= 0 THEN number \div 10 ELSE -((-number) \div 10)

Saturate(number) ==
  CASE number >= 10 * IntMax    -> IntMax
    [] number <= -(10 * IntMax) -> -IntMax
    [] OTHER                    -> Truncate(number)

NewItem(heap, item) == [heap |-> Allocate(heap, item), item |-> Fresh(heap)]

CreateObject(heap) == NewItem(heap, [EmptyItem EXCEPT !.type = "Object"])
CreateArray(heap)  == NewItem(heap, [EmptyItem EXCEPT !.type = "Array"])
CreateBool(heap, value) ==
  NewItem(heap, [EmptyItem EXCEPT !.type = IF value THEN "True" ELSE "False"])
CreateNumber(heap, number) ==
  NewItem(heap, [EmptyItem EXCEPT !.type = "Number", !.valuedouble = number,
                                  !.valueint = Saturate(number)])

Strdup(heap, text) == [heap |-> Allocate(heap, [text |-> text]),
                       string |-> Fresh(heap)]

\* Without a text the item is deleted again.
CreateString(heap, value) ==
  IF value = Absent THEN [heap |-> heap, item |-> NULL]
  ELSE LET copy == Strdup(heap, value.text)
       IN NewItem(copy.heap, [EmptyItem EXCEPT !.type = "String",
                                               !.valuestring = copy.string])

\* The cJSON_Create function that fits a value.
Create(heap, value) ==
  CASE value.kind \in {"true", "false"} -> CreateBool(heap, value.kind = "true")
    [] value.kind = "number"            -> CreateNumber(heap, value.number)
    [] OTHER                            -> CreateString(heap, value)
-----------------------------------------------------------------------------
(* Lists of items.  The prev of the first item is the last one.            *)

SuffixObject(heap, prev, item) ==
  [heap EXCEPT !.blocks[prev].next = item, !.blocks[item].prev = prev]

\* A faulty variant: the first item is not told of the new last one.
LastForgotten(heap, array, item) ==
  SuffixObject(heap, heap.blocks[heap.blocks[array].child].prev, item)

AppendItem(heap, array, item) ==
  LET first == heap.blocks[array].child
  IN [SuffixObject(heap, heap.blocks[first].prev, item)
        EXCEPT !.blocks[first].prev = item]

AddItemToArray(heap, array, item) ==
  CASE item = NULL \/ item = array -> heap
    [] item # NULL /\ heap.blocks[array].child = NULL ->
         [heap EXCEPT !.blocks[array].child = item,
                      !.blocks[item].prev = item, !.blocks[item].next = NULL]
    [] OTHER -> AppendItem(heap, array, item)

\* The key an item had is freed.
AddItemToObject(heap, object, key, item) ==
  IF item = NULL THEN heap
  ELSE LET copy == Strdup(heap, key)
           old  == heap.blocks[item].string
       IN AddItemToArray(
            Free([copy.heap EXCEPT !.blocks[item].string = copy.string], old),
            object, item)

\* A faulty variant: the copy owns what it points to.
OwnedCopy(heap, item) ==
  [heap.blocks[item] EXCEPT !.string = NULL, !.next = NULL, !.prev = NULL]

\* A shallow copy that shares the children and the value of the item.
Reference(heap, item) ==
  [heap.blocks[item] EXCEPT !.string = NULL, !.reference = TRUE,
                            !.next = NULL, !.prev = NULL]

CreateReference(heap, item) ==
  IF item = NULL THEN [heap |-> heap, item |-> NULL]
  ELSE NewItem(heap, Reference(heap, item))

AddItemReferenceToObject(heap, object, key, item) ==
  LET copy == CreateReference(heap, item)
  IN AddItemToObject(copy.heap, object, key, copy.item)

\* A run of cJSON_AddItemToObject(object, key, cJSON_Create...(value)).
Field(key, value) == [key |-> key, value |-> value]

AddField(heap, object, field) ==
  LET created == Create(heap, field.value)
  IN AddItemToObject(created.heap, object, field.key, created.item)

AddFields(heap, object, fields) ==
  LET added[n \in 0 .. Len(fields)] ==
        IF n = 0 THEN heap ELSE AddField(added[n - 1], object, fields[n])
  IN added[Len(fields)]
-----------------------------------------------------------------------------
(* Printing.  No list is longer, and no item deeper, than the heap is large. *)

Items(heap, first) ==
  LET size == Cardinality(DOMAIN heap.blocks)
      from[n \in 0 .. size] ==
        [p \in DOMAIN heap.blocks \cup {NULL} |->
           IF n = 0 \/ p = NULL THEN <<>> ELSE <<p>> \o from[n - 1][heap.blocks[p].next]]
  IN from[size][first]

PrintString(heap, p) ==
  <<String(IF p = NULL THEN "" ELSE heap.blocks[p].text)>>

PrintNumber(it) == <<Tenths(it.valuedouble)>>

\* print_array and print_object, of the members of the list.
PrintArray(members)  == <<Token("[")>> \o members \o <<Token("]")>>
PrintObject(members) == <<Token("{")>> \o members \o <<Token("}")>>

\* print_value: members[list][p] prints the members of a list of that type, from
\* p on.
PrintValue(heap, it, members) ==
  CASE it.type = "NULL"   -> <<Token("null")>>
    [] it.type = "False"  -> <<Token("false")>>
    [] it.type = "True"   -> <<Token("true")>>
    [] it.type = "Number" -> PrintNumber(it)
    [] it.type = "String" -> PrintString(heap, it.valuestring)
    [] it.type = "Array"  -> PrintArray(members["Array"][it.child])
    [] it.type = "Object" -> PrintObject(members["Object"][it.child])

\* The loop of print_array and print_object: a member, with its name in an
\* object, and behind a comma the next one.
PrintMembers(heap, it, list, members) ==
  (IF list = "Object" THEN PrintString(heap, it.string) \o <<Token(":")>> ELSE <<>>)
  \o PrintValue(heap, it, members)
  \o (IF it.next = NULL THEN <<>> ELSE <<Token(",")>> \o members[list][it.next])

Printed(heap, item) ==
  LET size == Cardinality(DOMAIN heap.blocks)
      members[n \in 0 .. size] ==
        [list \in {"Array", "Object"} |->
           [p \in DOMAIN heap.blocks \cup {NULL} |->
              IF n = 0 \/ p = NULL THEN <<>>
              ELSE PrintMembers(heap, heap.blocks[p], list, members[n - 1])]]
  IN PrintValue(heap, heap.blocks[item], members[size])
=============================================================================
