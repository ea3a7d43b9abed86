------------------------------ MODULE CJSONParse ------------------------------
(***************************************************************************)
(* The parser of cJSON.c, over the tokens of a text.  A token that no value *)
(* can begin with stands for text the lexer refuses: a string without an   *)
(* end, an unknown escape, a word that is no literal.                      *)
(*                                                                         *)
(* parse_value, parse_array and parse_object call each other.  The calls   *)
(* that have not returned are a stack of frames with their locals, and the *)
(* text is read one token at a time: "expects" is the line that reads it.  *)
(***************************************************************************)
EXTENDS CJSON

CONSTANT NestingLimit    \* CJSON_NESTING_LIMIT

ASSUME CJSONParseAssumption == NestingLimit \in Nat \ {0}

\* What a parser keeps: the root, the frames of the lists that are open, what
\* the next token is read as ("nothing": the root is read, "refused": false is
\* returned), and the tokens read.
Parser(heap, item) ==
  [heap |-> heap, item |-> item, frames |-> <<>>, expects |-> "value", read |-> 0]

\* A call of parse_array or parse_object: its item, head and current_item.
Frame(item, named) == [item |-> item, named |-> named, head |-> NULL, last |-> NULL]

Top(c) == c.frames[Len(c.frames)]

\* The item whose value or name is read.
Current(c) == IF c.frames = <<>> THEN c.item ELSE Top(c).last

Refused(c) == [c EXCEPT !.expects = "refused"]

\* parse_value returns true to the list that called it, or to cJSON_Parse.
Returned(c, heap) ==
  [c EXCEPT !.heap = heap,
            !.expects = IF c.frames = <<>> THEN "nothing" ELSE "comma"]

ParseLiteral(heap, token, item) ==
  [heap EXCEPT
     !.blocks[item].type = CASE token.kind = "null"  -> "NULL"
                             [] token.kind = "false" -> "False"
                             [] OTHER                -> "True",
     !.blocks[item].valueint = IF token.kind = "true" THEN 1 ELSE @]

ParseString(heap, token, item) ==
  LET copy == Strdup(heap, token.text)
  IN [copy.heap EXCEPT !.blocks[item].type = "String",
                       !.blocks[item].valuestring = copy.string]

ParseNumber(heap, token, item) ==
  [heap EXCEPT !.blocks[item].type = "Number",
               !.blocks[item].valuedouble = token.number,
               !.blocks[item].valueint = Saturate(token.number)]

\* The name of a member: the parsed string moves from valuestring to string.
NameMoved(heap, item) ==
  [heap EXCEPT !.blocks[item].string = heap.blocks[item].valuestring,
               !.blocks[item].valuestring = NULL]

ParseName(c, token) ==
  IF token.kind # "string" THEN Refused(c)
  ELSE [c EXCEPT !.heap = NameMoved(ParseString(@, token, Current(c)), Current(c)),
                 !.expects = "colon"]

\* parse_array and parse_object at their opening bracket.
ListBegun(c, named) ==
  IF Len(c.frames) >= NestingLimit THEN Refused(c)
  ELSE [c EXCEPT !.frames = Append(@, Frame(Current(c), named)), !.expects = "member"]

ParseArray(c)  == ListBegun(c, FALSE)
ParseObject(c) == ListBegun(c, TRUE)

ParseValue(c, token) ==
  CASE token.kind \in {"null", "false", "true"} ->
         Returned(c, ParseLiteral(c.heap, token, Current(c)))
    [] token.kind = "string" -> Returned(c, ParseString(c.heap, token, Current(c)))
    [] token.kind = "number" -> Returned(c, ParseNumber(c.heap, token, Current(c)))
    [] token.kind = "["      -> ParseArray(c)
    [] token.kind = "{"      -> ParseObject(c)
    [] OTHER                 -> Refused(c)

\* The top of the loop: a new item is linked to the last one.
MemberBegun(c) ==
  LET new == NewItem(c.heap, EmptyItem)
      top == Top(c)
  IN [c EXCEPT
        !.heap = IF top.last = NULL THEN new.heap
                 ELSE SuffixObject(new.heap, top.last, new.item),
        !.frames[Len(c.frames)] =
          [top EXCEPT !.head = IF @ = NULL THEN new.item ELSE @, !.last = new.item],
        !.expects = IF top.named THEN "name" ELSE "value"]

\* The first item is told of the last one.
Closed(heap, top) ==
  IF top.head = NULL THEN heap ELSE [heap EXCEPT !.blocks[top.head].prev = top.last]

\* success: the list is hung on its item.
ListEnd(c) ==
  LET top == Top(c)
  IN Returned([c EXCEPT !.frames = Front(@)],
              [Closed(c.heap, top) EXCEPT
                 !.blocks[top.item].type = IF top.named THEN "Object" ELSE "Array",
                 !.blocks[top.item].child = top.head])

Close(c) == IF Top(c).named THEN "}" ELSE "]"

\* What is done with a token, by the line that reads it.
ReadToken(c, token) ==
  CASE c.expects = "value" -> ParseValue(c, token)
    [] c.expects = "name"  -> ParseName(c, token)
    [] c.expects = "colon" ->
         IF token.kind = ":" THEN [c EXCEPT !.expects = "value"] ELSE Refused(c)
    [] c.expects = "member" ->
         IF token.kind = Close(c) THEN ListEnd(c)
         ELSE IF Top(c).named THEN ParseName(MemberBegun(c), token)
         ELSE ParseValue(MemberBegun(c), token)
    [] c.expects = "comma" ->
         IF token.kind = "," THEN MemberBegun(c)
         ELSE IF token.kind = Close(c) THEN ListEnd(c)
         ELSE Refused(c)

TokenAt(text, at) == IF at \in DOMAIN text THEN text[at] ELSE Token("end")

\* What follows the first value is not read.
Advanced(c, token) ==
  IF c.expects \in {"nothing", "refused"} THEN c
  ELSE [ReadToken(c, token) EXCEPT !.read = @ + 1]

\* The parser behind the text and its end.
Read(c, text) ==
  LET after[n \in 0 .. Len(text) + 1] ==
        IF n = 0 THEN [parser |-> c]
        ELSE [after[n - 1] EXCEPT !.parser = Advanced(@, TokenAt(text, n))]
  IN after[Len(text) + 1].parser

\* A faulty variant: the items read so far are not deleted.
HeadKept(heap, head) == heap

\* fail: the end of a list that could not be read.
Discard(heap, head) == Delete(heap, head)

\* false is returned from list to list, and each deletes its items.
Unwound(c) ==
  LET open == Len(c.frames)
      from[n \in 0 .. open] ==
        IF n = 0 THEN c.heap ELSE Discard(from[n - 1], c.frames[open + 1 - n].head)
  IN from[open]

\* cJSON_Parse.  "end" is the position behind the value.
Parse(heap, text) ==
  LET root == NewItem(heap, EmptyItem)
      c    == Read(Parser(root.heap, root.item), text)
  IN IF c.expects = "nothing"
     THEN [heap |-> c.heap, item |-> c.item, end |-> c.read + 1]
     ELSE [heap |-> Delete(Unwound(c), c.item), item |-> NULL, end |-> c.read]

\* The properties of a parser, of one text: what it builds prints as the text
\* it has read and is freed to the last block, and a text that it refuses
\* leaves nothing behind.
ParsesCleanly(text) ==
  LET result == Parse(EmptyHeap, text)
  IN IF result.item = NULL THEN result.heap = EmptyHeap
     ELSE /\ Printed(result.heap, result.item) = SubSeq(text, 1, result.end - 1)
          /\ Delete(result.heap, result.item) = EmptyHeap
=============================================================================
