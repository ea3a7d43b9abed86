------------------------------ MODULE Trigger ------------------------------
(***************************************************************************)
(* The text protocol of the UDP control port (src/src/udp_server.c):       *)
(*                                                                         *)
(*      <label> <command> <timestamp> <additional data>                    *)
(*                                                                         *)
(* A text is a sequence of words and of the delimiter.  Two words that no  *)
(* delimiter separates are one token for strtok_r, so a token is a         *)
(* non-empty sequence of words: <<"t1">> is the word t1, <<"t1", "all">>   *)
(* the two words run together.                                             *)
(***************************************************************************)
EXTENDS Naturals, Sequences, FiniteSets

CONSTANTS Location,   \* ControlData.location
          Hostname    \* ControlData.hostname

Space == " "          \* DELIMITER

Text  == Seq(STRING)

Labels == {<<"all">>, <<Location>>, <<Hostname>>}

ParsedTrigger == [label : Text, command : Text, timestamp : Text]

(***************************************************************************)
(* <<i, j>> is a span of text when strtok_r returns text[i .. j] as one    *)
(* token: a run of words with a delimiter or an end of the text on both    *)
(* sides.  Runs of delimiters separate tokens like one delimiter does.     *)
(***************************************************************************)
Spans(text) ==
  {s \in (DOMAIN text) \X (DOMAIN text) :
      /\ s[1] <= s[2]
      /\ \A i \in s[1] .. s[2] : text[i] # Space
      /\ s[1] = 1         \/ text[s[1] - 1] = Space
      /\ s[2] = Len(text) \/ text[s[2] + 1] = Space}

Token(text, s) == SubSeq(text, s[1], s[2])

\* The k-th token that strtok_r returns, if there are so many.
Nth(text, k) ==
  LET spans == Spans(text)
  IN  {s \in spans : Cardinality({t \in spans : t[1] <= s[1]}) = k}

Delimiters(text) == Cardinality({i \in DOMAIN text : text[i] = Space})

(***************************************************************************)
(* parseTrigger: {} when it returns NULL, the one trigger it returns       *)
(* otherwise.  The check before strtok_r counts delimiters, not tokens.    *)
(***************************************************************************)
ParseTrigger(text) ==
  {t \in {[label     |-> Token(text, a),
           command   |-> Token(text, b),
           timestamp |-> Token(text, c)] :
             a \in Nth(text, 1), b \in Nth(text, 2), c \in Nth(text, 3)} :
      Delimiters(text) >= 2 /\ t.label \in Labels}

\* Two delimiters but fewer than three tokens: strdup is called on the NULL
\* of strtok_r, and the process dies.
ParseAborts(text) ==
  Delimiters(text) >= 2 /\ Cardinality(Spans(text)) < 3
=============================================================================
