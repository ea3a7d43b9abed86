-------------------------------- MODULE IPv4 --------------------------------
(***************************************************************************)
(* isValidIp4 (addresschecker.c), one character after the other, and what   *)
(* it is meant to recognise.  A character is a digit 0 .. 9, Dot or Other.  *)
(***************************************************************************)
EXTENDS Integers, Sequences

Digits == 0 .. 9
Dot    == 10
Other  == 11

Characters == Digits \cup {Dot, Other}

\* The locals of isValidIp4; once it has returned 0 nothing changes them.
Locals(segs, chcnt, accum) ==
  [segs |-> segs, chcnt |-> chcnt, accum |-> accum, returned |-> FALSE]

Start == Locals(0, 0, 0)

Return(scan) == [scan EXCEPT !.returned = TRUE]

\* A faulty variant: the characters of the segment before still count.
CountKept(scan) == Locals(scan.segs + 1, scan.chcnt, 0)

Changeover(scan) == Locals(scan.segs + 1, 0, 0)

Scan(scan, char) ==
  CASE scan.returned -> scan
    [] ~scan.returned /\ char = Dot ->
         IF scan.chcnt = 0 \/ scan.segs = 3 THEN Return(scan) ELSE Changeover(scan)
    [] ~scan.returned /\ char \in Digits ->
         IF scan.accum * 10 + char > 255 THEN Return(scan)
         ELSE Locals(scan.segs, scan.chcnt + 1, scan.accum * 10 + char)
    [] OTHER -> Return(scan)

\* The locals before the loop and after each turn of it.
Scanned(text) ==
  LET scan[n \in 0 .. Len(text)] ==
        IF n = 0 THEN Start ELSE Scan(scan[n - 1], text[n])
  IN scan

IsValidIp4(text) ==
  LET end == Scanned(text)[Len(text)]
  IN ~end.returned /\ end.segs = 3 /\ end.chcnt # 0
-----------------------------------------------------------------------------
\* The number that the first n digits spell.
Spelled(digits) ==
  LET value[n \in 0 .. Len(digits)] ==
        IF n = 0 THEN 0 ELSE 10 * value[n - 1] + digits[n]
  IN value

\* A number of 0 to 255; zeros may lead.
IsByte(segment) ==
  /\ segment # <<>>
  /\ \A n \in DOMAIN segment : segment[n] \in Digits
  /\ Spelled(segment)[Len(segment)] <= 255

\* What stands between two places of a text.
Between(text, i, j) == SubSeq(text, i + 1, j - 1)

\* Four numbers of 0 to 255 with dots between them.
IsDottedQuad(text) ==
  LET dots == {i \in DOMAIN text : text[i] = Dot}
  IN \E a, b, c \in dots :
       /\ a < b /\ b < c /\ dots = {a, b, c}
       /\ IsByte(Between(text, 0, a)) /\ IsByte(Between(text, a, b))
       /\ IsByte(Between(text, b, c)) /\ IsByte(Between(text, c, Len(text) + 1))
=============================================================================
