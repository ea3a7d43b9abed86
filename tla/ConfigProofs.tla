---------------------------- MODULE ConfigProofs ----------------------------
(* Theorems about Config for every file, list of interfaces and fault.     *)
EXTENDS Config, SequenceTheorems, WellFoundedInduction, TLAPS

(* What isValidIp4 accepts.                                                *)

\* Induction over the numbers, as a fact about a set.
LEMMA Inductive ==
  ASSUME NEW P, 0 \in P, \A n \in Nat : n \in P => n + 1 \in P
  PROVE  Nat \subseteq P
<1> SUFFICES ASSUME Nat \ P # {} PROVE FALSE
  OBVIOUS
<1>1. PICK x \in Nat \ P : \A y \in Nat \ P : ~(<<y, x>> \in OpToRel(<, Nat))
  BY NatLessThanWellFounded, WFMin
<1>2. x - 1 \in Nat /\ x - 1 < x /\ (x - 1) + 1 = x
  OBVIOUS
<1>3. <<x - 1, x>> \in OpToRel(<, Nat)
  BY <1>2 DEF OpToRel
<1> QED
  BY <1>1, <1>2, <1>3

\* A recursive function over the first characters of a text exists.
IsScan(text, n, scan) ==
  scan = [m \in 0 .. n |-> IF m = 0 THEN Start ELSE Scan(scan[m - 1], text[m])]

LEMMA ScannedSteps ==
  ASSUME NEW text, Len(text) \in Nat
  PROVE  IsScan(text, Len(text), Scanned(text))
<1> DEFINE P == {n \in Nat : \E scan : IsScan(text, n, scan)}
<1>1. 0 \in P
  <2>1. IsScan(text, 0, [m \in 0 .. 0 |-> Start])
    BY DEF IsScan
  <2> QED
    BY <2>1
<1>2. ASSUME NEW n \in Nat, n \in P PROVE n + 1 \in P
  <2>1. PICK scan : IsScan(text, n, scan)
    BY <1>2
  <2> DEFINE next == [m \in 0 .. n + 1 |->
                        IF m = n + 1 THEN Scan(scan[n], text[n + 1]) ELSE scan[m]]
  <2>2. IsScan(text, n + 1, next)
    BY <2>1 DEF IsScan
  <2> QED
    BY <2>2
<1> HIDE DEF P
<1>3. Len(text) \in P
  BY <1>1, <1>2, Inductive
<1>4. \E scan : IsScan(text, Len(text), scan)
  BY <1>3 DEF P
<1> QED
  BY <1>4 DEF Scanned, IsScan

\* What the locals are before the loop and after each turn.
LEMMA ScannedStep ==
  ASSUME NEW text \in Seq(Characters)
  PROVE  /\ Scanned(text)[0] = Start
         /\ \A n \in 1 .. Len(text) :
              Scanned(text)[n] = Scan(Scanned(text)[n - 1], text[n])
<1> DEFINE scan == Scanned(text)
<1>1. scan = [m \in 0 .. Len(text) |->
                IF m = 0 THEN Start ELSE Scan(scan[m - 1], text[m])]
  BY ScannedSteps, LenProperties DEF IsScan
<1> HIDE DEF scan
<1> QED
  BY <1>1 DEF scan

IsSpelling(digits, n, value) ==
  value = [m \in 0 .. n |-> IF m = 0 THEN 0 ELSE 10 * value[m - 1] + digits[m]]

LEMMA SpelledSteps ==
  ASSUME NEW digits, Len(digits) \in Nat
  PROVE  IsSpelling(digits, Len(digits), Spelled(digits))
<1> DEFINE P == {n \in Nat : \E value : IsSpelling(digits, n, value)}
<1>1. 0 \in P
  <2>1. IsSpelling(digits, 0, [m \in 0 .. 0 |-> 0])
    BY DEF IsSpelling
  <2> QED
    BY <2>1
<1>2. ASSUME NEW n \in Nat, n \in P PROVE n + 1 \in P
  <2>1. PICK value : IsSpelling(digits, n, value)
    BY <1>2
  <2> DEFINE next == [m \in 0 .. n + 1 |->
                        IF m = n + 1 THEN 10 * value[n] + digits[n + 1] ELSE value[m]]
  <2>2. IsSpelling(digits, n + 1, next)
    BY <2>1 DEF IsSpelling
  <2> QED
    BY <2>2
<1> HIDE DEF P
<1>3. Len(digits) \in P
  BY <1>1, <1>2, Inductive
<1>4. \E value : IsSpelling(digits, Len(digits), value)
  BY <1>3 DEF P
<1> QED
  BY <1>4 DEF Spelled, IsSpelling

\* What no digits and one digit more spell.
LEMMA SpelledStep ==
  ASSUME NEW digits \in Seq(Digits)
  PROVE  /\ Spelled(digits)[0] = 0
         /\ \A n \in 1 .. Len(digits) :
              Spelled(digits)[n] = 10 * Spelled(digits)[n - 1] + digits[n]
<1> DEFINE value == Spelled(digits)
<1>1. value = [m \in 0 .. Len(digits) |->
                IF m = 0 THEN 0 ELSE 10 * value[m - 1] + digits[m]]
  BY SpelledSteps, LenProperties DEF IsSpelling
<1> HIDE DEF value
<1> QED
  BY <1>1 DEF value

LEMMA SpelledNext ==
  ASSUME NEW digits \in Seq(Digits), NEW n \in Nat, n + 1 \in 1 .. Len(digits)
  PROVE  Spelled(digits)[n + 1] = 10 * Spelled(digits)[n] + digits[n + 1]
<1>1. (n + 1) - 1 = n
  OBVIOUS
<1>2. Spelled(digits)[n + 1] = 10 * Spelled(digits)[(n + 1) - 1] + digits[n + 1]
  BY SpelledStep
<1> QED
  BY <1>1, <1>2

\* One digit more is no less.
LEMMA NoLess ==
  ASSUME NEW x \in Nat, NEW y \in Nat, NEW digit \in Nat, x <= y
  PROVE  x <= 10 * y + digit
  OBVIOUS

LEMMA InByte == \A value \in 0 .. 255 : value <= 255
  OBVIOUS

LEMMA AtMost ==
  ASSUME NEW x \in Nat, NEW y \in Nat, x <= y, y <= 255
  PROVE  x <= 255
  OBVIOUS

\* What digits spell is a number.
LEMMA SpelledNat ==
  ASSUME NEW digits \in Seq(Digits)
  PROVE  \A n \in 0 .. Len(digits) : Spelled(digits)[n] \in Nat
<1> DEFINE P == {n \in Nat : n <= Len(digits) => Spelled(digits)[n] \in Nat}
<1>1. 0 \in P
  BY SpelledStep
<1>2. ASSUME NEW n \in Nat, n \in P, n + 1 <= Len(digits)
      PROVE  Spelled(digits)[n + 1] \in Nat
  <2>1. Spelled(digits)[n] \in Nat /\ digits[n + 1] \in Nat
    BY <1>2, LenProperties, ElementOfSeq DEF Digits
  <2>2. Spelled(digits)[n + 1] = 10 * Spelled(digits)[n] + digits[n + 1]
    BY <1>2, SpelledStep, LenProperties
  <2> QED
    BY <2>1, <2>2
<1> HIDE DEF P
<1>3. \A n \in Nat : n \in P => n + 1 \in P
  BY <1>2 DEF P
<1>4. Nat \subseteq P
  BY <1>1, <1>3, Inductive
<1> QED
  BY <1>4, LenProperties DEF P

\* More digits spell no less.
LEMMA SpelledGrows ==
  ASSUME NEW digits \in Seq(Digits), NEW m \in 0 .. Len(digits)
  PROVE  Spelled(digits)[m] <= Spelled(digits)[Len(digits)]
<1> DEFINE P == {k \in Nat : m + k <= Len(digits) =>
                               Spelled(digits)[m] <= Spelled(digits)[m + k]}
<1>1. Len(digits) \in Nat
  BY LenProperties
<1>2. 0 \in P
  BY SpelledNat
<1>3. ASSUME NEW k \in Nat, k \in P, m + k + 1 <= Len(digits)
      PROVE  Spelled(digits)[m] <= Spelled(digits)[m + (k + 1)]
  <2>1. m + k \in 0 .. Len(digits) /\ m + (k + 1) \in 1 .. Len(digits)
        /\ (m + (k + 1)) - 1 = m + k
    BY <1>1, <1>3
  <2>2. Spelled(digits)[m] <= Spelled(digits)[m + k]
    BY <1>3, <2>1
  <2>3. Spelled(digits)[m + (k + 1)] = 10 * Spelled(digits)[m + k] + digits[m + (k + 1)]
    BY <2>1, SpelledStep
  <2>4. digits[m + (k + 1)] \in Nat
    BY <2>1, ElementOfSeq DEF Digits
  <2>5. Spelled(digits)[m] \in Nat /\ Spelled(digits)[m + k] \in Nat
    BY <2>1, SpelledNat
  <2>6. Spelled(digits)[m] <= 10 * Spelled(digits)[m + k] + digits[m + (k + 1)]
    BY <2>2, <2>4, <2>5, NoLess
  <2> QED
    BY <2>3, <2>6
<1> HIDE DEF P
<1>4. \A k \in Nat : k \in P => k + 1 \in P
  BY <1>1, <1>3 DEF P
<1>5. Nat \subseteq P
  BY <1>2, <1>4, Inductive
<1>6. Len(digits) - m \in Nat /\ m + (Len(digits) - m) = Len(digits)
  BY <1>1
<1> QED
  BY <1>1, <1>5, <1>6 DEF P

\* What the first digits spell does not depend on those behind.
LEMMA SpelledPrefix ==
  ASSUME NEW digits \in Seq(Digits), NEW longer \in Seq(Digits),
         Len(digits) <= Len(longer),
         \A i \in 1 .. Len(digits) : digits[i] = longer[i]
  PROVE  \A n \in 0 .. Len(digits) : Spelled(digits)[n] = Spelled(longer)[n]
<1> DEFINE P == {n \in Nat : n <= Len(digits) =>
                               Spelled(digits)[n] = Spelled(longer)[n]}
<1>1. Len(digits) \in Nat /\ Len(longer) \in Nat
  BY LenProperties
<1>2. 0 \in P
  BY SpelledStep
<1>3. ASSUME NEW n \in Nat, n \in P, n + 1 <= Len(digits)
      PROVE  Spelled(digits)[n + 1] = Spelled(longer)[n + 1]
  <2>1. n + 1 \in 1 .. Len(digits) /\ n + 1 \in 1 .. Len(longer) /\ (n + 1) - 1 = n
    BY <1>1, <1>3
  <2>2. /\ Spelled(digits)[n + 1] = 10 * Spelled(digits)[n] + digits[n + 1]
        /\ Spelled(longer)[n + 1] = 10 * Spelled(longer)[n] + longer[n + 1]
    BY <2>1, SpelledStep
  <2> QED
    BY <1>3, <2>1, <2>2
<1> HIDE DEF P
<1>4. \A n \in Nat : n \in P => n + 1 \in P
  BY <1>1, <1>3 DEF P
<1>5. Nat \subseteq P
  BY <1>2, <1>4, Inductive
<1> QED
  BY <1>1, <1>5 DEF P

\* The characters between two places.
LEMMA BetweenIs ==
  ASSUME NEW text \in Seq(Characters),
         NEW i \in 0 .. Len(text), NEW j \in 1 .. Len(text) + 1, i < j
  PROVE  /\ Between(text, i, j) \in Seq(Characters)
         /\ Len(Between(text, i, j)) = j - 1 - i
         /\ \A m \in 1 .. j - 1 - i : Between(text, i, j)[m] = text[i + m]
<1>1. Len(text) \in Nat
  BY LenProperties
<1>2. i + 1 \in 1 .. Len(text) + 1 /\ j - 1 \in i .. Len(text)
  BY <1>1
<1>3. \A m \in i + 1 .. j - 1 : m \in 1 .. Len(text)
  BY <1>1
<1>4. \A m \in i + 1 .. j - 1 : text[m] \in Characters
  BY <1>3, ElementOfSeq
<1>5. /\ SubSeq(text, i + 1, j - 1) \in Seq(Characters)
      /\ Len(SubSeq(text, i + 1, j - 1)) = (j - 1) - (i + 1) + 1
      /\ \A m \in 1 .. (j - 1) - (i + 1) + 1 :
           SubSeq(text, i + 1, j - 1)[m] = text[(i + 1) + m - 1]
  BY <1>1, <1>2, <1>4, SubSeqProperties
<1>6. (j - 1) - (i + 1) + 1 = j - 1 - i
  BY <1>1
<1> QED
  BY <1>1, <1>5, <1>6 DEF Between

\* One turn of the loop: a digit, a digit that is taken, and a dot.
AtDigit(segs, chcnt, accum, digit) ==
  IF 10 * accum + digit > 255 THEN Return(Locals(segs, chcnt, accum))
  ELSE Locals(segs, chcnt + 1, 10 * accum + digit)

AtDot(segs, chcnt, accum) ==
  IF chcnt = 0 \/ segs = 3 THEN Return(Locals(segs, chcnt, accum))
  ELSE Locals(segs + 1, 0, 0)

LEMMA ScanDigit ==
  ASSUME NEW segs \in Nat, NEW chcnt \in Nat, NEW accum \in Nat, NEW digit \in Digits
  PROVE  Scan(Locals(segs, chcnt, accum), digit) = AtDigit(segs, chcnt, accum, digit)
<1>1. digit # Dot /\ accum * 10 + digit = 10 * accum + digit
  BY DEF Digits, Dot
<1>2. /\ Locals(segs, chcnt, accum).segs = segs
      /\ Locals(segs, chcnt, accum).chcnt = chcnt
      /\ Locals(segs, chcnt, accum).accum = accum
      /\ Locals(segs, chcnt, accum).returned = FALSE
  BY DEF Locals
<1> QED
  BY <1>1, <1>2 DEF Scan, AtDigit

LEMMA ScanTaken ==
  ASSUME NEW segs \in Nat, NEW chcnt \in Nat, NEW accum \in Nat, NEW digit \in Digits,
         NEW value \in Nat, value = 10 * accum + digit, value <= 255
  PROVE  Scan(Locals(segs, chcnt, accum), digit) = Locals(segs, chcnt + 1, value)
<1>1. ~(value > 255)
  OBVIOUS
<1> QED
  BY <1>1, ScanDigit DEF AtDigit

LEMMA ScanDot ==
  ASSUME NEW segs \in Nat, NEW chcnt \in Nat, NEW accum \in Nat
  PROVE  Scan(Locals(segs, chcnt, accum), Dot) = AtDot(segs, chcnt, accum)
<1>1. Dot \notin Digits
  BY DEF Digits, Dot
<1>2. /\ Locals(segs, chcnt, accum).segs = segs
      /\ Locals(segs, chcnt, accum).chcnt = chcnt
      /\ Locals(segs, chcnt, accum).returned = FALSE
  BY DEF Locals
<1> QED
  BY <1>1, <1>2 DEF Scan, Changeover, AtDot

\* A segment has been read up to place n, and does not end there.
Pending(text, n, segs) ==
  \E chcnt \in Nat \ {0}, accum \in Nat : Scanned(text)[n] = Locals(segs, chcnt, accum)

\* Whatever was scanned before, a number of at most 255 is taken digit by digit.
LEMMA ByteScanned ==
  ASSUME NEW text \in Seq(Characters),
         NEW i \in 0 .. Len(text), NEW j \in 1 .. Len(text) + 1, i < j,
         IsByte(Between(text, i, j)),
         NEW segs \in Nat, Scanned(text)[i] = Locals(segs, 0, 0)
  PROVE  Pending(text, j - 1, segs)
<1> DEFINE digits == Between(text, i, j)
           length == j - 1 - i
           P == {k \in Nat : k <= length =>
                   Scanned(text)[i + k] = Locals(segs, k, Spelled(digits)[k])}
<1>1. Len(text) \in Nat /\ length \in Nat /\ i + length = j - 1
  BY LenProperties
<1>2. /\ Len(digits) = length /\ digits \in Seq(Characters)
      /\ \A m \in 1 .. length : digits[m] = text[i + m]
  BY BetweenIs
<1>3. digits \in Seq(Digits)
  <2>1. \A m \in 1 .. length : digits[m] \in Digits
    BY <1>2, LenProperties DEF IsByte
  <2> QED
    BY <1>1, <1>2, <2>1, IsASeq, LenProperties
<1>4. length # 0
  BY <1>2, <1>3, EmptySeq DEF IsByte
<1>5. Spelled(digits)[length] <= 255
  BY <1>2 DEF IsByte
<1> HIDE DEF digits, length
<1>6. 0 \in P
  BY <1>1, <1>3, SpelledStep
<1>7. ASSUME NEW k \in Nat, k \in P, k + 1 <= length
      PROVE  Scanned(text)[i + (k + 1)] = Locals(segs, k + 1, Spelled(digits)[k + 1])
  <2>1. k + 1 \in 1 .. length /\ k \in 0 .. length /\ (k + 1) - 1 = k
    BY <1>1, <1>7
  <2>2. i + (k + 1) \in 1 .. Len(text) /\ (i + (k + 1)) - 1 = i + k
    BY <1>1, <1>7
  <2>3. Scanned(text)[i + k] = Locals(segs, k, Spelled(digits)[k])
    BY <1>7, <2>1
  <2>4. digits[k + 1] = text[i + (k + 1)]
    BY <1>2, <2>1
  <2>5. Scanned(text)[i + (k + 1)] = Scan(Scanned(text)[i + k], text[i + (k + 1)])
    BY <2>2, ScannedStep
  <2>6. Scanned(text)[i + (k + 1)]
          = Scan(Locals(segs, k, Spelled(digits)[k]), digits[k + 1])
    BY <2>3, <2>4, <2>5
  <2>7. Spelled(digits)[k + 1] = 10 * Spelled(digits)[k] + digits[k + 1]
    <3>1. k + 1 \in 1 .. Len(digits)
      BY <1>2, <2>1
    <3> QED
      BY <1>3, <1>7, <3>1, SpelledNext
  <2>8. Spelled(digits)[k] \in Nat /\ Spelled(digits)[k + 1] \in Nat
    <3>1. k \in 0 .. Len(digits) /\ k + 1 \in 0 .. Len(digits)
      BY <1>1, <1>2, <2>1
    <3>2. \A n \in 0 .. Len(digits) : Spelled(digits)[n] \in Nat
      BY <1>3, SpelledNat
    <3> QED
      BY <3>1, <3>2
  <2>9. Spelled(digits)[k + 1] <= Spelled(digits)[length]
    BY <1>2, <1>3, <2>1, SpelledGrows
  <2>10. digits[k + 1] \in Digits
    BY <1>2, <1>3, <2>1, ElementOfSeq
  <2>11. Spelled(digits)[length] \in Nat
    BY <1>1, <1>2, <1>3, SpelledNat
  <2>12. Spelled(digits)[k + 1] <= 255
    BY <1>5, <2>8, <2>9, <2>11, AtMost
  <2>13. Scan(Locals(segs, k, Spelled(digits)[k]), digits[k + 1])
           = Locals(segs, k + 1, Spelled(digits)[k + 1])
    <3> DEFINE value == Spelled(digits)[k]
               next  == Spelled(digits)[k + 1]
               digit == digits[k + 1]
    <3>1. value \in Nat /\ next \in Nat /\ digit \in Digits /\ k \in Nat
          /\ next = 10 * value + digit /\ next <= 255
      BY <1>7, <2>7, <2>8, <2>10, <2>12
    <3> HIDE DEF value, next, digit
    <3>2. Scan(Locals(segs, k, value), digit) = Locals(segs, k + 1, next)
      BY <3>1, ScanTaken
    <3> QED
      BY <3>2 DEF value, next, digit
  <2> QED
    BY <2>6, <2>13
<1> HIDE DEF P
<1>8. \A k \in Nat : k \in P => k + 1 \in P
  BY <1>1, <1>7 DEF P
<1>9. length \in P
  BY <1>1, <1>6, <1>8, Inductive
<1>10. Scanned(text)[j - 1] = Locals(segs, length, Spelled(digits)[length])
  BY <1>1, <1>9 DEF P
<1>11. Spelled(digits)[length] \in Nat
  BY <1>1, <1>2, <1>3, SpelledNat
<1> QED
  BY <1>1, <1>4, <1>10, <1>11 DEF Pending

\* A dot behind digits begins the next number.
LEMMA DotScanned ==
  ASSUME NEW text \in Seq(Characters), NEW i \in 1 .. Len(text), text[i] = Dot,
         NEW segs \in 0 .. 2, Pending(text, i - 1, segs)
  PROVE  Scanned(text)[i] = Locals(segs + 1, 0, 0)
<1>1. PICK chcnt \in Nat \ {0}, accum \in Nat :
        Scanned(text)[i - 1] = Locals(segs, chcnt, accum)
  BY DEF Pending
<1>2. Scanned(text)[i] = Scan(Locals(segs, chcnt, accum), Dot)
  BY <1>1, ScannedStep
<1> QED
  BY <1>2, ScanDot DEF AtDot

\* No address is refused.
LEMMA QuadsAccepted ==
  ASSUME NEW text \in Seq(Characters), IsDottedQuad(text)
  PROVE  IsValidIp4(text)
<1> DEFINE end == Len(text) + 1
<1>1. PICK a, b, c \in DOMAIN text :
        /\ text[a] = Dot /\ text[b] = Dot /\ text[c] = Dot
        /\ a < b /\ b < c
        /\ IsByte(Between(text, 0, a)) /\ IsByte(Between(text, a, b))
        /\ IsByte(Between(text, b, c)) /\ IsByte(Between(text, c, end))
  BY DEF IsDottedQuad
<1>2. /\ Len(text) \in Nat
      /\ a \in 1 .. Len(text) /\ b \in 1 .. Len(text) /\ c \in 1 .. Len(text)
      /\ {0, a, b, c} \subseteq 0 .. Len(text)
      /\ {a, b, c, end} \subseteq 1 .. Len(text) + 1
      /\ 0 < a /\ c < end /\ end - 1 = Len(text)
  BY LenProperties
<1> HIDE DEF end
<1>3. Scanned(text)[0] = Locals(0, 0, 0)
  BY ScannedStep DEF Start
<1>4. Scanned(text)[a] = Locals(1, 0, 0)
  <2>1. Pending(text, a - 1, 0)
    BY <1>1, <1>2, <1>3, ByteScanned
  <2>2. Scanned(text)[a] = Locals(0 + 1, 0, 0)
    BY <1>1, <1>2, <2>1, DotScanned
  <2> QED
    BY <2>2
<1>5. Scanned(text)[b] = Locals(2, 0, 0)
  <2>1. Pending(text, b - 1, 1)
    BY <1>1, <1>2, <1>4, ByteScanned
  <2>2. Scanned(text)[b] = Locals(1 + 1, 0, 0)
    BY <1>1, <1>2, <2>1, DotScanned
  <2> QED
    BY <2>2
<1>6. Scanned(text)[c] = Locals(3, 0, 0)
  <2>1. Pending(text, c - 1, 2)
    BY <1>1, <1>2, <1>5, ByteScanned
  <2>2. Scanned(text)[c] = Locals(2 + 1, 0, 0)
    BY <1>1, <1>2, <2>1, DotScanned
  <2> QED
    BY <2>2
<1>7. Pending(text, Len(text), 3)
  <2>1. Pending(text, end - 1, 3)
    BY <1>1, <1>2, <1>6, ByteScanned
  <2> QED
    BY <1>2, <2>1
<1> QED
  BY <1>7 DEF Pending, IsValidIp4, Locals
-----------------------------------------------------------------------------
(* ... and why nothing else.                                               *)

\* The first n characters are so many numbers, each with a dot behind it, the
\* last of them at "dot", and then no more dots.
Read(text, n, segs, dot) ==
  \E p \in [0 .. segs -> 0 .. n] :
    /\ p[0] = 0 /\ p[segs] = dot
    /\ \A i \in 1 .. segs : /\ p[i - 1] < p[i] /\ text[p[i]] = Dot
                            /\ IsByte(Between(text, p[i - 1], p[i]))
    /\ \A i \in 1 .. n : text[i] = Dot => \E k \in 1 .. segs : i = p[k]

\* A text all of whose characters are of a kind.
LEMMA Narrowed ==
  ASSUME NEW S, NEW R, NEW seq \in Seq(S), \A i \in 1 .. Len(seq) : seq[i] \in R
  PROVE  seq \in Seq(R)
  BY IsASeq, LenProperties

\* A digit is no dot.
LEMMA DigitIs == \A char \in Digits : char # Dot /\ char \in Nat
  BY DEF Digits, Dot

\* What the locals say of the first n characters.
Meaning(text, n, segs, chcnt, accum) ==
  /\ Read(text, n, segs, n - chcnt)
  /\ \A i \in n - chcnt + 1 .. n : text[i] \in Digits
  /\ accum = Spelled(Between(text, n - chcnt, n + 1))[chcnt]

Means(text, n, scan) ==
  ~scan.returned =>
    \E segs \in 0 .. 3, chcnt \in 0 .. n, accum \in 0 .. 255 :
      scan = Locals(segs, chcnt, accum) /\ Meaning(text, n, segs, chcnt, accum)

\* Digits behind place i.
LEMMA DigitsBetween ==
  ASSUME NEW text \in Seq(Characters), NEW i \in 0 .. Len(text), NEW n \in i .. Len(text),
         \A m \in i + 1 .. n : text[m] \in Digits
  PROVE  /\ Between(text, i, n + 1) \in Seq(Digits)
         /\ Len(Between(text, i, n + 1)) = n - i
         /\ \A m \in 1 .. n - i : Between(text, i, n + 1)[m] = text[i + m]
<1> DEFINE digits == Between(text, i, n + 1)
<1>1. Len(text) \in Nat
  BY LenProperties
<1>2. i \in Nat /\ n \in Nat /\ n - i \in Nat /\ i < n + 1 /\ (n + 1) - 1 - i = n - i
      /\ n + 1 \in 1 .. Len(text) + 1
  BY <1>1
<1>3. /\ digits \in Seq(Characters)
      /\ Len(digits) = (n + 1) - 1 - i
      /\ \A m \in 1 .. (n + 1) - 1 - i : digits[m] = text[i + m]
  BY <1>2, BetweenIs
<1> HIDE DEF digits
<1>4. Len(digits) = n - i /\ \A m \in 1 .. n - i : digits[m] = text[i + m]
  BY <1>2, <1>3
<1>5. \A m \in 1 .. n - i : i + m \in i + 1 .. n
  BY <1>2
<1>6. \A m \in 1 .. n - i : digits[m] \in Digits
  BY <1>4, <1>5
<1>7. digits \in Seq(Digits)
  BY <1>3, <1>4, <1>6, Narrowed
<1> QED
  BY <1>4, <1>7 DEF digits

\* One digit more.
LEMMA SpelledMore ==
  ASSUME NEW text \in Seq(Characters), NEW i \in 0 .. Len(text),
         NEW n \in i .. Len(text), n + 1 <= Len(text),
         \A m \in i + 1 .. n + 1 : text[m] \in Digits
  PROVE  Spelled(Between(text, i, n + 2))[n + 1 - i]
           = 10 * Spelled(Between(text, i, n + 1))[n - i] + text[n + 1]
<1> DEFINE digits == Between(text, i, n + 1)
           longer == Between(text, i, n + 2)
<1>1. Len(text) \in Nat
  BY LenProperties
<1>2. /\ n \in Nat /\ i \in Nat /\ n - i \in Nat /\ n + 1 - i = (n - i) + 1
      /\ n + 1 \in i .. Len(text) /\ (n + 1) + 1 = n + 2
      /\ i + 1 .. n \subseteq i + 1 .. n + 1
  BY <1>1
<1>3. /\ Len(digits) = n - i /\ digits \in Seq(Digits)
      /\ \A m \in 1 .. n - i : digits[m] = text[i + m]
  BY <1>2, DigitsBetween
<1>4. /\ Len(longer) = n + 1 - i /\ longer \in Seq(Digits)
      /\ \A m \in 1 .. n + 1 - i : longer[m] = text[i + m]
  <2>1. /\ Between(text, i, (n + 1) + 1) \in Seq(Digits)
        /\ Len(Between(text, i, (n + 1) + 1)) = (n + 1) - i
        /\ \A m \in 1 .. (n + 1) - i : Between(text, i, (n + 1) + 1)[m] = text[i + m]
    BY <1>2, DigitsBetween
  <2>2. (n + 1) + 1 = n + 2
    BY <1>2
  <2> QED
    BY <2>1, <2>2
<1> HIDE DEF digits, longer
<1>5. /\ n - i \in 0 .. Len(digits) /\ Len(digits) <= Len(longer)
      /\ (n - i) + 1 \in 1 .. Len(longer)
      /\ 1 .. n - i \subseteq 1 .. n + 1 - i
  BY <1>2, <1>3, <1>4
<1>6. Spelled(digits)[n - i] = Spelled(longer)[n - i]
  <2>1. \A m \in 1 .. Len(digits) : digits[m] = longer[m]
    BY <1>3, <1>4, <1>5
  <2> QED
    BY <1>3, <1>4, <1>5, <2>1, SpelledPrefix
<1>7. Spelled(longer)[(n - i) + 1] = 10 * Spelled(longer)[n - i] + longer[(n - i) + 1]
  BY <1>2, <1>4, <1>5, SpelledNext
<1>8. longer[(n - i) + 1] = text[n + 1]
  <2>1. (n - i) + 1 \in 1 .. n + 1 - i /\ i + ((n - i) + 1) = n + 1
    BY <1>2
  <2> QED
    BY <1>4, <2>1
<1> QED
  BY <1>2, <1>6, <1>7, <1>8 DEF digits, longer

\* A dot behind a number.
LEMMA ReadDot ==
  ASSUME NEW text \in Seq(Characters), NEW n \in Nat, n + 1 <= Len(text),
         NEW segs \in Nat, NEW dot \in 0 .. n, Read(text, n, segs, dot),
         text[n + 1] = Dot, IsByte(Between(text, dot, n + 1))
  PROVE  Read(text, n + 1, segs + 1, n + 1)
<1>1. PICK p \in [0 .. segs -> 0 .. n] :
        /\ p[0] = 0 /\ p[segs] = dot
        /\ \A i \in 1 .. segs : /\ p[i - 1] < p[i] /\ text[p[i]] = Dot
                                /\ IsByte(Between(text, p[i - 1], p[i]))
        /\ \A i \in 1 .. n : text[i] = Dot => \E k \in 1 .. segs : i = p[k]
  BY DEF Read
<1> DEFINE q == [k \in 0 .. segs + 1 |-> IF k = segs + 1 THEN n + 1 ELSE p[k]]
<1>2. /\ q \in [0 .. segs + 1 -> 0 .. n + 1]
      /\ q[0] = 0 /\ q[segs + 1] = n + 1 /\ q[segs] = dot
      /\ \A k \in 0 .. segs : q[k] = p[k]
  BY <1>1
<1> HIDE DEF q
<1>3. ASSUME NEW i \in 1 .. segs + 1
      PROVE  /\ q[i - 1] < q[i] /\ text[q[i]] = Dot
             /\ IsByte(Between(text, q[i - 1], q[i]))
  <2>1. CASE i = segs + 1
    <3>1. q[i] = n + 1 /\ q[i - 1] = dot
      BY <1>2, <2>1
    <3> QED
      BY <3>1
  <2>2. CASE i # segs + 1
    <3>1. i \in 1 .. segs /\ i \in 0 .. segs /\ i - 1 \in 0 .. segs
      BY <2>2
    <3>2. q[i] = p[i] /\ q[i - 1] = p[i - 1]
      BY <1>2, <3>1
    <3> QED
      BY <1>1, <3>1, <3>2
  <2> QED
    BY <2>1, <2>2
<1>4. ASSUME NEW i \in 1 .. n + 1, text[i] = Dot
      PROVE  \E k \in 1 .. segs + 1 : i = q[k]
  <2>1. CASE i = n + 1
    BY <1>2, <2>1
  <2>2. CASE i # n + 1
    <3>1. i \in 1 .. n
      BY <2>2
    <3>2. PICK k \in 1 .. segs : i = p[k]
      BY <1>1, <1>4, <3>1
    <3> QED
      BY <1>2, <3>2
  <2> QED
    BY <2>1, <2>2
<1> QED
  BY <1>2, <1>3, <1>4 DEF Read

\* A character that is no dot.
LEMMA ReadMore ==
  ASSUME NEW text \in Seq(Characters), NEW n \in Nat,
         NEW segs \in Nat, NEW dot \in 0 .. n, Read(text, n, segs, dot),
         text[n + 1] # Dot
  PROVE  Read(text, n + 1, segs, dot)
<1>1. PICK p \in [0 .. segs -> 0 .. n] :
        /\ p[0] = 0 /\ p[segs] = dot
        /\ \A i \in 1 .. segs : /\ p[i - 1] < p[i] /\ text[p[i]] = Dot
                                /\ IsByte(Between(text, p[i - 1], p[i]))
        /\ \A i \in 1 .. n : text[i] = Dot => \E k \in 1 .. segs : i = p[k]
  BY DEF Read
<1>2. p \in [0 .. segs -> 0 .. n + 1]
  OBVIOUS
<1>3. \A i \in 1 .. n + 1 : text[i] = Dot => i \in 1 .. n
  OBVIOUS
<1> QED
  BY <1>1, <1>2, <1>3 DEF Read

\* Digits that spell at most 255 are a number.
LEMMA ByteBetween ==
  ASSUME NEW text \in Seq(Characters), NEW dot \in 0 .. Len(text), NEW n \in dot .. Len(text),
         \A i \in dot + 1 .. n : text[i] \in Digits, n - dot # 0,
         Spelled(Between(text, dot, n + 1))[n - dot] \in 0 .. 255
  PROVE  IsByte(Between(text, dot, n + 1))
<1> DEFINE digits == Between(text, dot, n + 1)
<1>1. digits \in Seq(Digits) /\ Len(digits) = n - dot
  BY DigitsBetween
<1>2. Spelled(digits)[n - dot] <= 255
  BY InByte
<1> HIDE DEF digits
<1>3. Len(digits) # 0
  BY <1>1
<1>4. digits # <<>>
  BY <1>3
<1>5. \A m \in DOMAIN digits : digits[m] \in Digits
  BY <1>1, ElementOfSeq, LenProperties
<1>6. Spelled(digits)[Len(digits)] <= 255
  BY <1>1, <1>2
<1>7. IsByte(digits)
  BY <1>4, <1>5, <1>6 DEF IsByte
<1> QED
  BY <1>7 DEF digits

\* The loop keeps what its locals say, at a dot ...
LEMMA MeaningDot ==
  ASSUME NEW text \in Seq(Characters), NEW n \in Nat, n + 1 <= Len(text),
         NEW segs \in Nat, NEW chcnt \in 0 .. n, NEW accum \in 0 .. 255,
         Meaning(text, n, segs, chcnt, accum), text[n + 1] = Dot, chcnt # 0
  PROVE  Meaning(text, n + 1, segs + 1, 0, 0)
<1> DEFINE dot == n - chcnt
<1>1. Len(text) \in Nat
  BY LenProperties
<1>2. /\ dot \in 0 .. n /\ dot \in 0 .. Len(text) /\ n \in dot .. Len(text)
      /\ n - dot = chcnt /\ chcnt \in Nat
  BY <1>1
<1>3. /\ Read(text, n, segs, dot) /\ \A i \in dot + 1 .. n : text[i] \in Digits
      /\ accum = Spelled(Between(text, dot, n + 1))[chcnt]
  BY DEF Meaning
<1> HIDE DEF dot
<1>5. IsByte(Between(text, dot, n + 1))
  BY <1>2, <1>3, ByteBetween
<1>6. Read(text, n + 1, segs + 1, n + 1)
  BY <1>2, <1>3, <1>5, ReadDot
<1>7. Spelled(Between(text, n + 1, n + 2))[0] = 0
  <2>1. /\ n + 1 \in 0 .. Len(text) /\ n + 1 \in n + 1 .. Len(text)
        /\ (n + 1) + 1 = n + 2 /\ \A m \in (n + 1) + 1 .. n + 1 : FALSE
    BY <1>1
  <2>2. Between(text, n + 1, (n + 1) + 1) \in Seq(Digits)
    BY <2>1, DigitsBetween
  <2> QED
    BY <2>1, <2>2, SpelledStep
<1>8. (n + 1) - 0 = n + 1 /\ (n + 1) + 1 = n + 2 /\ \A m \in (n + 1) + 1 .. n + 1 : FALSE
  OBVIOUS
<1> QED
  BY <1>6, <1>7, <1>8 DEF Meaning

\* ... and at a digit, ...
LEMMA MeaningDigit ==
  ASSUME NEW text \in Seq(Characters), NEW n \in Nat, n + 1 <= Len(text),
         NEW segs \in Nat, NEW chcnt \in 0 .. n, NEW accum \in 0 .. 255,
         Meaning(text, n, segs, chcnt, accum), text[n + 1] \in Digits
  PROVE  Meaning(text, n + 1, segs, chcnt + 1, 10 * accum + text[n + 1])
<1> DEFINE dot == n - chcnt
<1>1. Len(text) \in Nat
  BY LenProperties
<1>2. /\ dot \in 0 .. n /\ dot \in 0 .. Len(text) /\ n \in dot .. Len(text)
      /\ n - dot = chcnt /\ n + 1 - dot = chcnt + 1
      /\ (n + 1) - (chcnt + 1) = dot /\ (n + 1) + 1 = n + 2
      /\ dot + 1 .. n + 1 = (dot + 1 .. n) \cup {n + 1}
  BY <1>1
<1>3. /\ Read(text, n, segs, dot) /\ \A i \in dot + 1 .. n : text[i] \in Digits
      /\ accum = Spelled(Between(text, dot, n + 1))[chcnt]
  BY DEF Meaning
<1> HIDE DEF dot
<1>4. text[n + 1] # Dot
  BY DigitIs
<1>5. Read(text, n + 1, segs, dot)
  BY <1>2, <1>3, <1>4, ReadMore
<1>6. \A i \in dot + 1 .. n + 1 : text[i] \in Digits
  BY <1>2, <1>3
<1>7. Spelled(Between(text, dot, n + 2))[n + 1 - dot]
        = 10 * Spelled(Between(text, dot, n + 1))[n - dot] + text[n + 1]
  BY <1>2, <1>6, SpelledMore
<1>8. Spelled(Between(text, dot, n + 2))[chcnt + 1] = 10 * accum + text[n + 1]
  BY <1>2, <1>3, <1>7
<1> QED
  BY <1>2, <1>5, <1>6, <1>8 DEF Meaning

\* ... and returns 0 for anything else.
LEMMA MeansNext ==
  ASSUME NEW text \in Seq(Characters), NEW n \in Nat, n + 1 <= Len(text),
         Means(text, n, Scanned(text)[n])
  PROVE  Means(text, n + 1, Scanned(text)[n + 1])
<1> DEFINE scan == Scanned(text)[n]
           next == Scanned(text)[n + 1]
           char == text[n + 1]
<1>1. next = Scan(scan, char)
  <2>1. Len(text) \in Nat
    BY LenProperties
  <2>2. n + 1 \in 1 .. Len(text) /\ (n + 1) - 1 = n
    BY <2>1
  <2>3. Scanned(text)[n + 1] = Scan(Scanned(text)[(n + 1) - 1], text[n + 1])
    BY <2>2, ScannedStep
  <2> QED
    BY <2>2, <2>3
<1>2. Means(text, n, scan)
  BY Zenon
<1>3. char = text[n + 1]
  BY Zenon
<1> SUFFICES Means(text, n + 1, next)
  BY Zenon
<1> HIDE DEF scan, next, char
<1>4. ASSUME Return(scan).returned, next = Return(scan) PROVE Means(text, n + 1, next)
  <2>1. next.returned
    BY <1>4, Zenon
  <2> QED
    BY <2>1 DEF Means
<1>5. CASE scan.returned
  <2>1. next = scan
    BY <1>1, <1>5 DEF Scan
  <2> QED
    BY <1>5, <2>1, Zenon DEF Means
<1>6. CASE ~scan.returned
  <2>1. PICK segs \in 0 .. 3, chcnt \in 0 .. n, accum \in 0 .. 255 :
          scan = Locals(segs, chcnt, accum) /\ Meaning(text, n, segs, chcnt, accum)
    BY <1>2, <1>6 DEF Means
  <2>2. segs \in Nat /\ chcnt \in Nat /\ accum \in Nat
    OBVIOUS
  <2>3. Return(scan).returned
    BY <2>1 DEF Return, Locals
  <2>4. CASE char = Dot
    <3>1. next = IF chcnt = 0 \/ segs = 3 THEN Return(scan) ELSE Locals(segs + 1, 0, 0)
      <4>1. Scan(Locals(segs, chcnt, accum), Dot) = AtDot(segs, chcnt, accum)
        BY <2>2, ScanDot
      <4>2. scan = Locals(segs, chcnt, accum) /\ next = Scan(scan, Dot)
        BY <1>1, <2>1, <2>4
      <4> QED
        BY <4>1, <4>2, Zenon DEF AtDot
    <3>2. CASE chcnt = 0 \/ segs = 3
      <4>1. next = Return(scan)
        BY <3>1, <3>2
      <4> QED
        BY <1>4, <2>3, <4>1
    <3>3. CASE ~(chcnt = 0 \/ segs = 3)
      <4>1. Meaning(text, n + 1, segs + 1, 0, 0)
        BY <1>3, <2>1, <2>2, <2>4, <3>3, MeaningDot
      <4>2. segs + 1 \in 0 .. 3 /\ 0 \in 0 .. n + 1 /\ 0 \in 0 .. 255
        BY <3>3
      <4>3. next = Locals(segs + 1, 0, 0)
        BY <3>1, <3>3
      <4> QED
        BY <4>1, <4>2, <4>3 DEF Means
    <3> QED
      BY <3>2, <3>3
  <2>5. CASE char \in Digits
    <3> DEFINE value == 10 * accum + char
    <3>1. next = IF value > 255 THEN Return(scan) ELSE Locals(segs, chcnt + 1, value)
      <4>1. Scan(Locals(segs, chcnt, accum), char) = AtDigit(segs, chcnt, accum, char)
        BY <2>2, <2>5, ScanDigit, Zenon
      <4>2. scan = Locals(segs, chcnt, accum) /\ next = Scan(scan, char)
        BY <1>1, <2>1
      <4> QED
        BY <4>1, <4>2, Zenon DEF AtDigit
    <3>2. value \in Nat
      BY <2>2, <2>5, DigitIs
    <3>3. Meaning(text, n + 1, segs, chcnt + 1, value)
      BY <1>3, <2>1, <2>2, <2>5, MeaningDigit
    <3> HIDE DEF value
    <3>4. CASE value > 255
      <4>1. next = Return(scan)
        BY <3>1, <3>4
      <4> QED
        BY <1>4, <2>3, <4>1
    <3>5. CASE ~(value > 255)
      <4>1. chcnt + 1 \in 0 .. n + 1 /\ value \in 0 .. 255
        BY <3>2, <3>5
      <4>2. next = Locals(segs, chcnt + 1, value)
        BY <3>1, <3>5
      <4> QED
        BY <3>3, <4>1, <4>2 DEF Means
    <3> QED
      BY <3>4, <3>5
  <2>6. CASE char # Dot /\ char \notin Digits
    <3>1. Scan(scan, char) = Return(scan)
      BY <1>6, <2>6 DEF Scan
    <3>2. next = Return(scan)
      BY <1>1, <3>1
    <3> QED
      BY <1>4, <2>3, <3>2
  <2> QED
    BY <2>4, <2>5, <2>6
<1> QED
  BY <1>5, <1>6

\* ... so that it holds when isValidIp4 looks at them.
LEMMA MeansAlways ==
  ASSUME NEW text \in Seq(Characters)
  PROVE  Means(text, Len(text), Scanned(text)[Len(text)])
<1> DEFINE P == {n \in Nat : n <= Len(text) => Means(text, n, Scanned(text)[n])}
<1>1. Len(text) \in Nat
  BY LenProperties
<1>2. Means(text, 0, Scanned(text)[0])
  <2>1. Scanned(text)[0] = Locals(0, 0, 0)
    BY ScannedStep DEF Start
  <2>2. Read(text, 0, 0, 0)
    <3> DEFINE p == [i \in 0 .. 0 |-> 0]
    <3>1. p \in [0 .. 0 -> 0 .. 0] /\ p[0] = 0
      OBVIOUS
    <3> HIDE DEF p
    <3>2. \A i \in 1 .. 0 : FALSE
      OBVIOUS
    <3> QED
      BY <3>1, <3>2 DEF Read
  <2>3. Spelled(Between(text, 0, 1))[0] = 0
    <3>1. Len(Between(text, 0, 1)) = 0 /\ Between(text, 0, 1) \in Seq(Characters)
      BY <1>1, BetweenIs
    <3>2. Between(text, 0, 1) \in Seq(Digits)
      BY <3>1, EmptySeq
    <3> QED
      BY <3>2, SpelledStep
  <2>4. 0 \in 0 .. 3 /\ 0 \in 0 .. 0 /\ 0 \in 0 .. 255 /\ 0 - 0 = 0 /\ 0 + 1 = 1
    OBVIOUS
  <2>5. \A i \in 0 - 0 + 1 .. 0 : text[i] \in Digits
    OBVIOUS
  <2> QED
    BY <2>1, <2>2, <2>3, <2>4, <2>5 DEF Means, Meaning
<1>3. ASSUME NEW n \in Nat, n \in P, n + 1 <= Len(text)
      PROVE  Means(text, n + 1, Scanned(text)[n + 1])
  BY <1>1, <1>3, MeansNext
<1>4. 0 \in P
  BY <1>2
<1> HIDE DEF P
<1>5. \A n \in Nat : n \in P => n + 1 \in P
  BY <1>3 DEF P
<1>6. Len(text) \in P
  BY <1>1, <1>4, <1>5, Inductive
<1> QED
  BY <1>1, <1>6 DEF P

\* Nothing else is accepted.
LEMMA OnlyQuadsAccepted ==
  ASSUME NEW text \in Seq(Characters), IsValidIp4(text)
  PROVE  IsDottedQuad(text)
<1> DEFINE n == Len(text)
<1>1. n \in Nat /\ DOMAIN text = 1 .. n
  BY LenProperties
<1> DEFINE scan == Scanned(text)[n]
<1>12. ~scan.returned /\ scan.segs = 3 /\ scan.chcnt # 0 /\ Means(text, n, scan)
  BY MeansAlways DEF IsValidIp4
<1> HIDE DEF scan
<1>13. PICK segs \in 0 .. 3, chcnt \in 0 .. n, accum \in 0 .. 255 :
         scan = Locals(segs, chcnt, accum) /\ Meaning(text, n, segs, chcnt, accum)
  BY <1>12 DEF Means
<1>2. /\ Read(text, n, segs, n - chcnt)
      /\ \A i \in n - chcnt + 1 .. n : text[i] \in Digits
      /\ accum = Spelled(Between(text, n - chcnt, n + 1))[chcnt]
  BY <1>13 DEF Meaning
<1>3. segs = 3 /\ chcnt # 0
  BY <1>12, <1>13 DEF Locals
<1>4. PICK p \in [0 .. 3 -> 0 .. n] :
        /\ p[0] = 0 /\ p[3] = n - chcnt
        /\ \A i \in 1 .. 3 : /\ p[i - 1] < p[i] /\ text[p[i]] = Dot
                              /\ IsByte(Between(text, p[i - 1], p[i]))
        /\ \A i \in 1 .. n : text[i] = Dot => \E k \in 1 .. 3 : i = p[k]
  BY <1>2, <1>3 DEF Read
<1> HIDE DEF n
<1>5. /\ p[1] \in 1 .. n /\ p[2] \in 1 .. n /\ p[3] \in 1 .. n
      /\ p[1] < p[2] /\ p[2] < p[3]
      /\ text[p[1]] = Dot /\ text[p[2]] = Dot /\ text[p[3]] = Dot
      /\ IsByte(Between(text, 0, p[1])) /\ IsByte(Between(text, p[1], p[2]))
      /\ IsByte(Between(text, p[2], p[3]))
  <2>1. /\ p[1 - 1] < p[1] /\ text[p[1]] = Dot /\ IsByte(Between(text, p[1 - 1], p[1]))
        /\ p[2 - 1] < p[2] /\ text[p[2]] = Dot /\ IsByte(Between(text, p[2 - 1], p[2]))
        /\ p[3 - 1] < p[3] /\ text[p[3]] = Dot /\ IsByte(Between(text, p[3 - 1], p[3]))
    BY <1>4
  <2>2. 1 - 1 = 0 /\ 2 - 1 = 1 /\ 3 - 1 = 2
    OBVIOUS
  <2>3. /\ p[0] < p[1] /\ p[1] < p[2] /\ p[2] < p[3]
        /\ text[p[1]] = Dot /\ text[p[2]] = Dot /\ text[p[3]] = Dot
        /\ IsByte(Between(text, p[0], p[1])) /\ IsByte(Between(text, p[1], p[2]))
        /\ IsByte(Between(text, p[2], p[3]))
    BY <2>1, <2>2
  <2> QED
    BY <1>1, <1>4, <2>3
<1>6. {i \in DOMAIN text : text[i] = Dot} = {p[1], p[2], p[3]}
  <2>1. \A k \in 1 .. 3 : k = 1 \/ k = 2 \/ k = 3
    OBVIOUS
  <2> QED
    BY <1>1, <1>4, <1>5, <2>1
<1>7. IsByte(Between(text, p[3], n + 1))
  <2>1. /\ p[3] \in 0 .. n /\ n \in p[3] .. n /\ n - p[3] = chcnt /\ p[3] = n - chcnt
    BY <1>1, <1>4, <1>5
  <2>2. \A i \in p[3] + 1 .. n : text[i] \in Digits
    BY <1>2, <2>1
  <2>3. Spelled(Between(text, p[3], n + 1))[n - p[3]] \in 0 .. 255
    BY <1>2, <2>1
  <2> QED
    BY <1>3, <2>1, <2>2, <2>3, ByteBetween DEF n
<1>8. p[1] \in DOMAIN text /\ p[2] \in DOMAIN text /\ p[3] \in DOMAIN text
  BY <1>1, <1>5
<1> DEFINE dots == {i \in DOMAIN text : text[i] = Dot}
<1>9. p[1] \in dots /\ p[2] \in dots /\ p[3] \in dots /\ dots = {p[1], p[2], p[3]}
  BY <1>6
<1>10. IsByte(Between(text, p[3], Len(text) + 1))
  BY <1>7 DEF n
<1> HIDE DEF dots
<1>11. \E a, b, c \in dots :
        /\ a < b /\ b < c /\ dots = {a, b, c}
        /\ IsByte(Between(text, 0, a)) /\ IsByte(Between(text, a, b))
        /\ IsByte(Between(text, b, c)) /\ IsByte(Between(text, c, Len(text) + 1))
  BY <1>5, <1>9, <1>10
<1> QED
  BY <1>11 DEF IsDottedQuad, dots

\* isValidIp4 (addresschecker.c:13) accepts exactly the texts that are four numbers
\* of 0 to 255 with dots between them, of any length.
THEOREM AddressesAreQuads ==
  \A text \in Seq(Characters) : IsValidIp4(text) <=> IsDottedQuad(text)
  BY QuadsAccepted, OnlyQuadsAccepted

LEMMA DottedQuadsAccepted ==
  Addresses = DottedQuads /\ NULL \notin Addresses
  BY AddressesAreQuads, SpellingAssumption
     DEF SpellingAssumption, Addresses, DottedQuads
-----------------------------------------------------------------------------
(* The inductive invariant.                                                *)

LEMMA ConfigInit == Init => IInv
<1> SUFFICES ASSUME Init PROVE IInv
  OBVIOUS
<1>1. pc = "open" /\ ~InControl /\ ~InMetadata /\ ~Accepted /\ ~InLoop
  BY DEF Init, InControl, InMetadata, Accepted, InLoop
<1>2. TypeOK
  <2>1. list \in [AddressKeys -> InterfaceLists \cup {<<>>}]
    <3>1. list = [key \in AddressKeys |-> <<>>]
      BY DEF Init
    <3>2. <<>> \in InterfaceLists \cup {<<>>}
      OBVIOUS
    <3> QED
      BY <3>1, <3>2
  <2>2. fault \in BOOLEAN
    BY DEF Init
  <2>3. at \in Nat \ {0} /\ ifa \in Nat \ {0} /\ blocks = {} /\ doc \in Documents
    BY DEF Init
  <2> QED
    BY <1>1, <2>1, <2>2, <2>3 DEF TypeOK
<1> QED
  BY <1>1, <1>2 DEF Init, IInv, HeapByPhase, FieldsReached, ControlResolved,
     PointersSet, AddressesChecked, OnlyMalformedCrash

\* The lists that have been fetched.
LEMMA ListsTyped ==
  ASSUME TypeOK, NEW key \in AddressKeys
  PROVE  /\ Len(list[key]) \in Nat
         /\ \A i \in 1 .. Len(list[key]) :
              /\ list[key][i].addr \in Addresses /\ list[key][i].brd \in Addresses
              /\ list[key][i].name \notin Addresses
<1>1. list[key] \in InterfaceLists \cup {<<>>}
  BY DEF TypeOK
<1>2. CASE list[key] = <<>>
  BY <1>2
<1>3. CASE list[key] \in InterfaceLists
  BY <1>3, ConfigAssumption, DottedQuadsAccepted DEF ConfigAssumption
<1> QED
  BY <1>1, <1>2, <1>3

LEMMA ObjectsTyped ==
  ASSUME TypeOK
  PROVE  /\ doc.control # NULL => IsObject(doc.control)
         /\ doc.metadata # NULL => IsObject(doc.metadata)
  BY ConfigAssumption DEF ConfigAssumption, TypeOK

LEMMA CallsDisjoint ==
  /\ FreeMetadata \cap FreeControlData = {}
  /\ FreeMetadata \cap {"json"} = {} /\ FreeControlData \cap {"json"} = {}
  /\ FreeControlData \cap FreeMetadata = {}
  /\ {"json"} \cap FreeMetadata = {} /\ {"json"} \cap FreeControlData = {}
  BY DEF FreeMetadata, FreeControlData

\* No label frees a block twice.
LEMMA NothingTwice ==
  ASSUME NEW label \in {"failed", "unknown metadata", "failed_metadata", "err",
                        "exit"},
         NEW held
  PROVE  ~FreedTwice(FreedAt(label), held)
<1>1. CASE label \in {"failed", "unknown metadata"}
  <2>1. FreedAt(label) = {FreeMetadata, FreeControlData, {"json"}}
    BY <1>1 DEF FreedAt
  <2>2. ASSUME NEW c \in FreedAt(label), NEW d \in FreedAt(label), c # d
        PROVE  c \cap d = {}
    <3>1. c \in {FreeMetadata, FreeControlData, {"json"}}
      BY <2>1
    <3>2. d \in {FreeMetadata, FreeControlData, {"json"}}
      BY <2>1
    <3>3. CASE c = FreeMetadata
      BY <2>2, <3>2, <3>3, CallsDisjoint
    <3>4. CASE c = FreeControlData
      BY <2>2, <3>2, <3>4, CallsDisjoint
    <3>5. CASE c = {"json"}
      BY <2>2, <3>2, <3>5, CallsDisjoint
    <3> QED
      BY <3>1, <3>3, <3>4, <3>5
  <2>3. ASSUME NEW c \in FreedAt(label), NEW d \in FreedAt(label), c # d
        PROVE  held \cap c \cap d = {}
    <3>1. c \cap d = {}
      BY <2>2, <2>3
    <3> QED
      BY <3>1
  <2> QED
    BY <2>3 DEF FreedTwice
<1>2. CASE label \in {"failed_metadata", "err"}
  <2>1. FreedAt(label) = {FreeControlData, {"json"}}
    BY <1>2 DEF FreedAt
  <2>2. ASSUME NEW c \in FreedAt(label), NEW d \in FreedAt(label), c # d
        PROVE  held \cap c \cap d = {}
    <3>1. c \in {FreeControlData, {"json"}} /\ d \in {FreeControlData, {"json"}}
      BY <2>1
    <3>2. CASE c = FreeControlData
      BY <2>2, <3>1, <3>2, CallsDisjoint
    <3>3. CASE c = {"json"}
      BY <2>2, <3>1, <3>3, CallsDisjoint
    <3> QED
      BY <3>1, <3>2, <3>3
  <2> QED
    BY <2>2 DEF FreedTwice
<1>3. CASE label = "exit"
  BY <1>3, CallsDisjoint DEF FreedAt, FreedTwice
<1> QED
  BY <1>1, <1>2, <1>3

\* A label of readConfigFile frees everything that is held where it is used.
LEMMA FailInv ==
  ASSUME IInv,
         NEW label \in {"failed", "unknown metadata", "failed_metadata", "err"},
         Fail(label), fault' \in BOOLEAN,
         label \in {"failed_metadata", "err"} => blocks \cap FreeMetadata = {}
  PROVE  IInv'
<1>1. pc' = "failed"
  BY NothingTwice DEF Fail, Leave
<1>2. blocks' = {}
  <2>1. blocks \subseteq FreeMetadata \cup FreeControlData \cup {"json"}
    BY DEF IInv, TypeOK
  <2>2. CASE label \in {"failed", "unknown metadata"}
    BY <2>1, <2>2 DEF Fail, Leave, FreedAt
  <2>3. CASE label \in {"failed_metadata", "err"}
    BY <2>1, <2>3 DEF Fail, Leave, FreedAt
  <2> QED
    BY <2>2, <2>3
<1>3. ~InControl' /\ ~InMetadata' /\ ~Accepted' /\ ~InLoop'
  BY <1>1 DEF InControl, InMetadata, Accepted, InLoop
<1>4. TypeOK'
  BY <1>1, <1>2 DEF Fail, loop, IInv, TypeOK
<1> QED
  BY <1>1, <1>2, <1>3, <1>4 DEF IInv, HeapByPhase, FieldsReached,
     ControlResolved, PointersSet, AddressesChecked, OnlyMalformedCrash
-----------------------------------------------------------------------------
(* The steps, one by one.                                                  *)

\* WellFormed speaks of the file only.
LEMMA SameFile == ASSUME doc' = doc PROVE WellFormed' = WellFormed
  BY DEF WellFormed, Keys

LEMMA OpenInv ==
  ASSUME IInv, OpenFails \/ Open
  PROVE  IInv'
<1>1. pc = "open" /\ blocks = {} /\ at = 1 /\ ~InControl /\ ~InLoop
  BY DEF OpenFails, Open, IInv, HeapByPhase, PointersSet, InControl, InLoop
<1>2. CASE pc' = "failed"
  <2>1. blocks' = {}
    BY <1>1, <1>2 DEF OpenFails, Open
  <2> QED
    BY <1>1, <1>2, <2>1 DEF OpenFails, Open, loop, IInv, TypeOK, HeapByPhase, FieldsReached, ControlResolved,
     PointersSet, AddressesChecked, OnlyMalformedCrash, InControl, InMetadata,
     Accepted, InLoop, OnControlIP, Compared, Resolved
<1>3. CASE pc' = "control" /\ Open
  <2>1. /\ doc.control # NULL /\ blocks' = {"json", "control_data"}
        /\ UNCHANGED <<doc, at, list, ifa, fields, fault>>
    BY <1>1, <1>3 DEF Open, loop
  <2>2. TypeOK'
    BY <1>3, <2>1 DEF IInv, TypeOK, InControl, FreeControlData
  <2>3. InControl' /\ ~InMetadata' /\ ~Accepted' /\ ~InLoop' /\ pc' = "control"
    BY <1>3 DEF InControl, InMetadata, Accepted, InLoop
  <2>4. HeapByPhase'
    BY <2>1, <2>3 DEF HeapByPhase, FreeMetadata
  <2>5. controlIP' = NULL /\ broadcastAddress' = NULL /\ head' = NULL /\ at' = 1
    BY <1>1, <2>1 DEF IInv, PointersSet, fields, network
  <2>6. ControlResolved'
    BY <2>3, <2>5 DEF ControlResolved, OnControlIP
  <2>7. PointersSet'
    <3>1. Len(doc.control) \in Nat
      BY <2>1, ObjectsTyped DEF IInv, IsObject
    <3>2. doc' = doc
      BY <2>1
    <3>3. \A i \in 1 .. Len(doc'.control) : ~(i < at')
      BY <2>5, <3>1, <3>2
    <3> QED
      BY <2>3, <2>5, <3>3 DEF PointersSet
  <2> QED
    BY <2>2, <2>3, <2>4, <2>6, <2>7 DEF IInv, FieldsReached, AddressesChecked,
       OnlyMalformedCrash
<1> QED
  BY <1>2, <1>3 DEF OpenFails, Open

LEMMA Before ==
  ASSUME NEW n \in Nat, NEW a \in 1 .. n, NEW k \in 1 .. n
  PROVE  /\ k < a + 1 <=> k < a \/ k = a
         /\ k <= a <=> k < a + 1
         /\ k < a => k <= a + 1
  OBVIOUS

\* A field that is not an address.
LEMMA FieldInv ==
  ASSUME IInv, ReadRawStorage \/ ReadNumber \/ (ReadHardwareScripts /\ pc' = "control")
  PROVE  IInv'
<1>1. /\ pc = "control" /\ pc' = "control" /\ at' = at + 1
      /\ at <= Len(doc.control) /\ Field.key \notin AddressKeys
      /\ UNCHANGED <<doc, list, ifa, fault, controlIP, broadcastAddress, location>>
  BY DEF ReadRawStorage, ReadNumber, ReadHardwareScripts, Reading, NextField,
     fields, network, loop, AddressKeys
<1>2. InControl /\ InControl' /\ ~InMetadata' /\ ~Accepted' /\ ~InLoop /\ ~InLoop'
  BY <1>1 DEF InControl, InMetadata, Accepted, InLoop
<1>3. doc.control # NULL /\ IsObject(doc.control)
  BY <1>2, ObjectsTyped DEF IInv, HeapByPhase
<1>4. at \in 1 .. Len(doc.control) /\ Len(doc.control) \in Nat
  BY <1>1, <1>3 DEF IInv, TypeOK, IsObject
<1>5. blocks \subseteq blocks' /\ blocks' \subseteq blocks \cup {"rawStorage", "head"}
  BY DEF ReadRawStorage, ReadNumber, ReadHardwareScripts
<1>6. TypeOK'
  <2>1. at' \in Nat \ {0}
    BY <1>1, <1>4
  <2>2. blocks' \subseteq FreeMetadata \cup FreeControlData \cup {"json"}
    BY <1>5 DEF IInv, TypeOK, FreeControlData
  <2> QED
    BY <1>1, <1>2, <2>1, <2>2 DEF IInv, TypeOK
<1>7. HeapByPhase'
  BY <1>1, <1>2, <1>3, <1>5 DEF IInv, HeapByPhase, FreeMetadata
<1>8. ControlResolved'
  <2>1. Compared' = Compared
    BY <1>1, <1>2 DEF OnControlIP, Compared
  <2>2. CASE controlIP = NULL /\ broadcastAddress = NULL
    BY <1>1, <1>2, <2>2 DEF ControlResolved, OnControlIP
  <2>3. CASE ~(controlIP = NULL /\ broadcastAddress = NULL)
    <3>1. PICK k \in 1 .. Len(doc.control) :
            /\ doc.control[k].key = "Control IP" /\ k < at
            /\ Resolved(doc.control[k].value, list["Control IP"], Compared)
      BY <1>1, <1>2, <2>3 DEF IInv, ControlResolved
    <3>2. k <= at' /\ k < at'
      <4>1. k \in 1 .. Len(doc.control) /\ k < at
        BY <3>1
      <4> QED
        BY <1>1, <1>4, <4>1, Before
    <3>3. Resolved(doc.control[k].value, list["Control IP"], Compared)'
      BY <1>1, <2>1, <3>1 DEF Resolved, LastHolder
    <3> QED
      BY <1>1, <3>1, <3>2, <3>3 DEF ControlResolved
  <2> QED
    BY <2>2, <2>3
<1>9. PointersSet'
  <2>1. ASSUME NEW i \in 1 .. Len(doc.control), i < at',
               doc.control[i].key = "Raw Storage"
        PROVE  rawStorage' # NULL
    <3>1. CASE i < at
      <4>1. rawStorage # NULL
        BY <1>2, <2>1, <3>1 DEF IInv, PointersSet
      <4> QED
        BY <1>3, <1>4, <4>1 DEF ReadRawStorage, ReadNumber, ReadHardwareScripts,
           fields, Field, IsObject
    <3>2. CASE i = at
      BY <1>3, <2>1, <3>2 DEF ReadRawStorage, ReadNumber, ReadHardwareScripts,
         Reading, Field, IsObject
    <3>3. i < at \/ i = at
      BY <1>1, <1>4, <2>1, Before
    <3> QED
      BY <3>1, <3>2, <3>3
  <2>2. head' = NULL \/ \E i \in 1 .. Len(doc.control) :
          doc.control[i].key = "Hardware Scripts" /\ head' = doc.control[i].value
    <3>1. CASE head' = head
      BY <1>2, <3>1 DEF IInv, PointersSet
    <3>2. CASE ReadHardwareScripts /\ head' = Field.value
      BY <1>4, <3>2 DEF ReadHardwareScripts, Reading, Field
    <3> QED
      BY <1>1, <3>1, <3>2 DEF ReadRawStorage, ReadNumber, ReadHardwareScripts, fields
  <2> QED
    BY <1>1, <1>2, <2>1, <2>2 DEF PointersSet
<1> QED
  BY <1>1, <1>2, <1>6, <1>7, <1>8, <1>9 DEF IInv, FieldsReached, AddressesChecked,
     OnlyMalformedCrash

\* Where Control IP is, it is once.
LEMMA OneControlIP ==
  ASSUME IInv, InControl, at \in 1 .. Len(doc.control), Field.key = "Control IP",
         NEW k \in 1 .. Len(doc.control), doc.control[k].key = "Control IP"
  PROVE  k = at
<1>1. IsObject(doc.control)
  BY ObjectsTyped DEF IInv, HeapByPhase
<1> QED
  BY <1>1 DEF IsObject, Field

\* An address begins to be replaced.
LEMMA AddressInv ==
  ASSUME IInv, ReadControlIP \/ ReadRTSPAddress
  PROVE  IInv'
<1>1. /\ pc = "control" /\ pc' = "getifaddrs" /\ at <= Len(doc.control)
      /\ Field.key \in AddressKeys
      /\ UNCHANGED <<doc, at, list, ifa, fault, broadcastAddress, rawStorage,
                     location, head>>
  BY DEF ReadControlIP, ReadRTSPAddress, Reading, loop, AddressKeys
<1>2. InControl /\ InControl' /\ ~InMetadata' /\ ~Accepted' /\ ~InLoop /\ InLoop'
  BY <1>1 DEF InControl, InMetadata, Accepted, InLoop
<1>3. doc.control # NULL /\ IsObject(doc.control)
  BY <1>2, ObjectsTyped DEF IInv, HeapByPhase
<1>4. at \in 1 .. Len(doc.control) /\ Len(doc.control) \in Nat
  BY <1>1, <1>3 DEF IInv, TypeOK, IsObject
<1>5. blocks \subseteq blocks' /\ blocks' \subseteq blocks \cup {"controlIP", "RTSPaddress"}
  BY DEF ReadControlIP, ReadRTSPAddress
<1>6. TypeOK'
  <2>1. blocks' \subseteq FreeMetadata \cup FreeControlData \cup {"json"}
    BY <1>5 DEF IInv, TypeOK, FreeControlData
  <2> QED
    BY <1>1, <1>2, <2>1 DEF IInv, TypeOK
<1>7. HeapByPhase'
  BY <1>1, <1>2, <1>3, <1>5 DEF IInv, HeapByPhase, FreeMetadata
<1>8. FieldsReached'
  BY <1>1 DEF FieldsReached, Field
<1>9. Field' = Field
  BY <1>1 DEF Field
<1>10. ControlResolved'
  <2>1. CASE ReadControlIP
    <3>1. Field.key = "Control IP" /\ controlIP' = Field.value
      BY <2>1 DEF ReadControlIP, Reading
    <3>2. broadcastAddress = NULL
      <4>1. SUFFICES ASSUME broadcastAddress # NULL PROVE FALSE
        OBVIOUS
      <4>2. PICK k \in 1 .. Len(doc.control) :
              doc.control[k].key = "Control IP" /\ k < at
        BY <1>1, <1>2, <4>1 DEF IInv, ControlResolved
      <4>3. k = at
        BY <1>2, <1>4, <3>1, <4>2, OneControlIP
      <4>4. at < at
        BY <4>2, <4>3
      <4>5. at \in Nat
        BY DEF IInv, TypeOK
      <4> QED
        BY <4>4, <4>5
    <3>3. Resolved(doc.control[at].value, list["Control IP"], Compared)'
      BY <1>1, <3>1, <3>2 DEF Resolved, Field
    <3>4. doc.control[at].key = "Control IP" /\ at <= at
      <4>1. at \in Nat
        BY DEF IInv, TypeOK
      <4>2. at <= at
        BY <4>1
      <4> QED
        BY <3>1, <4>2 DEF Field
    <3> QED
      BY <1>1, <1>4, <3>3, <3>4 DEF ControlResolved
  <2>2. CASE ReadRTSPAddress
    <3>1. Field.key = "RTSP Address" /\ controlIP' = controlIP
      BY <2>2 DEF ReadRTSPAddress, Reading
    <3>2. Compared' = Compared
      BY <1>1, <1>2, <1>9, <3>1 DEF OnControlIP, Compared
    <3>3. CASE controlIP = NULL /\ broadcastAddress = NULL
      BY <1>1, <1>9, <3>1, <3>3 DEF ControlResolved, OnControlIP
    <3>4. CASE ~(controlIP = NULL /\ broadcastAddress = NULL)
      <4>1. PICK k \in 1 .. Len(doc.control) :
              /\ doc.control[k].key = "Control IP" /\ k <= at
              /\ Resolved(doc.control[k].value, list["Control IP"], Compared)
        BY <1>1, <1>2, <3>4 DEF IInv, ControlResolved
      <4>2. Resolved(doc.control[k].value, list["Control IP"], Compared)'
        BY <1>1, <3>1, <3>2, <4>1 DEF Resolved, LastHolder
      <4> QED
        BY <1>1, <4>1, <4>2 DEF ControlResolved
    <3> QED
      BY <3>3, <3>4
  <2> QED
    BY <2>1, <2>2
<1>11. PointersSet'
  BY <1>1, <1>2 DEF IInv, PointersSet
<1> QED
  BY <1>1, <1>2, <1>6, <1>7, <1>8, <1>10, <1>11 DEF IInv, AddressesChecked,
     OnlyMalformedCrash

LEMMA Entries ==
  ASSUME NEW n \in Nat, NEW j \in Nat \ {0}, j <= n
  PROVE  /\ j \in 1 .. n /\ j \in 1 .. j /\ (j + 1) - 1 = j
         /\ \A i \in 1 .. (j - 1) : i \in 1 .. n /\ i \in 1 .. j
         /\ \A i \in 1 .. j : i <= j /\ (i = j \/ i \in 1 .. (j - 1))
  OBVIOUS

LEMMA LaterEntry ==
  ASSUME NEW n \in Nat, NEW i \in 1 .. n, NEW j \in 1 .. n, i <= j
  PROVE  j \in i .. n
  OBVIOUS

LEMMA NoEntries == \A i \in 1 .. 0 : FALSE
  OBVIOUS

\* getifaddrs: nothing has been compared yet.
LEMMA GetIfAddrsInv ==
  ASSUME IInv, GetIfAddrs
  PROVE  IInv'
<1>1. /\ pc = "getifaddrs" /\ pc' = "interfaces" /\ ifa' = 1
      /\ UNCHANGED <<doc, at, blocks, fault, rawStorage, controlIP,
                     broadcastAddress, RTSPaddress, location, head>>
  BY DEF GetIfAddrs, fields, network
<1>2. InControl /\ InControl' /\ ~InMetadata' /\ ~Accepted' /\ InLoop /\ InLoop'
  BY <1>1 DEF InControl, InMetadata, Accepted, InLoop
<1>3. Field' = Field /\ Field.key \in AddressKeys /\ at <= Len(doc.control)
  BY <1>1, <1>2 DEF Field, IInv, FieldsReached
<1>4. PICK l \in InterfaceLists : list' = [list EXCEPT ![Field.key] = l]
  BY DEF GetIfAddrs
<1>5. TypeOK'
  <2>1. list' \in [AddressKeys -> InterfaceLists \cup {<<>>}]
    BY <1>4 DEF IInv, TypeOK
  <2> QED
    BY <1>1, <1>2, <2>1 DEF IInv, TypeOK
<1>6. HeapByPhase'
  BY <1>1, <1>2 DEF IInv, HeapByPhase
<1>7. FieldsReached'
  <2>1. Len(list'[Field.key]) \in Nat
    BY <1>3, <1>5, ConfigAssumption DEF TypeOK, ConfigAssumption
  <2> QED
    BY <1>1, <1>3, <2>1 DEF FieldsReached
<1>8. ControlResolved'
  <2>1. CASE controlIP = NULL /\ broadcastAddress = NULL /\ ~OnControlIP
    BY <1>1, <1>2, <1>3, <2>1 DEF ControlResolved, OnControlIP
  <2>2. CASE ~(controlIP = NULL /\ broadcastAddress = NULL /\ ~OnControlIP)
    <3>1. PICK k \in 1 .. Len(doc.control) :
            /\ doc.control[k].key = "Control IP" /\ k <= at
            /\ Resolved(doc.control[k].value, list["Control IP"], Compared)
      BY <1>2, <2>2 DEF IInv, ControlResolved
    <3>2. CASE Field.key = "Control IP"
      <4>1. Compared = 0
        BY <1>1, <1>2, <3>2 DEF OnControlIP, Compared
      <4>2. controlIP = doc.control[k].value /\ broadcastAddress = NULL
        BY <3>1, <4>1, NoEntries DEF Resolved
      <4>3. Resolved(doc.control[k].value, list["Control IP"], Compared)'
        BY <1>1, <4>2 DEF Resolved
      <4> QED
        BY <1>1, <3>1, <4>3 DEF ControlResolved
    <3>3. CASE Field.key # "Control IP"
      <4>1. list'["Control IP"] = list["Control IP"]
        BY <1>4, <3>3 DEF IInv, TypeOK, AddressKeys
      <4>2. Compared' = Compared
        BY <1>3, <3>3, <4>1 DEF OnControlIP, Compared
      <4>3. Resolved(doc.control[k].value, list["Control IP"], Compared)'
        BY <1>1, <3>1, <4>1, <4>2 DEF Resolved, LastHolder
      <4> QED
        BY <1>1, <3>1, <4>3 DEF ControlResolved
    <3> QED
      BY <3>2, <3>3
  <2> QED
    BY <2>1, <2>2
<1>9. PointersSet'
  BY <1>1, <1>2 DEF IInv, PointersSet
<1> QED
  BY <1>1, <1>2, <1>5, <1>6, <1>7, <1>8, <1>9 DEF IInv, AddressesChecked,
     OnlyMalformedCrash

\* One entry: the name that is replaced was the configured one, because no
\* interface is named like an address.
LEMMA InterfaceInv ==
  ASSUME IInv, Interface
  PROVE  IInv'
<1> DEFINE entries == list["Control IP"]
<1>1. /\ pc = "interfaces" /\ pc' = "interfaces" /\ ifa' = ifa + 1
      /\ ifa <= Len(list[Field.key])
      /\ UNCHANGED <<doc, at, list, fault, rawStorage, location, head>>
  BY DEF Interface
<1>2. InControl /\ InControl' /\ ~InMetadata' /\ ~Accepted' /\ InLoop /\ InLoop'
  BY <1>1 DEF InControl, InMetadata, Accepted, InLoop
<1>3. Field' = Field /\ Field.key \in AddressKeys /\ at <= Len(doc.control)
  BY <1>1, <1>2 DEF Field, IInv, FieldsReached
<1>4. ifa \in Nat \ {0} /\ Len(list[Field.key]) \in Nat
  BY <1>3, ListsTyped DEF IInv, TypeOK
<1>5. blocks \subseteq blocks' /\ blocks' \subseteq blocks \cup {"broadcastAddress"}
  BY DEF Interface
<1>6. TypeOK'
  <2>1. blocks' \subseteq FreeMetadata \cup FreeControlData \cup {"json"}
    BY <1>5 DEF IInv, TypeOK, FreeControlData
  <2>2. ifa' \in Nat \ {0}
    BY <1>1, <1>4
  <2> QED
    BY <1>1, <1>2, <2>1, <2>2 DEF IInv, TypeOK
<1>7. HeapByPhase'
  BY <1>1, <1>2, <1>5 DEF IInv, HeapByPhase, FreeMetadata
<1>8. FieldsReached'
  <2>1. ifa' <= Len(list[Field.key]) + 1
    BY <1>1, <1>4
  <2> QED
    BY <1>1, <1>3, <2>1 DEF FieldsReached
<1>9. PointersSet'
  BY <1>1, <1>2 DEF IInv, PointersSet
<1>10. CASE Field.key = "Control IP"
  <2>1. /\ ifa \in 1 .. Len(entries) /\ Compared = ifa - 1 /\ Compared' = ifa
        /\ ifa \in 1 .. Compared'
        /\ \A i \in 1 .. Compared : i \in 1 .. Len(entries) /\ i \in 1 .. Compared'
        /\ \A i \in 1 .. Compared' : i <= ifa /\ (i = ifa \/ i \in 1 .. Compared)
    <3>1. Compared = ifa - 1 /\ Compared' = (ifa + 1) - 1
      BY <1>1, <1>2, <1>3, <1>10 DEF OnControlIP, Compared
    <3>2. ifa <= Len(entries) /\ Len(entries) \in Nat
      BY <1>1, <1>4, <1>10
    <3> QED
      BY <1>4, <3>1, <3>2, Entries
  <2>2. \A i \in 1 .. Len(entries) :
          /\ entries[i].addr \in Addresses /\ entries[i].brd \in Addresses
          /\ entries[i].name \notin Addresses
    BY ListsTyped DEF IInv, AddressKeys
  <2>3. controlIP' = IF controlIP = entries[ifa].name THEN entries[ifa].addr
                     ELSE controlIP
    BY <1>10 DEF Interface
  <2>4. broadcastAddress' = IF controlIP' = entries[ifa].addr
                            THEN entries[ifa].brd ELSE broadcastAddress
    BY <1>10, <2>3 DEF Interface, ByAddress
  <2>5. PICK k \in 1 .. Len(doc.control) :
          /\ doc.control[k].key = "Control IP" /\ k <= at
          /\ Resolved(doc.control[k].value, entries, Compared)
    BY <1>2, <1>10 DEF IInv, ControlResolved, OnControlIP
  <2> DEFINE configured == doc.control[k].value
             Last(i) == /\ entries[i].addr = controlIP'
                        /\ \A j \in 1 .. Compared' :
                             entries[j].addr = controlIP' => j <= i
  <2>6. Resolved(configured, entries, Compared)'
    <3>1. \A i \in 1 .. Compared : i \in 1 .. Len(entries) /\ i \in 1 .. Compared'
      BY <2>1
    <3>2. CASE controlIP = entries[ifa].name
      <4>1. controlIP \notin Addresses /\ controlIP' = entries[ifa].addr
        BY <2>1, <2>2, <2>3, <3>2
      <4>2. controlIP = configured
        BY <2>2, <2>5, <3>1, <4>1 DEF Resolved
      <4>3. broadcastAddress' = entries[ifa].brd
        BY <2>4, <4>1
      <4>4. Last(ifa)
        BY <2>1, <4>1
      <4> QED
        BY <1>1, <2>1, <3>2, <4>1, <4>2, <4>3, <4>4 DEF Resolved, LastHolder
    <3>3. CASE controlIP # entries[ifa].name
      <4>1. controlIP' = controlIP
        BY <2>3, <3>3
      <4>2. controlIP' = configured \/ \E i \in 1 .. Compared' :
              entries[i].name = configured /\ controlIP' = entries[i].addr
        BY <2>5, <3>1, <4>1 DEF Resolved
      <4>3. broadcastAddress' = NULL \/ \E i \in 1 .. Compared' :
              Last(i) /\ broadcastAddress' = entries[i].brd
        <5>1. CASE controlIP' = entries[ifa].addr
          <6>1. Last(ifa)
            BY <2>1, <5>1
          <6> QED
            BY <2>1, <2>4, <5>1, <6>1
        <5>2. CASE controlIP' # entries[ifa].addr
          <6>1. broadcastAddress' = broadcastAddress
            BY <2>4, <5>2
          <6>2. CASE broadcastAddress # NULL
            <7>1. PICK i \in 1 .. Compared :
                    /\ LastHolder(entries, Compared, i)
                    /\ broadcastAddress = entries[i].brd
              BY <2>5, <6>2 DEF Resolved
            <7>2. Last(i)
              BY <2>1, <4>1, <5>2, <7>1 DEF LastHolder
            <7> QED
              BY <3>1, <6>1, <7>1, <7>2
          <6> QED
            BY <6>1, <6>2
        <5> QED
          BY <5>1, <5>2
      <4> QED
        BY <1>1, <4>2, <4>3 DEF Resolved, LastHolder
    <3> QED
      BY <3>2, <3>3
  <2>7. ControlResolved'
    BY <1>1, <2>5, <2>6 DEF ControlResolved
  <2> QED
    BY <1>1, <1>2, <1>6, <1>7, <1>8, <1>9, <2>7 DEF IInv, AddressesChecked,
       OnlyMalformedCrash
<1>11. CASE Field.key # "Control IP"
  <2>1. UNCHANGED <<controlIP, broadcastAddress>>
    BY <1>11 DEF Interface
  <2>2. Compared' = Compared
    BY <1>1, <1>3, <1>11 DEF OnControlIP, Compared
  <2>3. ControlResolved'
    <3>1. CASE controlIP = NULL /\ broadcastAddress = NULL
      BY <1>1, <1>3, <1>11, <2>1, <3>1 DEF ControlResolved, OnControlIP
    <3>2. CASE ~(controlIP = NULL /\ broadcastAddress = NULL)
      <4>1. PICK k \in 1 .. Len(doc.control) :
              /\ doc.control[k].key = "Control IP" /\ k <= at
              /\ Resolved(doc.control[k].value, entries, Compared)
        BY <1>2, <3>2 DEF IInv, ControlResolved
      <4>2. Resolved(doc.control[k].value, entries, Compared)'
        BY <1>1, <2>1, <2>2, <4>1 DEF Resolved, LastHolder
      <4> QED
        BY <1>1, <4>1, <4>2 DEF ControlResolved
    <3> QED
      BY <3>1, <3>2
  <2> QED
    BY <1>1, <1>2, <1>6, <1>7, <1>8, <1>9, <2>3 DEF IInv, AddressesChecked,
       OnlyMalformedCrash
<1> QED
  BY <1>10, <1>11

LEMMA AllCompared ==
  ASSUME NEW n \in Nat, NEW j \in Nat, j > n, j <= n + 1
  PROVE  j - 1 = n
  OBVIOUS

\* The last entry has been compared.
LEMMA FreeIfAddrsInv ==
  ASSUME IInv, FreeIfAddrs
  PROVE  IInv'
<1>1. /\ pc = "interfaces" /\ pc' = "control" /\ at' = at + 1
      /\ ifa > Len(list[Field.key])
      /\ UNCHANGED <<doc, list, ifa, blocks, fault, rawStorage, controlIP,
                     broadcastAddress, RTSPaddress, location, head>>
  BY DEF FreeIfAddrs, loop, fields, network
<1>2. InControl /\ InControl' /\ ~InMetadata' /\ ~Accepted' /\ InLoop /\ ~InLoop'
  BY <1>1 DEF InControl, InMetadata, Accepted, InLoop
<1>3. /\ Field.key \in AddressKeys /\ at <= Len(doc.control)
      /\ ifa <= Len(list[Field.key]) + 1
  BY <1>1, <1>2 DEF IInv, FieldsReached
<1>4. doc.control # NULL /\ IsObject(doc.control)
  BY <1>2, ObjectsTyped DEF IInv, HeapByPhase
<1>5. at \in 1 .. Len(doc.control) /\ Len(doc.control) \in Nat
  BY <1>3, <1>4 DEF IInv, TypeOK, IsObject
<1>6. TypeOK'
  <2>1. at' \in Nat \ {0}
    BY <1>1, <1>5
  <2> QED
    BY <1>1, <1>2, <2>1 DEF IInv, TypeOK
<1>7. HeapByPhase'
  BY <1>1, <1>2 DEF IInv, HeapByPhase
<1>8. Compared' = Compared
  <2>1. CASE Field.key = "Control IP"
    <3>1. Compared = ifa - 1 /\ Compared' = Len(list["Control IP"])
      BY <1>1, <1>2, <2>1 DEF OnControlIP, Compared
    <3>2. ifa \in Nat /\ Len(list[Field.key]) \in Nat
      BY <1>3, ListsTyped DEF IInv, TypeOK
    <3>3. ifa - 1 = Len(list[Field.key])
      BY <1>1, <1>3, <3>2, AllCompared
    <3> QED
      BY <2>1, <3>1, <3>3
  <2>2. CASE Field.key # "Control IP"
    BY <1>1, <1>2, <2>2 DEF OnControlIP, Compared
  <2> QED
    BY <2>1, <2>2
<1>9. ControlResolved'
  <2>1. CASE controlIP = NULL /\ broadcastAddress = NULL
    BY <1>1, <1>2, <2>1 DEF ControlResolved, OnControlIP
  <2>2. CASE ~(controlIP = NULL /\ broadcastAddress = NULL)
    <3>1. PICK k \in 1 .. Len(doc.control) :
            /\ doc.control[k].key = "Control IP" /\ k <= at
            /\ Resolved(doc.control[k].value, list["Control IP"], Compared)
      BY <1>2, <2>2 DEF IInv, ControlResolved
    <3>2. k <= at' /\ k < at'
      <4>1. k \in 1 .. Len(doc.control) /\ k <= at
        BY <3>1
      <4> QED
        BY <1>1, <1>5, <4>1, Before
    <3>3. Resolved(doc.control[k].value, list["Control IP"], Compared)'
      BY <1>1, <1>8, <3>1 DEF Resolved, LastHolder
    <3> QED
      BY <1>1, <3>1, <3>2, <3>3 DEF ControlResolved
  <2> QED
    BY <2>1, <2>2
<1>10. PointersSet'
  <2>1. ASSUME NEW i \in 1 .. Len(doc.control), i < at',
               doc.control[i].key = "Raw Storage"
        PROVE  rawStorage # NULL
    <3>1. i # at
      BY <1>3, <2>1 DEF Field, AddressKeys
    <3>2. i < at
      BY <1>1, <1>5, <2>1, <3>1, Before
    <3> QED
      BY <1>2, <2>1, <3>2 DEF IInv, PointersSet
  <2> QED
    BY <1>1, <1>2, <2>1 DEF IInv, PointersSet
<1> QED
  BY <1>1, <1>2, <1>6, <1>7, <1>9, <1>10 DEF IInv, FieldsReached, AddressesChecked,
     OnlyMalformedCrash

\* Every field of Control Data has been read.
LEMMA ReadMetadataInv ==
  ASSUME IInv, ReadMetadata
  PROVE  IInv'
<1>1. /\ pc = "control" /\ at > Len(doc.control) /\ fault' = fault
  BY DEF ReadMetadata
<1>2. InControl /\ ~InLoop /\ blocks \cap FreeMetadata = {} /\ doc.control # NULL
  BY <1>1 DEF InControl, InLoop, IInv, HeapByPhase
<1>3. CASE doc.metadata = NULL
  <2>1. Fail("failed_metadata")
    BY <1>3 DEF ReadMetadata
  <2>2. fault' \in BOOLEAN
    BY <1>1 DEF IInv, TypeOK
  <2> QED
    BY <1>2, <2>1, <2>2, FailInv
<1>4. CASE doc.metadata # NULL
  <2>1. /\ pc' = "metadata" /\ at' = 1 /\ blocks' = blocks \cup {"metadata"}
        /\ UNCHANGED <<doc, list, ifa, rawStorage, controlIP, broadcastAddress,
                       RTSPaddress, location, head>>
    BY <1>4 DEF ReadMetadata, loop, fields, network
  <2>2. ~InControl' /\ InMetadata' /\ ~Accepted' /\ ~InLoop'
    BY <2>1 DEF InControl, InMetadata, Accepted, InLoop
  <2>3. TypeOK'
    <3>1. blocks' \subseteq FreeMetadata \cup FreeControlData \cup {"json"}
      BY <2>1 DEF IInv, TypeOK, FreeMetadata
    <3> QED
      BY <1>1, <2>1, <2>2, <3>1 DEF IInv, TypeOK
  <2>4. HeapByPhase'
    BY <1>2, <1>4, <2>1, <2>2 DEF IInv, HeapByPhase
  <2>5. Compared' = Compared
    BY <1>2, <2>1, <2>2 DEF OnControlIP, Compared
  <2>6. ControlResolved'
    <3>1. CASE controlIP = NULL /\ broadcastAddress = NULL
      BY <2>1, <2>2, <3>1 DEF ControlResolved, OnControlIP
    <3>2. CASE ~(controlIP = NULL /\ broadcastAddress = NULL)
      <4>1. PICK k \in 1 .. Len(doc.control) :
              /\ doc.control[k].key = "Control IP"
              /\ Resolved(doc.control[k].value, list["Control IP"], Compared)
        BY <1>2, <3>2 DEF IInv, ControlResolved
      <4>2. Resolved(doc.control[k].value, list["Control IP"], Compared)'
        BY <2>1, <2>5, <4>1 DEF Resolved, LastHolder
      <4> QED
        BY <2>1, <2>2, <4>1, <4>2 DEF ControlResolved
    <3> QED
      BY <3>1, <3>2
  <2>7. PointersSet'
    <3>1. /\ Len(doc.control) \in Nat /\ at \in Nat
          /\ Len(doc.metadata) \in Nat
      BY <1>2, <1>4, ObjectsTyped DEF IInv, TypeOK, IsObject
    <3>2. \A i \in 1 .. Len(doc.control) : i < at
      BY <1>1, <3>1
    <3>3. \A i \in 1 .. Len(doc.metadata) : ~(i < 1)
      BY <3>1
    <3>4. /\ \A i \in 1 .. Len(doc.control) :
               doc.control[i].key = "Raw Storage" => rawStorage # NULL
          /\ head = NULL \/ \E i \in 1 .. Len(doc.control) :
               doc.control[i].key = "Hardware Scripts" /\ head = doc.control[i].value
      BY <1>2, <3>2 DEF IInv, PointersSet
    <3> QED
      BY <2>1, <2>2, <3>3, <3>4 DEF PointersSet
  <2> QED
    BY <2>1, <2>2, <2>3, <2>4, <2>6, <2>7 DEF IInv, FieldsReached,
       AddressesChecked, OnlyMalformedCrash
<1> QED
  BY <1>3, <1>4

\* After Control Data nothing that ControlResolved speaks of changes.
LEMMA StaysResolved ==
  ASSUME IInv, InMetadata \/ Accepted, InMetadata' \/ Accepted',
         UNCHANGED <<doc, list, controlIP, broadcastAddress>>
  PROVE  ControlResolved' /\ ~InControl /\ ~InControl' /\ ~InLoop'
<1>1. ~InControl /\ ~InLoop /\ ~InControl' /\ ~InLoop'
  BY DEF InControl, InLoop, InMetadata, Accepted
<1>2. Compared' = Compared /\ ~OnControlIP'
  BY <1>1 DEF OnControlIP, Compared
<1>3. CASE controlIP = NULL /\ broadcastAddress = NULL
  BY <1>1, <1>2, <1>3 DEF ControlResolved
<1>4. CASE ~(controlIP = NULL /\ broadcastAddress = NULL)
  <2>1. PICK k \in 1 .. Len(doc.control) :
          /\ doc.control[k].key = "Control IP"
          /\ Resolved(doc.control[k].value, list["Control IP"], Compared)
    BY <1>4 DEF IInv, ControlResolved
  <2>2. Resolved(doc.control[k].value, list["Control IP"], Compared)'
    BY <1>2, <2>1 DEF Resolved, LastHolder
  <2>3. pc' # "control"
    BY <1>1 DEF InControl
  <2> QED
    BY <1>1, <2>1, <2>2, <2>3 DEF ControlResolved
<1> QED
  BY <1>1, <1>3, <1>4

\* A field of Metadata.
LEMMA MetadataFieldInv ==
  ASSUME IInv, ReadMetadataField
  PROVE  IInv'
<1>1. /\ pc = "metadata" /\ at <= Len(doc.metadata) /\ fault' = fault
  BY DEF ReadMetadataField
<1>2. InMetadata /\ ~InControl /\ ~Accepted
  BY <1>1 DEF InMetadata, InControl, Accepted
<1>3. doc.metadata # NULL /\ IsObject(doc.metadata)
  BY <1>2, ObjectsTyped DEF IInv, HeapByPhase
<1>4. at \in 1 .. Len(doc.metadata) /\ Len(doc.metadata) \in Nat
  BY <1>1, <1>3 DEF IInv, TypeOK, IsObject
<1> DEFINE field == doc.metadata[at]
<1>5. CASE field.key = "unknown"
  <2>1. Fail("unknown metadata")
    BY <1>5 DEF ReadMetadataField
  <2>2. fault' \in BOOLEAN
    BY <1>1 DEF IInv, TypeOK
  <2> QED
    BY <2>1, <2>2, FailInv
<1>6. CASE field.key # "unknown"
  <2>1. /\ pc' = "metadata" /\ at' = at + 1
        /\ blocks \subseteq blocks' /\ blocks' \subseteq blocks \cup {"location"}
        /\ UNCHANGED <<doc, list, ifa, rawStorage, controlIP, broadcastAddress,
                       RTSPaddress, head>>
        /\ location' = IF field.key = "Location" THEN field.value ELSE location
    BY <1>1, <1>6 DEF ReadMetadataField, loop, fields, network
  <2>2. InMetadata' /\ ~Accepted'
    BY <2>1 DEF InMetadata, Accepted
  <2>3. ControlResolved' /\ ~InControl' /\ ~InLoop'
    BY <1>2, <2>1, <2>2, StaysResolved
  <2>4. TypeOK'
    <3>1. blocks' \subseteq FreeMetadata \cup FreeControlData \cup {"json"}
      BY <2>1 DEF IInv, TypeOK, FreeMetadata
    <3>2. at' \in Nat \ {0}
      BY <1>4, <2>1
    <3> QED
      BY <1>1, <2>1, <2>2, <3>1, <3>2 DEF IInv, TypeOK
  <2>5. HeapByPhase'
    BY <1>2, <2>1, <2>2, <2>3 DEF IInv, HeapByPhase
  <2>6. ASSUME NEW i \in 1 .. Len(doc.metadata), i < at',
               doc.metadata[i].key = "Location"
        PROVE  location' # NULL
    <3>1. i < at \/ i = at
      BY <1>4, <2>1, <2>6, Before
    <3>2. CASE i < at
      <4>1. location # NULL
        BY <1>2, <2>6, <3>2 DEF IInv, PointersSet
      <4> QED
        BY <1>3, <1>4, <2>1, <4>1 DEF IsObject
    <3>3. CASE i = at
      BY <1>3, <1>4, <2>1, <2>6, <3>3 DEF IsObject
    <3> QED
      BY <3>1, <3>2, <3>3
  <2>7. PointersSet'
    BY <1>2, <2>1, <2>2, <2>3, <2>6 DEF IInv, PointersSet
  <2> QED
    BY <2>1, <2>2, <2>3, <2>4, <2>5, <2>7 DEF IInv, FieldsReached,
       AddressesChecked, OnlyMalformedCrash
<1> QED
  BY <1>5, <1>6

\* The end of readConfigFile.
LEMMA ReturnsInv ==
  ASSUME IInv, ReadConfigFileReturns
  PROVE  IInv'
<1>1. /\ pc = "metadata" /\ at > Len(doc.metadata) /\ fault' = fault
  BY DEF ReadConfigFileReturns
<1>2. InMetadata /\ ~InControl /\ ~Accepted
  BY <1>1 DEF InMetadata, InControl, Accepted
<1>3. CASE CheckedAddresses \subseteq Addresses
  <2>1. /\ pc' = "accepted" /\ blocks' = blocks \cup {"hostname"}
        /\ UNCHANGED <<doc, at, list, ifa, rawStorage, controlIP,
                       broadcastAddress, RTSPaddress, location, head>>
    BY <1>3 DEF ReadConfigFileReturns, JSONKept, loop, fields, network
  <2>2. ~InMetadata' /\ Accepted'
    BY <2>1 DEF InMetadata, Accepted
  <2>3. ControlResolved' /\ ~InControl' /\ ~InLoop'
    BY <1>2, <2>1, <2>2, StaysResolved
  <2>4. TypeOK'
    <3>1. blocks' \subseteq FreeMetadata \cup FreeControlData \cup {"json"}
      BY <2>1 DEF IInv, TypeOK, FreeControlData
    <3> QED
      BY <1>1, <2>1, <2>2, <3>1 DEF IInv, TypeOK
  <2>5. HeapByPhase'
    BY <1>2, <2>1, <2>2, <2>3 DEF IInv, HeapByPhase
  <2>6. \A i \in 1 .. Len(doc.metadata) :
          doc.metadata[i].key = "Location" => location # NULL
    <3>1. IsObject(doc.metadata)
      BY <1>2, ObjectsTyped DEF IInv, HeapByPhase
    <3>2. Len(doc.metadata) \in Nat /\ at \in Nat
      BY <3>1 DEF IInv, TypeOK, IsObject
    <3>3. \A i \in 1 .. Len(doc.metadata) : i < at
      BY <1>1, <3>2
    <3> QED
      BY <1>2, <3>3 DEF IInv, PointersSet
  <2>7. PointersSet'
    BY <1>2, <2>1, <2>2, <2>3, <2>6 DEF IInv, PointersSet
  <2>8. AddressesChecked'
    BY <1>3, <2>1 DEF CheckedAddresses, AddressesChecked
  <2> QED
    BY <2>1, <2>2, <2>3, <2>4, <2>5, <2>7, <2>8 DEF IInv, FieldsReached,
       OnlyMalformedCrash
<1>4. CASE ~(CheckedAddresses \subseteq Addresses)
  <2>1. Fail("failed")
    BY <1>4 DEF ReadConfigFileReturns
  <2>2. fault' \in BOOLEAN
    BY <1>1 DEF IInv, TypeOK
  <2> QED
    BY <2>1, <2>2, FailInv
<1> QED
  BY <1>3, <1>4
-----------------------------------------------------------------------------
(* The pointers that are followed.                                         *)

\* A step that only moves on, or crashes on a file that is not as documented.
LEMMA FollowInv ==
  ASSUME IInv, Accepted, Accepted' \/ (pc' = "crashed" /\ ~WellFormed),
         UNCHANGED <<doc, at, loop, blocks, fields, fault>>
  PROVE  IInv'
<1>1. UNCHANGED <<doc, at, list, ifa, blocks, fault, rawStorage, controlIP,
                  broadcastAddress, RTSPaddress, location, head>>
  BY DEF loop, fields, network
<1>2. ~InControl /\ ~InMetadata
  BY DEF InControl, InMetadata, Accepted
<1>3. CASE Accepted'
  <2>1. ControlResolved' /\ ~InControl' /\ ~InLoop'
    BY <1>1, <1>3, StaysResolved
  <2>2. ~InMetadata' /\ pc' \notin {"open", "failed", "crashed", "interfaces"}
    BY <1>3 DEF InMetadata, Accepted
  <2>3. TypeOK' /\ HeapByPhase' /\ PointersSet' /\ AddressesChecked'
    <3>1. TypeOK'
      BY <1>1, <1>3 DEF IInv, TypeOK
    <3>2. HeapByPhase'
      BY <1>1, <1>3, <2>1, <2>2 DEF IInv, HeapByPhase
    <3>3. PointersSet'
      BY <1>1, <1>2, <1>3, <2>1, <2>2 DEF IInv, PointersSet
    <3> QED
      BY <1>1, <1>3, <3>1, <3>2, <3>3 DEF IInv, AddressesChecked,
         CheckedAddresses
  <2> QED
    BY <2>1, <2>2, <2>3 DEF IInv, FieldsReached, OnlyMalformedCrash
<1>4. CASE pc' = "crashed" /\ ~WellFormed
  <2>1. ~InControl' /\ ~InMetadata' /\ ~Accepted' /\ ~InLoop'
    BY <1>4 DEF InControl, InMetadata, Accepted, InLoop
  <2>2. TypeOK'
    BY <1>1, <1>4 DEF IInv, TypeOK
  <2>3. ~WellFormed'
    BY <1>1, <1>4, SameFile
  <2> QED
    BY <1>4, <2>1, <2>2, <2>3 DEF IInv, HeapByPhase, FieldsReached,
       ControlResolved, PointersSet, AddressesChecked, OnlyMalformedCrash
<1> QED
  BY <1>3, <1>4

\* In a documented file every pointer is set.
LEMMA WellFormedPointers ==
  ASSUME IInv, Accepted, WellFormed
  PROVE  /\ rawStorage # NULL /\ location # NULL /\ "json" \in blocks
         /\ head # NULL => \A i \in 1 .. Len(head) : ScriptArgs \subseteq head[i]
<1>1. ~InControl /\ ~InMetadata
  BY DEF InControl, InMetadata, Accepted
<1>2. rawStorage # NULL
  <2>1. PICK i \in 1 .. Len(doc.control) : doc.control[i].key = "Raw Storage"
    BY DEF WellFormed, Keys
  <2> QED
    BY <1>1, <2>1 DEF IInv, PointersSet
<1>3. location # NULL
  <2>1. PICK i \in 1 .. Len(doc.metadata) : doc.metadata[i].key = "Location"
    BY DEF WellFormed, Keys
  <2> QED
    BY <1>1, <2>1 DEF IInv, PointersSet
<1>4. ASSUME head # NULL
      PROVE  \A i \in 1 .. Len(head) : ScriptArgs \subseteq head[i]
  <2>1. PICK i \in 1 .. Len(doc.control) :
          doc.control[i].key = "Hardware Scripts" /\ head = doc.control[i].value
    BY <1>1, <1>4 DEF IInv, PointersSet
  <2> QED
    BY <2>1 DEF WellFormed
<1> QED
  BY <1>1, <1>2, <1>3, <1>4 DEF IInv, HeapByPhase

LEMMA RunningInv ==
  ASSUME IInv,
         FormatRecordingDirectory \/ ForkScripts \/ ParseTrigger \/ StatusBroadcast
  PROVE  IInv'
<1>1. /\ Accepted /\ UNCHANGED <<doc, at, loop, blocks, fields, fault>>
  BY DEF FormatRecordingDirectory, ForkScripts, ParseTrigger, StatusBroadcast,
     Follow, Accepted
<1>2. CASE WellFormed
  <2>1. pc' \in {"forking", "running"}
    BY <1>1, <1>2, WellFormedPointers DEF FormatRecordingDirectory, ForkScripts,
       ParseTrigger, StatusBroadcast, Follow
  <2> QED
    BY <1>1, <2>1, FollowInv DEF Accepted
<1>3. CASE ~WellFormed
  <2>1. pc' \in {"forking", "running", "crashed"}
    BY DEF FormatRecordingDirectory, ForkScripts, ParseTrigger, StatusBroadcast, Follow
  <2> QED
    BY <1>1, <1>3, <2>1, FollowInv DEF Accepted
<1> QED
  BY <1>2, <1>3

\* A script with an unknown field is followed too far.
LEMMA HardwareCrashInv ==
  ASSUME IInv, ReadHardwareScripts, pc' # "control"
  PROVE  IInv'
<1>1. /\ Reading("Hardware Scripts") /\ pc' = "crashed"
      /\ UNCHANGED <<doc, at, list, ifa, blocks, fault, rawStorage, controlIP,
                     broadcastAddress, RTSPaddress, location, head>>
      /\ \E i \in 1 .. Len(Field.value) : "unknown" \in Field.value[i]
  BY DEF ReadHardwareScripts, Reading, NextField, loop, fields, network
<1>2. at \in 1 .. Len(doc.control)
  <2>1. InControl /\ at <= Len(doc.control)
    BY <1>1 DEF Reading, InControl
  <2>2. doc.control # NULL
    BY <2>1 DEF IInv, HeapByPhase
  <2>3. IsObject(doc.control)
    BY <2>2, ObjectsTyped DEF IInv
  <2> QED
    BY <2>1, <2>3 DEF IInv, TypeOK, IsObject
<1>3. ~WellFormed'
  <2>1. ~WellFormed
    BY <1>1, <1>2 DEF WellFormed, Reading, Field
  <2> QED
    BY <1>1, <2>1, SameFile
<1>4. ~InControl' /\ ~InMetadata' /\ ~Accepted' /\ ~InLoop'
  BY <1>1 DEF InControl, InMetadata, Accepted, InLoop
<1>5. TypeOK'
  BY <1>1 DEF IInv, TypeOK
<1> QED
  BY <1>1, <1>3, <1>4, <1>5 DEF IInv, HeapByPhase, FieldsReached,
     ControlResolved, PointersSet, AddressesChecked, OnlyMalformedCrash

\* The labels that are reached by a failed call or an unknown field.
LEMMA FaultInv ==
  ASSUME IInv,
         ReadUnknown \/ GetIfAddrsFails \/ GetNameInfoFails \/ GetHostnameFails
  PROVE  IInv'
<1>1. CASE ReadUnknown
  <2>1. Fail("err") /\ fault' = fault /\ InControl
    BY <1>1 DEF ReadUnknown, Reading, InControl
  <2>2. fault' \in BOOLEAN
    BY <2>1 DEF IInv, TypeOK
  <2>3. blocks \cap FreeMetadata = {}
    BY <2>1 DEF IInv, HeapByPhase
  <2> QED
    BY <2>1, <2>2, <2>3, FailInv
<1>2. CASE GetIfAddrsFails \/ GetNameInfoFails
  <2>1. Fail("err") /\ fault' = TRUE /\ InControl
    BY <1>2 DEF GetIfAddrsFails, GetNameInfoFails, FaultAt, InControl
  <2>2. fault' \in BOOLEAN
    BY <2>1
  <2>3. blocks \cap FreeMetadata = {}
    BY <2>1 DEF IInv, HeapByPhase
  <2> QED
    BY <2>1, <2>2, <2>3, FailInv
<1>3. CASE GetHostnameFails
  <2>1. Fail("failed") /\ fault' = TRUE
    BY <1>3 DEF GetHostnameFails, FaultAt
  <2>2. fault' \in BOOLEAN
    BY <2>1
  <2> QED
    BY <2>1, <2>2, FailInv
<1> QED
  BY <1>1, <1>2, <1>3

LEMMA ExitInv ==
  ASSUME IInv, Exit
  PROVE  IInv'
<1>1. /\ pc' = "exited" /\ blocks' \subseteq blocks
      /\ UNCHANGED <<doc, at, list, ifa, fault>>
  BY NothingTwice DEF Exit, Leave, loop
<1>2. ~InControl' /\ ~InMetadata' /\ ~Accepted' /\ ~InLoop'
  BY <1>1 DEF InControl, InMetadata, Accepted, InLoop
<1>3. TypeOK'
  BY <1>1 DEF IInv, TypeOK
<1> QED
  BY <1>1, <1>2, <1>3 DEF IInv, HeapByPhase, FieldsReached, ControlResolved,
     PointersSet, AddressesChecked, OnlyMalformedCrash

LEMMA StutterInv == ASSUME IInv, UNCHANGED vars PROVE IInv'
<1>1. UNCHANGED <<doc, pc, at, list, ifa, blocks, fault, rawStorage, controlIP,
                  broadcastAddress, RTSPaddress, location, head>>
  BY DEF vars, loop, fields, network
<1>2. /\ InControl' = InControl /\ InMetadata' = InMetadata
      /\ Accepted' = Accepted /\ InLoop' = InLoop /\ Field' = Field
      /\ OnControlIP' = OnControlIP /\ WellFormed' = WellFormed
  BY <1>1, SameFile DEF InControl, InMetadata, Accepted, InLoop, Field, OnControlIP
<1>3. TypeOK' /\ HeapByPhase' /\ FieldsReached'
  <2>1. TypeOK'
    BY <1>1, <1>2 DEF IInv, TypeOK
  <2> QED
    BY <1>1, <1>2, <2>1 DEF IInv, HeapByPhase, FieldsReached
<1>4. ControlResolved'
  <2>1. Compared' = Compared
    BY <1>1, <1>2 DEF Compared
  <2> QED
    BY <1>1, <1>2, <2>1 DEF IInv, ControlResolved, Resolved, LastHolder
<1>5. PointersSet'
  BY <1>1, <1>2 DEF IInv, PointersSet
<1> QED
  BY <1>1, <1>2, <1>3, <1>4, <1>5 DEF IInv, AddressesChecked,
     CheckedAddresses, OnlyMalformedCrash

LEMMA NextInv ==
  ASSUME IInv, Next
  PROVE  IInv'
<1>1. CASE ReadHardwareScripts
  BY <1>1, FieldInv, HardwareCrashInv
<1> QED
  BY <1>1, OpenInv, FieldInv, FaultInv, AddressInv, GetIfAddrsInv, InterfaceInv,
     FreeIfAddrsInv, ReadMetadataInv, MetadataFieldInv, ReturnsInv, RunningInv,
     ExitInv DEF Next
-----------------------------------------------------------------------------
(* Documented files are accepted.                                          *)

\* The value of a key is that of its only field.
LEMMA ValueOf ==
  ASSUME IsObject(doc.control), NEW k \in 1 .. Len(doc.control),
         doc.control[k].key # "number"
  PROVE  Value(doc.control[k].key) = doc.control[k].value
<1>1. \A j \in 1 .. Len(doc.control) :
        doc.control[j].key = doc.control[k].key => j = k
  BY DEF IsObject
<1> QED
  BY <1>1 DEF Value

LEMMA AcceptInit == Init => AcceptInv
  BY DEF Init, AcceptInv, ControlMatched, RTSPMatched, GoodFilesAccepted,
     InControl, InMetadata

LEMMA Unrefused ==
  ASSUME pc' # "failed" PROVE GoodFilesAccepted'
  BY DEF GoodFilesAccepted

\* A file that is refused for what it holds is not as documented.
LEMMA RefusedAccept ==
  ASSUME ~InControl', ~InMetadata', pc' = "failed" => ~WellFormed' \/ fault'
  PROVE  AcceptInv'
  BY DEF AcceptInv, ControlMatched, RTSPMatched, GoodFilesAccepted

\* What has been compared stays compared.
LEMMA StaysMatched ==
  ASSUME InControl \/ InMetadata, NEW key,
         doc' = doc, list'[key] = list[key],
         ComparedWith(key)' = ComparedWith(key),
         \A k \in 1 .. Len(doc.control) :
           doc.control[k].key = key /\ Reached(k)' => Reached(k)
  PROVE  /\ key = "Control IP" /\ ControlMatched
              /\ UNCHANGED <<controlIP, broadcastAddress>> => ControlMatched'
         /\ key = "RTSP Address" /\ RTSPMatched
              /\ UNCHANGED RTSPaddress => RTSPMatched'
<1>1. \A k \in 1 .. Len(doc.control) : Named(key, k)' = Named(key, k)
  BY DEF Named
<1>2. ASSUME key = "Control IP", ControlMatched,
             UNCHANGED <<controlIP, broadcastAddress>>
      PROVE  ControlMatched'
  BY <1>1, <1>2 DEF ControlMatched
<1>3. ASSUME key = "RTSP Address", RTSPMatched, UNCHANGED RTSPaddress
      PROVE  RTSPMatched'
  BY <1>1, <1>3 DEF RTSPMatched
<1> QED
  BY <1>2, <1>3

\* A step that reads no address and compares none.
LEMMA QuietAccept ==
  ASSUME AcceptInv, InControl \/ InMetadata, pc' # "failed",
         UNCHANGED <<doc, list, controlIP, broadcastAddress, RTSPaddress>>,
         \A key \in AddressKeys : ComparedWith(key)' = ComparedWith(key),
         \A k \in 1 .. Len(doc.control) :
           doc.control[k].key \in AddressKeys /\ Reached(k)' => Reached(k)
  PROVE  AcceptInv'
<1>1. ControlMatched'
  BY StaysMatched DEF AcceptInv, AddressKeys
<1>2. RTSPMatched'
  BY StaysMatched DEF AcceptInv, AddressKeys
<1> QED
  BY <1>1, <1>2, Unrefused DEF AcceptInv

LEMMA OpenAccept ==
  ASSUME IInv, OpenFails \/ Open
  PROVE  AcceptInv'
<1>1. /\ pc = "open" /\ doc' = doc /\ at = 1 /\ at' = at
      /\ pc' = "failed" \/ pc' = "control"
  BY DEF OpenFails, Open, IInv, PointersSet
<1>2. CASE pc' = "failed"
  <2>1. ~WellFormed'
    <3>1. ~WellFormed
      BY <1>1, <1>2 DEF OpenFails, Open, WellFormed
    <3> QED
      BY <1>1, <3>1, SameFile
  <2> QED
    BY <1>2, <2>1, RefusedAccept DEF InControl, InMetadata
<1>3. CASE pc' = "control"
  <2>1. doc.control # NULL /\ Len(doc.control) \in Nat
    <3>1. doc.control # NULL
      BY <1>1, <1>3 DEF OpenFails, Open
    <3> QED
      BY <3>1, ObjectsTyped DEF IInv, IsObject
  <2>2. \A k \in 1 .. Len(doc.control) : ~Reached(k)'
    BY <1>1, <1>3, <2>1 DEF Reached
  <2> QED
    BY <1>1, <1>3, <2>2, Unrefused DEF AcceptInv, ControlMatched, RTSPMatched
<1> QED
  BY <1>1, <1>2, <1>3

LEMMA FieldAccept ==
  ASSUME IInv, AcceptInv,
         ReadRawStorage \/ ReadNumber \/ (ReadHardwareScripts /\ pc' = "control")
  PROVE  AcceptInv'
<1>1. /\ pc = "control" /\ pc' = "control" /\ at' = at + 1
      /\ at <= Len(doc.control) /\ Field.key \notin AddressKeys
      /\ UNCHANGED <<doc, list, controlIP, broadcastAddress, RTSPaddress>>
  BY DEF ReadRawStorage, ReadNumber, ReadHardwareScripts, Reading, NextField,
     fields, network, loop, AddressKeys
<1>2. InControl /\ ~InLoop /\ ~InLoop'
  BY <1>1 DEF InControl, InLoop
<1>3. at \in 1 .. Len(doc.control) /\ Len(doc.control) \in Nat
  BY <1>1, <1>2, ObjectsTyped DEF IInv, HeapByPhase, TypeOK, IsObject
<1>4. \A key \in AddressKeys : ComparedWith(key)' = ComparedWith(key)
  BY <1>1, <1>2 DEF ComparedWith
<1>5. ASSUME NEW k \in 1 .. Len(doc.control), doc.control[k].key \in AddressKeys,
             Reached(k)'
      PROVE  Reached(k)
  <2>1. k < at + 1
    BY <1>1, <1>5 DEF Reached
  <2>2. k # at
    BY <1>1, <1>5 DEF Field
  <2>3. k < at /\ k <= at
    BY <1>3, <1>5, <2>1, <2>2
  <2> QED
    BY <2>3 DEF Reached
<1> QED
  BY <1>1, <1>2, <1>4, <1>5, QuietAccept

\* A key that is being read is at no other place.
LEMMA ReachedAtKey ==
  ASSUME IInv, InControl, at \in 1 .. Len(doc.control), Field.key \in AddressKeys,
         NEW k \in 1 .. Len(doc.control), doc.control[k].key = Field.key
  PROVE  k = at /\ doc.control[k] = Field
<1>1. IsObject(doc.control)
  BY ObjectsTyped DEF IInv, HeapByPhase
<1> QED
  BY <1>1 DEF IsObject, Field, AddressKeys

LEMMA AddressAccept ==
  ASSUME IInv, AcceptInv, ReadControlIP \/ ReadRTSPAddress
  PROVE  AcceptInv'
<1>1. /\ pc = "control" /\ pc' = "getifaddrs" /\ at <= Len(doc.control)
      /\ Field.key \in AddressKeys /\ Field' = Field
      /\ UNCHANGED <<doc, at, list, broadcastAddress>>
  BY DEF ReadControlIP, ReadRTSPAddress, Reading, loop, AddressKeys, Field
<1>2. InControl /\ ~InLoop /\ InLoop'
  BY <1>1 DEF InControl, InLoop
<1>3. IsObject(doc.control)
  BY <1>2, ObjectsTyped DEF IInv, HeapByPhase
<1>4. at \in 1 .. Len(doc.control) /\ Len(doc.control) \in Nat
  BY <1>1, <1>3 DEF IInv, TypeOK, IsObject
<1>5. Field.value # NULL
  BY <1>3, <1>4 DEF IsObject, Field
<1>6. ASSUME NEW key \in AddressKeys, key # Field.key
      PROVE  /\ ComparedWith(key)' = ComparedWith(key)
             /\ \A k \in 1 .. Len(doc.control) :
                  doc.control[k].key = key /\ Reached(k)' => Reached(k)
  <2>1. ComparedWith(key)' = ComparedWith(key)
    BY <1>1, <1>2, <1>6 DEF ComparedWith
  <2>2. ASSUME NEW k \in 1 .. Len(doc.control), doc.control[k].key = key,
               Reached(k)'
        PROVE  Reached(k)
    <3>1. k <= at /\ k # at
      BY <1>1, <1>6, <2>2 DEF Reached, InControl, Field
    <3>2. k < at
      BY <1>4, <2>2, <3>1
    <3> QED
      BY <3>1, <3>2 DEF Reached
  <2> QED
    BY <2>1, <2>2
<1>7. ComparedWith(Field.key)' = 0
  BY <1>1, <1>2 DEF ComparedWith
<1>8. ASSUME NEW k \in 1 .. Len(doc.control), doc.control[k].key = Field.key
      PROVE  ~Named(Field.key, k)' /\ doc.control[k] = Field
  BY <1>1, <1>2, <1>4, <1>7, <1>8, ReachedAtKey, NoEntries DEF Named
<1>9. CASE ReadControlIP
  <2>1. Field.key = "Control IP" /\ controlIP' = Field.value /\ RTSPaddress' = RTSPaddress
    BY <1>9 DEF ReadControlIP, Reading
  <2>2. ControlMatched'
    BY <1>1, <1>5, <1>8, <2>1 DEF ControlMatched
  <2>3. RTSPMatched'
    BY <1>1, <1>2, <1>6, <2>1, StaysMatched DEF AcceptInv, AddressKeys
  <2> QED
    BY <1>1, <2>2, <2>3, Unrefused DEF AcceptInv
<1>10. CASE ReadRTSPAddress
  <2>1. Field.key = "RTSP Address" /\ RTSPaddress' = Field.value /\ controlIP' = controlIP
    BY <1>10 DEF ReadRTSPAddress, Reading
  <2>2. RTSPMatched'
    BY <1>1, <1>8, <2>1 DEF RTSPMatched
  <2>3. ControlMatched'
    BY <1>1, <1>2, <1>6, <2>1, StaysMatched DEF AcceptInv, AddressKeys
  <2> QED
    BY <1>1, <2>2, <2>3, Unrefused DEF AcceptInv
<1> QED
  BY <1>9, <1>10

\* What each step of replace_with_address starts from.
LEMMA LoopFacts ==
  ASSUME IInv, InLoop
  PROVE  /\ InControl /\ at \in 1 .. Len(doc.control) /\ IsObject(doc.control)
         /\ Field.key \in AddressKeys
         /\ \A k \in 1 .. Len(doc.control) :
              doc.control[k].key = Field.key => k = at /\ doc.control[k] = Field
<1>1. InControl /\ at <= Len(doc.control) /\ Field.key \in AddressKeys
  BY DEF InLoop, InControl, IInv, FieldsReached
<1>2. IsObject(doc.control)
  BY <1>1, ObjectsTyped DEF IInv, HeapByPhase
<1>3. at \in 1 .. Len(doc.control)
  BY <1>1, <1>2 DEF IInv, TypeOK, IsObject
<1> QED
  BY <1>1, <1>2, <1>3, ReachedAtKey

\* The address that is not being replaced.
LEMMA OtherMatched ==
  ASSUME IInv, AcceptInv, InLoop, InLoop', pc' # "failed",
         UNCHANGED <<doc, at>>,
         \A key \in AddressKeys : key # Field.key => list'[key] = list[key]
  PROVE  /\ Field.key = "RTSP Address" /\ UNCHANGED <<controlIP, broadcastAddress>>
              => ControlMatched'
         /\ Field.key = "Control IP" /\ UNCHANGED RTSPaddress => RTSPMatched'
<1>1. InControl /\ Field' = Field /\ pc # "control"
  BY DEF InLoop, InControl, Field
<1>2. \A k \in 1 .. Len(doc.control) : Reached(k)' => Reached(k)
  BY <1>1 DEF Reached, InLoop, InControl
<1>3. ASSUME NEW key \in AddressKeys, key # Field.key
      PROVE  ComparedWith(key)' = ComparedWith(key) /\ list'[key] = list[key]
  BY <1>1, <1>3 DEF ComparedWith
<1>4. ASSUME Field.key = "RTSP Address", UNCHANGED <<controlIP, broadcastAddress>>
      PROVE  ControlMatched'
  BY <1>1, <1>2, <1>3, <1>4, StaysMatched DEF AcceptInv, AddressKeys
<1>5. ASSUME Field.key = "Control IP", UNCHANGED RTSPaddress
      PROVE  RTSPMatched'
  BY <1>1, <1>2, <1>3, <1>5, StaysMatched DEF AcceptInv, AddressKeys
<1> QED
  BY <1>4, <1>5

LEMMA GetIfAddrsAccept ==
  ASSUME IInv, AcceptInv, GetIfAddrs
  PROVE  AcceptInv'
<1>1. /\ pc = "getifaddrs" /\ pc' = "interfaces" /\ ifa' = 1
      /\ UNCHANGED <<doc, at, controlIP, broadcastAddress, RTSPaddress>>
  BY DEF GetIfAddrs, fields, network
<1>2. InLoop /\ InLoop' /\ InControl /\ Field' = Field
  BY <1>1 DEF InLoop, InControl, Field
<1>3. \A key \in AddressKeys : key # Field.key => list'[key] = list[key]
  BY DEF GetIfAddrs, IInv, TypeOK
<1>4. \A k \in 1 .. Len(doc.control) :
        /\ ~Named(Field.key, k)'
        /\ Reached(k)' => Reached(k)
  <2>1. ComparedWith(Field.key)' = 0
    BY <1>1, <1>2 DEF ComparedWith
  <2> QED
    BY <1>1, <1>2, <2>1, NoEntries DEF Named, Reached, InControl
<1>5. CASE Field.key = "Control IP"
  <2>1. ControlMatched'
    BY <1>1, <1>2, <1>4, <1>5 DEF AcceptInv, ControlMatched
  <2> QED
    BY <1>1, <1>2, <1>3, <1>5, <2>1, OtherMatched, Unrefused DEF AcceptInv
<1>6. CASE Field.key = "RTSP Address"
  <2>1. RTSPMatched'
    BY <1>1, <1>2, <1>4, <1>6 DEF AcceptInv, RTSPMatched
  <2> QED
    BY <1>1, <1>2, <1>3, <1>6, <2>1, OtherMatched, Unrefused DEF AcceptInv
<1> QED
  BY <1>2, <1>5, <1>6, LoopFacts DEF AddressKeys

LEMMA NextEntry ==
  ASSUME NEW n \in Nat \ {0}, NEW i \in 1 .. ((n + 1) - 1)
  PROVE  i = n \/ i \in 1 .. (n - 1)
  OBVIOUS

\* One more entry: if the field names it, the address becomes valid, and Control
\* IP gets its broadcast address.
LEMMA InterfaceAccept ==
  ASSUME IInv, AcceptInv, Interface
  PROVE  AcceptInv'
<1> DEFINE entries    == list[Field.key]
           configured == Field.value
<1>1. /\ pc = "interfaces" /\ pc' = "interfaces" /\ ifa' = ifa + 1
      /\ ifa <= Len(entries) /\ UNCHANGED <<doc, at, list>>
  BY DEF Interface
<1>2. InLoop /\ InLoop' /\ Field' = Field
  BY <1>1 DEF InLoop, Field
<1>3. /\ InControl /\ at \in 1 .. Len(doc.control) /\ IsObject(doc.control)
      /\ Field.key \in AddressKeys /\ doc.control[at] = Field
      /\ \A k \in 1 .. Len(doc.control) :
           doc.control[k].key = Field.key => k = at /\ doc.control[k] = Field
  BY <1>2, LoopFacts DEF Field
<1>4. ifa \in 1 .. Len(entries) /\ ifa \in Nat \ {0}
  BY <1>1, <1>3, ListsTyped DEF IInv, TypeOK
<1>5. /\ entries[ifa].addr \in Addresses /\ entries[ifa].brd \in Addresses
      /\ entries[ifa].name \notin Addresses /\ NULL \notin Addresses
      /\ entries[ifa].brd # NULL /\ entries[ifa].addr # NULL
  <2>1. /\ entries[ifa].addr \in Addresses /\ entries[ifa].brd \in Addresses
        /\ entries[ifa].name \notin Addresses
    BY <1>3, <1>4, ListsTyped DEF IInv
  <2> QED
    BY <2>1, DottedQuadsAccepted
<1>6. Reached(at) /\ Field.key = doc.control[at].key
  <2>1. at <= at
    BY DEF IInv, TypeOK
  <2> QED
    BY <1>1, <1>3, <2>1 DEF Reached
\* Whether the field names one of the first entries, and the entry itself.
<1>7. ASSUME NEW key \in AddressKeys, key = Field.key, Named(key, at)'
      PROVE  configured \in {entries[ifa].name, entries[ifa].addr} \/ Named(key, at)
  <2>1. ComparedWith(key)' = (ifa + 1) - 1 /\ ComparedWith(key) = ifa - 1
    BY <1>1, <1>2, <1>7 DEF ComparedWith
  <2>2. PICK i \in 1 .. ((ifa + 1) - 1) : configured \in {entries[i].name, entries[i].addr}
    BY <1>1, <1>3, <1>7, <2>1 DEF Named
  <2>3. i = ifa \/ i \in 1 .. (ifa - 1)
    BY <1>4, <2>2, NextEntry
  <2> QED
    BY <1>3, <1>7, <2>1, <2>2, <2>3 DEF Named
<1>8. CASE Field.key = "Control IP"
  <2>1. /\ controlIP' = IF controlIP = entries[ifa].name THEN entries[ifa].addr
                        ELSE controlIP
        /\ broadcastAddress' = IF controlIP' = entries[ifa].addr
                               THEN entries[ifa].brd ELSE broadcastAddress
        /\ RTSPaddress' = RTSPaddress
    BY <1>8 DEF Interface, ByAddress
  <2>2. /\ controlIP # NULL
        /\ Named("Control IP", at) => broadcastAddress # NULL
    BY <1>3, <1>6, <1>8 DEF AcceptInv, ControlMatched
  <2>3. /\ controlIP' # NULL
        /\ broadcastAddress # NULL => broadcastAddress' # NULL
    BY <1>5, <2>1, <2>2
  \* Which string is compared: the configured one, or an earlier entry named it.
  <2>4. controlIP = configured \/ Named("Control IP", at)
    <3>1. PICK k \in 1 .. Len(doc.control) :
            /\ doc.control[k].key = "Control IP"
            /\ Resolved(doc.control[k].value, list["Control IP"], Compared)
      BY <1>2, <1>3, <1>8 DEF IInv, ControlResolved, OnControlIP
    <3>2. doc.control[k].value = configured /\ k = at
      BY <1>3, <1>8, <3>1
    <3>3. Compared = ComparedWith("Control IP")
      BY <1>1, <1>2, <1>8 DEF Compared, ComparedWith, OnControlIP
    <3> QED
      BY <3>1, <3>2, <3>3 DEF Resolved, Named
  <2>5. ASSUME configured \in {entries[ifa].name, entries[ifa].addr}
        PROVE  broadcastAddress' # NULL
    <3>1. CASE controlIP = configured
      BY <1>5, <2>1, <2>5, <3>1
    <3>2. CASE Named("Control IP", at)
      BY <2>2, <2>3, <3>2
    <3> QED
      BY <2>4, <3>1, <3>2
  <2>6. ControlMatched'
    <3>1. Named("Control IP", at)' => broadcastAddress' # NULL
      BY <1>7, <1>8, <2>2, <2>3, <2>5 DEF AddressKeys
    <3> QED
      BY <1>1, <1>3, <1>8, <2>3, <3>1 DEF ControlMatched
  <2> QED
    BY <1>1, <1>2, <1>8, <2>1, <2>6, OtherMatched, Unrefused DEF AcceptInv
<1>9. CASE Field.key = "RTSP Address"
  <2>1. /\ RTSPaddress' = IF RTSPaddress = entries[ifa].name THEN entries[ifa].addr
                          ELSE RTSPaddress
        /\ UNCHANGED <<controlIP, broadcastAddress>>
    BY <1>9 DEF Interface
  <2>2. /\ RTSPaddress \in Addresses \cup {configured}
        /\ configured \in Addresses \/ Named("RTSP Address", at) =>
             RTSPaddress \in Addresses
    BY <1>3, <1>6, <1>9 DEF AcceptInv, RTSPMatched
  <2>3. /\ RTSPaddress' \in Addresses \cup {configured}
        /\ RTSPaddress \in Addresses => RTSPaddress' \in Addresses
        /\ configured = entries[ifa].name => RTSPaddress' \in Addresses
        /\ configured = entries[ifa].addr => RTSPaddress' \in Addresses
    BY <1>5, <2>1, <2>2
  <2>4. RTSPMatched'
    <3>1. configured \in Addresses \/ Named("RTSP Address", at)' =>
            RTSPaddress' \in Addresses
      BY <1>7, <1>9, <2>2, <2>3 DEF AddressKeys
    <3> QED
      BY <1>1, <1>3, <1>9, <2>3, <3>1 DEF RTSPMatched
  <2> QED
    BY <1>1, <1>2, <1>9, <2>1, <2>4, OtherMatched, Unrefused DEF AcceptInv
<1> QED
  BY <1>3, <1>8, <1>9 DEF AddressKeys

LEMMA FreeIfAddrsAccept ==
  ASSUME IInv, AcceptInv, FreeIfAddrs
  PROVE  AcceptInv'
<1>1. /\ pc = "interfaces" /\ pc' = "control" /\ at' = at + 1
      /\ ifa > Len(list[Field.key])
      /\ UNCHANGED <<doc, list, ifa, controlIP, broadcastAddress, RTSPaddress>>
  BY DEF FreeIfAddrs, loop, fields, network
<1>2. InLoop /\ ~InLoop'
  BY <1>1 DEF InLoop
<1>3. /\ InControl /\ at \in 1 .. Len(doc.control) /\ IsObject(doc.control)
      /\ Field.key \in AddressKeys
  BY <1>2, LoopFacts
<1>4. ifa - 1 = Len(list[Field.key])
  <2>1. ifa \in Nat /\ Len(list[Field.key]) \in Nat /\ ifa <= Len(list[Field.key]) + 1
    BY <1>1, <1>3, ListsTyped DEF IInv, TypeOK, FieldsReached
  <2> QED
    BY <1>1, <2>1, AllCompared
<1>5. \A key \in AddressKeys : ComparedWith(key)' = ComparedWith(key)
  BY <1>1, <1>2, <1>4 DEF ComparedWith
<1>6. ASSUME NEW k \in 1 .. Len(doc.control), Reached(k)'
      PROVE  Reached(k)
  <2>1. k < at + 1
    BY <1>1, <1>6 DEF Reached
  <2>2. k <= at
    BY <1>3, <1>6, <2>1 DEF IsObject
  <2> QED
    BY <1>1, <2>2 DEF Reached
<1> QED
  BY <1>1, <1>3, <1>5, <1>6, QuietAccept

\* All fields of Control Data have been read when Metadata is.
LEMMA MetadataAccept ==
  ASSUME IInv, AcceptInv, ReadMetadata \/ ReadMetadataField
  PROVE  AcceptInv'
<1>1. ~InLoop /\ (InControl \/ InMetadata) /\ doc' = doc
  BY DEF ReadMetadata, ReadMetadataField, InLoop, InControl, InMetadata, Fail
<1>2. CASE pc' = "metadata"
  <2>1. UNCHANGED <<list, controlIP, broadcastAddress, RTSPaddress>>
    <3>1. CASE ReadMetadata
      BY <1>2, <3>1 DEF ReadMetadata, Fail, loop, fields, network
    <3>2. CASE ReadMetadataField
      BY <1>2, <3>2 DEF ReadMetadataField, Fail, loop, fields, network
    <3> QED
      BY <3>1, <3>2
  <2>2. \A key \in AddressKeys : ComparedWith(key)' = ComparedWith(key)
    BY <1>1, <1>2, <2>1 DEF ComparedWith, InLoop
  <2>3. \A k \in 1 .. Len(doc.control) : Reached(k)
    <3>1. CASE pc = "control"
      <4>1. at > Len(doc.control) /\ doc.control # NULL
        BY <3>1 DEF ReadMetadata, ReadMetadataField, IInv, HeapByPhase, InControl
      <4>2. \A k \in 1 .. Len(doc.control) : k < at /\ k <= at
        BY <4>1, ObjectsTyped DEF IInv, TypeOK, IsObject
      <4> QED
        BY <4>2 DEF Reached
    <3>2. CASE pc # "control"
      BY <3>2 DEF ReadMetadata, ReadMetadataField, Reached, InControl
    <3> QED
      BY <3>1, <3>2
  <2> QED
    BY <1>1, <1>2, <2>1, <2>2, <2>3, QuietAccept
<1>3. CASE pc' # "metadata"
  <2>1. pc' = "failed" /\ ~WellFormed
    <3>1. CASE ReadMetadata
      BY <1>3, <3>1, NothingTwice DEF ReadMetadata, Fail, Leave, WellFormed
    <3>2. CASE ReadMetadataField
      <4>1. at <= Len(doc.metadata) /\ doc.metadata[at].key = "unknown" /\ pc = "metadata"
        BY <1>3, <3>2 DEF ReadMetadataField
      <4>2. Fail("unknown metadata")
        BY <3>2, <4>1 DEF ReadMetadataField
      <4>3. pc' = "failed"
        BY <4>2, NothingTwice DEF Fail, Leave
      <4>4. at \in 1 .. Len(doc.metadata)
        BY <4>1, ObjectsTyped DEF IInv, HeapByPhase, InMetadata, TypeOK, IsObject
      <4> QED
        BY <4>1, <4>3, <4>4 DEF WellFormed, Keys
    <3> QED
      BY <3>1, <3>2
  <2>2. ~WellFormed'
    BY <1>1, <2>1, SameFile
  <2> QED
    BY <2>1, <2>2, RefusedAccept DEF InControl, InMetadata
<1> QED
  BY <1>2, <1>3

\* An invalid address has been compared with every entry in vain.
LEMMA ReturnsAccept ==
  ASSUME IInv, AcceptInv, ReadConfigFileReturns
  PROVE  AcceptInv'
<1>1. pc = "metadata" /\ InMetadata /\ ~InControl /\ ~InLoop
  BY DEF ReadConfigFileReturns, InMetadata, InControl, InLoop
<1>2. ~InControl' /\ ~InMetadata'
  BY NothingTwice DEF ReadConfigFileReturns, Fail, Leave, InControl, InMetadata
<1>3. CASE pc' # "failed"
  BY <1>2, <1>3, RefusedAccept
<1>4. CASE pc' = "failed"
  <2>1. UNCHANGED <<doc, list>> /\ ~(CheckedAddresses \subseteq Addresses)
    BY <1>4 DEF ReadConfigFileReturns, Fail, loop
  <2>2. SUFFICES ASSUME WellFormed, Present("Control IP"),
                        Value("RTSP Address") \in Addresses \/ Present("RTSP Address")
                 PROVE  FALSE
    <3>1. /\ WellFormed' = WellFormed
          /\ \A key : Value(key)' = Value(key)
          /\ \A key : Present(key)' = Present(key)
      BY <2>1, SameFile DEF Value, Present
    <3> QED
      BY <1>2, <2>2, <3>1, DottedQuadsAccepted DEF AcceptInv, ControlMatched,
         RTSPMatched, GoodFilesAccepted
  <2>3. IsObject(doc.control)
    BY <1>1, ObjectsTyped DEF IInv, HeapByPhase
  <2>4. \A key \in AddressKeys : ComparedWith(key) = Len(list[key])
    BY <1>1 DEF ComparedWith
  <2>5. \A k \in 1 .. Len(doc.control) : Reached(k)
    BY <1>1 DEF Reached
  <2>6. PICK c \in 1 .. Len(doc.control) : doc.control[c].key = "Control IP"
    BY <2>2 DEF WellFormed, Keys
  <2>7. broadcastAddress # NULL
    <3>1. Value("Control IP") = doc.control[c].value
      BY <2>3, <2>6, ValueOf
    <3>2. Named("Control IP", c)
      BY <2>2, <2>4, <3>1 DEF Present, Named, AddressKeys
    <3> QED
      BY <1>1, <2>5, <2>6, <3>2 DEF AcceptInv, ControlMatched
  <2>8. controlIP \in Addresses /\ broadcastAddress \in Addresses
    <3>1. PICK k \in 1 .. Len(doc.control) :
            Resolved(doc.control[k].value, list["Control IP"], Compared)
      BY <1>1, <2>7 DEF IInv, ControlResolved
    <3>2. Compared = Len(list["Control IP"])
      BY <1>1 DEF Compared, OnControlIP
    <3>3. PICK i \in 1 .. Len(list["Control IP"]) :
            /\ controlIP = list["Control IP"][i].addr
            /\ broadcastAddress = list["Control IP"][i].brd
      BY <2>7, <3>1, <3>2 DEF Resolved, LastHolder
    <3> QED
      BY <3>3, ListsTyped DEF IInv, AddressKeys
  <2>9. RTSPaddress \in Addresses
    <3>1. PICK r \in 1 .. Len(doc.control) : doc.control[r].key = "RTSP Address"
      BY <2>2 DEF WellFormed, Keys
    <3>2. Value("RTSP Address") = doc.control[r].value
      BY <2>3, <3>1, ValueOf
    <3>3. doc.control[r].value \in Addresses \/ Named("RTSP Address", r)
      BY <2>2, <2>4, <3>2 DEF Present, Named, AddressKeys
    <3> QED
      BY <1>1, <2>5, <3>1, <3>3 DEF AcceptInv, RTSPMatched
  <2> QED
    BY <2>1, <2>8, <2>9 DEF CheckedAddresses
<1> QED
  BY <1>3, <1>4

LEMMA FaultAccept ==
  ASSUME IInv,
         ReadUnknown \/ GetIfAddrsFails \/ GetNameInfoFails \/ GetHostnameFails
  PROVE  AcceptInv'
<1>1. pc' = "failed"
  BY NothingTwice DEF ReadUnknown, GetIfAddrsFails, GetNameInfoFails,
     GetHostnameFails, FaultAt, Fail, Leave
<1>2. CASE ReadUnknown
  <2>1. doc' = doc /\ pc = "control" /\ at <= Len(doc.control) /\ Field.key = "unknown"
    BY <1>2 DEF ReadUnknown, Reading, Fail
  <2>2. at \in 1 .. Len(doc.control)
    BY <2>1, ObjectsTyped DEF IInv, HeapByPhase, InControl, TypeOK, IsObject
  <2>3. ~WellFormed
    BY <2>1, <2>2 DEF WellFormed, Keys, Field
  <2> QED
    BY <1>1, <2>1, <2>3, SameFile, RefusedAccept DEF InControl, InMetadata
<1>3. CASE ~ReadUnknown
  <2>1. fault' = TRUE
    BY <1>3 DEF GetIfAddrsFails, GetNameInfoFails, GetHostnameFails, FaultAt
  <2> QED
    BY <1>1, <2>1, RefusedAccept DEF InControl, InMetadata
<1> QED
  BY <1>2, <1>3

\* The program after readConfigFile, and a script that crashes it.
LEMMA AfterAccept ==
  ASSUME IInv,
         \/ ReadHardwareScripts /\ pc' # "control"
         \/ FormatRecordingDirectory \/ ForkScripts \/ ParseTrigger
         \/ StatusBroadcast \/ Exit
  PROVE  AcceptInv'
<1>1. pc' \in {"crashed", "forking", "running", "exited"}
  BY DEF ReadHardwareScripts, Reading, NextField, FormatRecordingDirectory,
     ForkScripts, ParseTrigger, StatusBroadcast, Follow, Exit, Leave
<1> QED
  BY <1>1, RefusedAccept DEF InControl, InMetadata

LEMMA StutterAccept == ASSUME AcceptInv, UNCHANGED vars PROVE AcceptInv'
<1>1. UNCHANGED <<doc, pc, at, list, ifa, fault, controlIP, broadcastAddress,
                  RTSPaddress>>
  BY DEF vars, loop, fields, network
<1>2. /\ InControl' = InControl /\ InMetadata' = InMetadata
      /\ InLoop' = InLoop /\ Field' = Field /\ WellFormed' = WellFormed
  BY <1>1, SameFile DEF InControl, InMetadata, InLoop, Field
<1>3. /\ \A k : Reached(k)' = Reached(k)
      /\ \A key, k : Named(key, k)' = Named(key, k)
      /\ \A key : Value(key)' = Value(key) /\ Present(key)' = Present(key)
  BY <1>1, <1>2 DEF Reached, Named, ComparedWith, Value, Present
<1> QED
  BY <1>1, <1>2, <1>3 DEF AcceptInv, ControlMatched, RTSPMatched, GoodFilesAccepted

LEMMA NextAccept ==
  ASSUME IInv, AcceptInv, Next
  PROVE  AcceptInv'
<1>1. CASE ReadHardwareScripts
  BY <1>1, FieldAccept, AfterAccept
<1> QED
  BY <1>1, OpenAccept, FieldAccept, FaultAccept, AddressAccept, GetIfAddrsAccept,
     InterfaceAccept, FreeIfAddrsAccept, MetadataAccept, ReturnsAccept,
     AfterAccept DEF Next
-----------------------------------------------------------------------------
(* The theorems.                                                           *)

\* The inductive invariant of readConfigFile and the program after it holds.
THEOREM ConfigInv == Spec => []IInv
<1>1. Init => IInv
  BY ConfigInit
<1>2. IInv /\ [Next]_vars => IInv'
  BY NextInv, StutterInv
<1> QED
  BY <1>1, <1>2, PTL DEF Spec

\* Every goto of readConfigFile (config.c:286-293) frees every block that a
\* pointer holds.
THEOREM FailureFreesHeld == Spec => []FailureFreesAll
<1>1. IInv => FailureFreesAll
  BY DEF IInv, HeapByPhase, FailureFreesAll
<1> QED
  BY <1>1, ConfigInv, PTL

\* No documented config.json makes the program follow a pointer that is not set
\* or free a block twice.
THEOREM DocumentedFilesNeverCrash == Spec => []OnlyMalformedCrash
<1>1. IInv => OnlyMalformedCrash
  BY DEF IInv
<1> QED
  BY <1>1, ConfigInv, PTL

\* replace_with_address (config.c:383-435) leaves the address of the entry that
\* the file names and the broadcast address of the last entry with that address,
\* which is the same entry unless two interfaces have one address.
THEOREM StatusOnOwnNetwork == Spec => []StatusOnControlNetwork
<1>1. ASSUME IInv, Accepted
      PROVE  StatusOnControlNetwork
  <2> DEFINE entries == list["Control IP"]
  <2>1. broadcastAddress # NULL
    BY <1>1, DottedQuadsAccepted DEF IInv, AddressesChecked, CheckedAddresses
  <2>2. ~InControl /\ ~InLoop
    BY <1>1 DEF Accepted, InControl, InLoop
  <2>3. Compared = Len(entries)
    BY <2>2 DEF Compared, OnControlIP
  <2>4. PICK k \in 1 .. Len(doc.control) :
          /\ doc.control[k].key = "Control IP"
          /\ Resolved(doc.control[k].value, entries, Compared)
    BY <1>1, <2>1 DEF IInv, ControlResolved
  <2>5. Value("Control IP") = doc.control[k].value
    <3>1. IsObject(doc.control)
      BY <1>1, ObjectsTyped DEF IInv, HeapByPhase
    <3>2. \A j \in 1 .. Len(doc.control) :
            doc.control[j].key = "Control IP" => j = k
      BY <2>4, <3>1 DEF IsObject
    <3> QED
      BY <2>4, <3>2 DEF Value
  <2>6. PICK j \in 1 .. Len(entries) :
          LastHolder(entries, Len(entries), j) /\ broadcastAddress = entries[j].brd
    BY <2>1, <2>3, <2>4 DEF Resolved
  <2>7. PICK i \in 1 .. Len(entries) :
          /\ doc.control[k].value \in {entries[i].name, entries[i].addr}
          /\ controlIP = entries[i].addr
    BY <2>3, <2>4, <2>6 DEF Resolved, LastHolder
  <2>8. j \in i .. Len(entries)
    <3>1. i <= j
      BY <2>6, <2>7 DEF LastHolder
    <3>2. Len(entries) \in Nat
      BY <1>1, ListsTyped DEF IInv, AddressKeys
    <3> QED
      BY <2>6, <2>7, <3>1, <3>2, LaterEntry
  <2> QED
    BY <2>5, <2>6, <2>7, <2>8 DEF StatusOnControlNetwork
<1>2. IInv => StatusOnControlNetwork
  BY <1>1 DEF StatusOnControlNetwork
<1> QED
  BY <1>2, ConfigInv, PTL

\* docs/App_Systems.md, Config JSON Template: a documented file whose interfaces
\* the system has passes the checks at the end of readConfigFile
\* (config.c:271-282), whatever the order of its fields, unless a call fails.
THEOREM GoodFilesPass == Spec => []GoodFilesAccepted
<1>1. Init => AcceptInv
  BY AcceptInit
<1>2. IInv /\ AcceptInv /\ [Next]_vars => AcceptInv'
  BY NextAccept, StutterAccept
<1>3. AcceptInv => GoodFilesAccepted
  BY DEF AcceptInv
<1> QED
  BY <1>1, <1>2, <1>3, ConfigInv, PTL DEF Spec

\* No configuration is accepted (config.c:271-282) with a Control IP, a broadcast
\* address or an RTSP Address that is not four numbers of 0 to 255.
THEOREM AddressesAreRecognised == Spec => []AddressesRecognised
<1>1. OnlyDottedQuads
  BY AddressesAreQuads, SpellingAssumption DEF SpellingAssumption, OnlyDottedQuads
<1>2. IInv => AddressesRecognised
  BY <1>1, DottedQuadsAccepted DEF IInv, AddressesChecked, AddressesRecognised
<1> QED
  BY <1>2, ConfigInv, PTL
=============================================================================
