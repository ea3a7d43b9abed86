----------------------------- MODULE CJSONProofs -----------------------------
(***************************************************************************)
(* What cJSON's functions do to the heap, for every heap: items that are   *)
(* built and linked make trees, and a tree is deleted to the last block.   *)
(* Then the parser, for every text: what it builds is such a tree, which   *)
(* prints as the text, and a text that it refuses leaves nothing behind.   *)
(***************************************************************************)
EXTENDS CJSONParse, FiniteSetTheorems, SequenceTheorems, WellFoundedInduction, TLAPS
-----------------------------------------------------------------------------
(* What is built is a tree of items in cJSON's heap: each of them, and each of  *)
(* its strings, has one owner, and all hang on the root.  Adding to it keeps it *)
(* a tree and the rest of the heap as it was, so that deleting its root frees   *)
(* what was allocated for it, once, and nothing besides.                        *)

\* There is an address that is not allocated, and never NULL.
LEMMA FreshIs ==
  ASSUME NEW h, IsHeap(h)
  PROVE  Fresh(h) \in Nat \ {NULL} /\ Fresh(h) \notin DOMAIN h.blocks
<1> DEFINE D == DOMAIN h.blocks
           size == Cardinality(D)
<1>1. IsFiniteSet(D) /\ size \in Nat
  BY FS_CardinalityType DEF IsHeap
<1> HIDE DEF D
<1> HIDE DEF size
<1>2. IsFiniteSet(1 .. size + 1) /\ Cardinality(1 .. size + 1) = size + 1
  <2>1. 1 \in Int /\ size + 1 \in Int
    BY <1>1
  <2>2. /\ IsFiniteSet(1 .. size + 1)
        /\ Cardinality(1 .. size + 1) = IF 1 > size + 1 THEN 0 ELSE (size + 1) - 1 + 1
    BY <2>1, FS_Interval
  <2> QED
    BY <1>1, <2>2
<1>3. ~(1 .. size + 1 \subseteq D)
  BY <1>1, <1>2, FS_Subset DEF size
<1>4. \E p \in 1 .. size + 1 : p \notin D
  BY <1>3
<1>5. Fresh(h) \in 1 .. size + 1 /\ Fresh(h) \notin D
  BY <1>4 DEF Fresh, D, size
<1> QED
  BY <1>1, <1>5 DEF D, NULL

\* h is heap g with the blocks of "new" besides.
Grown(g, h, new) ==
  /\ IsHeap(h) /\ h.sound = g.sound
  /\ DOMAIN h.blocks = DOMAIN g.blocks \cup new /\ DOMAIN g.blocks \cap new = {}
  /\ \A p \in DOMAIN g.blocks : h.blocks[p] = g.blocks[p]

\* An allocation adds one block and changes no other.
LEMMA Allocated ==
  ASSUME NEW h, IsHeap(h), NEW block
  PROVE  /\ Grown(h, Allocate(h, block), {Fresh(h)})
         /\ Allocate(h, block).blocks[Fresh(h)] = block
<1> DEFINE new == Fresh(h)
           blocks == [p \in DOMAIN h.blocks \cup {new} |->
                        IF p \in DOMAIN h.blocks THEN h.blocks[p] ELSE block]
<1>1. new \in Nat \ {NULL} /\ new \notin DOMAIN h.blocks
  BY FreshIs
<1> HIDE DEF new
<1>2. Allocate(h, block) = [blocks |-> blocks, sound |-> h.sound]
  BY DEF IsHeap, Allocate, new
<1>3. IsFiniteSet(DOMAIN h.blocks \cup {new})
  BY FS_AddElement DEF IsHeap
<1>4. IsHeap(Allocate(h, block))
  BY <1>1, <1>2, <1>3 DEF IsHeap
<1> QED
  BY <1>1, <1>2, <1>4 DEF Grown, new

\* An item of the heap.
Item(h, p) == IsHeap(h) /\ p \in DOMAIN h.blocks /\ IsItem(h.blocks[p])

\* One block is written.
Wrote(h, k, p) ==
  /\ IsHeap(k) /\ k.sound = h.sound /\ DOMAIN k.blocks = DOMAIN h.blocks
  /\ \A q \in DOMAIN h.blocks \ {p} : k.blocks[q] = h.blocks[q]
  /\ IsItem(k.blocks[p])

\* An item, and a heap, with a field written.
WithNext(it, v) == [it EXCEPT !.next = v]
WithPrev(it, v) == [it EXCEPT !.prev = v]
WithChild(it, v) == [it EXCEPT !.child = v]
WithKey(it, v) == [it EXCEPT !.string = v]

SetNext(h, p, v) == [h EXCEPT !.blocks[p].next = v]
SetPrev(h, p, v) == [h EXCEPT !.blocks[p].prev = v]
SetChild(h, p, v) == [h EXCEPT !.blocks[p].child = v]
SetKey(h, p, v) == [h EXCEPT !.blocks[p].string = v]

\* What a write to one field of one item changes.
LEMMA WritesNext ==
  ASSUME NEW h, NEW p, Item(h, p), NEW v \in Nat
  PROVE  /\ Wrote(h, SetNext(h, p, v), p)
         /\ SetNext(h, p, v).blocks[p] = WithNext(h.blocks[p], v)
<1>1. Wrote(h, SetNext(h, p, v), p)
  BY DEF Item, IsHeap, IsItem, Wrote, SetNext
<1>2. SetNext(h, p, v).blocks[p] = WithNext(h.blocks[p], v)
  BY DEF Item, IsHeap, IsItem, SetNext, WithNext
<1> QED
  BY <1>1, <1>2

\* A write of prev changes that field of that item, and nothing else.
LEMMA WritesPrev ==
  ASSUME NEW h, NEW p, Item(h, p), NEW v \in Nat
  PROVE  /\ Wrote(h, SetPrev(h, p, v), p)
         /\ SetPrev(h, p, v).blocks[p] = WithPrev(h.blocks[p], v)
<1>1. Wrote(h, SetPrev(h, p, v), p)
  BY DEF Item, IsHeap, IsItem, Wrote, SetPrev
<1>2. SetPrev(h, p, v).blocks[p] = WithPrev(h.blocks[p], v)
  BY DEF Item, IsHeap, IsItem, SetPrev, WithPrev
<1> QED
  BY <1>1, <1>2

\* So does a write of child,
LEMMA WritesChild ==
  ASSUME NEW h, NEW p, Item(h, p), NEW v \in Nat
  PROVE  /\ Wrote(h, SetChild(h, p, v), p)
         /\ SetChild(h, p, v).blocks[p] = WithChild(h.blocks[p], v)
<1>1. Wrote(h, SetChild(h, p, v), p)
  BY DEF Item, IsHeap, IsItem, Wrote, SetChild
<1>2. SetChild(h, p, v).blocks[p] = WithChild(h.blocks[p], v)
  BY DEF Item, IsHeap, IsItem, SetChild, WithChild
<1> QED
  BY <1>1, <1>2

\* and one of the key.
LEMMA WritesKey ==
  ASSUME NEW h, NEW p, Item(h, p), NEW v \in Nat
  PROVE  /\ Wrote(h, SetKey(h, p, v), p)
         /\ SetKey(h, p, v).blocks[p] = WithKey(h.blocks[p], v)
<1>1. Wrote(h, SetKey(h, p, v), p)
  BY DEF Item, IsHeap, IsItem, Wrote, SetKey
<1>2. SetKey(h, p, v).blocks[p] = WithKey(h.blocks[p], v)
  BY DEF Item, IsHeap, IsItem, SetKey, WithKey
<1> QED
  BY <1>1, <1>2

\* What an item is after such a write.
LEMMA NextWritten ==
  ASSUME NEW it, IsItem(it), NEW v \in Nat
  PROVE  /\ IsItem(WithNext(it, v)) /\ WithNext(it, v).next = v
         /\ WithNext(it, v).prev = it.prev /\ WithNext(it, v).child = it.child
         /\ WithNext(it, v).string = it.string /\ WithNext(it, v).valuestring = it.valuestring
         /\ WithNext(it, v).reference = it.reference
  BY DEF IsItem, WithNext

\* An item with another prev,
LEMMA PrevWritten ==
  ASSUME NEW it, IsItem(it), NEW v \in Nat
  PROVE  /\ IsItem(WithPrev(it, v)) /\ WithPrev(it, v).prev = v
         /\ WithPrev(it, v).next = it.next /\ WithPrev(it, v).child = it.child
         /\ WithPrev(it, v).string = it.string /\ WithPrev(it, v).valuestring = it.valuestring
         /\ WithPrev(it, v).reference = it.reference
  BY DEF IsItem, WithPrev

\* with another child,
LEMMA ChildWritten ==
  ASSUME NEW it, IsItem(it), NEW v \in Nat
  PROVE  /\ IsItem(WithChild(it, v)) /\ WithChild(it, v).child = v
         /\ WithChild(it, v).next = it.next /\ WithChild(it, v).prev = it.prev
         /\ WithChild(it, v).string = it.string /\ WithChild(it, v).valuestring = it.valuestring
         /\ WithChild(it, v).reference = it.reference
  BY DEF IsItem, WithChild

\* and with another key keeps its other pointers.
LEMMA KeyWritten ==
  ASSUME NEW it, IsItem(it), NEW v \in Nat
  PROVE  /\ IsItem(WithKey(it, v)) /\ WithKey(it, v).string = v
         /\ WithKey(it, v).next = it.next /\ WithKey(it, v).prev = it.prev
         /\ WithKey(it, v).child = it.child /\ WithKey(it, v).valuestring = it.valuestring
         /\ WithKey(it, v).reference = it.reference
  BY DEF IsItem, WithKey

\* The block that an item owns by a slot.
To(h, p, slot) == Owned(h.blocks[p], slot)

\* What items own is among them and some strings.
Within(h, items, strings) ==
  /\ items \cup strings \subseteq DOMAIN h.blocks /\ items \cap strings = {}
  /\ \A p \in items :
       /\ IsItem(h.blocks[p])
       /\ To(h, p, "next") \in items \cup {NULL} /\ To(h, p, "child") \in items \cup {NULL}
       /\ To(h, p, "string") \in strings \cup {NULL}
       /\ To(h, p, "valuestring") \in strings \cup {NULL}

\* Nothing has two owners, and the root has none.
OwnedOnce(h, root, items) ==
  /\ \A p, q \in items : \A s, t \in Slots :
       To(h, p, s) = To(h, q, t) /\ To(h, p, s) # NULL => p = q /\ s = t
  /\ \A p \in items : \A s \in Slots : To(h, p, s) # root

\* Two pointers of a tree to one block are the same pointer.
LEMMA Once ==
  ASSUME NEW h, NEW root, NEW items, OwnedOnce(h, root, items),
         NEW p \in items, NEW q \in items, NEW s \in Slots, NEW t \in Slots,
         To(h, p, s) = To(h, q, t), To(h, p, s) # NULL
  PROVE  p = q /\ s = t
  BY DEF OwnedOnce

\* R leads to no other item.
Covered(h, items, R) ==
  \A p \in R \cap items : \A s \in {"next", "child"} : To(h, p, s) \in R \cup {NULL}

\* The root leads to every item.
Spanned(h, root, items) ==
  root \in items /\ \A R : root \in R /\ Covered(h, items, R) => items \subseteq R

StringsOwned(h, items, strings) ==
  \A p \in strings : \E q \in items, s \in Slots : To(h, q, s) = p

\* A tree in h: the items and strings that cJSON_Delete of its root frees.
Tree(h, root, items, strings) ==
  /\ Within(h, items, strings) /\ OwnedOnce(h, root, items)
  /\ Spanned(h, root, items) /\ StringsOwned(h, items, strings)

\* A tree is a tree in every heap that holds its items as they are.
LEMMA TreeKept ==
  ASSUME NEW h, NEW k, NEW root, NEW items, NEW strings, Tree(h, root, items, strings),
         DOMAIN h.blocks \subseteq DOMAIN k.blocks,
         \A p \in items : k.blocks[p] = h.blocks[p]
  PROVE  Tree(k, root, items, strings)
<1>1. \A p \in items : \A s \in Slots : To(k, p, s) = To(h, p, s)
  BY DEF To
<1>2. {"next", "child", "string", "valuestring"} \subseteq Slots
  BY DEF Slots
<1> QED
  BY <1>1, <1>2 DEF Tree, Within, OwnedOnce, Spanned, Covered, StringsOwned

\* A tree hung by a pointer of another one, that was NULL, makes one tree.
LEMMA Joined ==
  ASSUME NEW h, NEW k, NEW root, NEW I, NEW T, Tree(h, root, I, T),
         NEW item, NEW J, NEW U, Tree(h, item, J, U),
         (I \cup T) \cap (J \cup U) = {}, NULL \notin DOMAIN h.blocks,
         DOMAIN k.blocks = DOMAIN h.blocks,
         \A p \in I \cup J : IsItem(k.blocks[p]),
         NEW end \in I, NEW slot \in {"next", "child"}, To(h, end, slot) = NULL,
         \A p \in I \cup J : \A s \in Slots :
           To(k, p, s) = IF p = end /\ s = slot THEN item ELSE To(h, p, s)
  PROVE  Tree(k, root, I \cup J, T \cup U)
<1>1. {"next", "child", "string", "valuestring"} \subseteq Slots
  BY DEF Slots
<1>2. item \in J /\ item # NULL /\ end \notin J /\ item \notin I
  BY DEF Tree, Within, Spanned
<1>3. ASSUME NEW p \in I \cup J
      PROVE  /\ To(k, p, "next") \in I \cup J \cup {NULL}
             /\ To(k, p, "child") \in I \cup J \cup {NULL}
             /\ To(k, p, "string") \in T \cup U \cup {NULL}
             /\ To(k, p, "valuestring") \in T \cup U \cup {NULL}
  BY <1>1, <1>2, <1>3 DEF Tree, Within
<1>4. ASSUME NEW p \in I, NEW s \in Slots
      PROVE  /\ To(h, p, s) \in I \cup T \cup {NULL} /\ To(h, p, s) # root
             /\ To(k, p, s) \in I \cup T \cup {NULL, item}
             /\ To(k, p, s) = item <=> (p = end /\ s = slot)
  <2>1. To(h, p, s) \in I \cup T \cup {NULL} /\ To(h, p, s) # root
    BY <1>4 DEF Tree, Within, OwnedOnce, Slots
  <2>2. item \notin I \cup T \cup {NULL}
    BY <1>2 DEF Tree, Within
  <2>3. To(k, p, s) = IF p = end /\ s = slot THEN item ELSE To(h, p, s)
    BY <1>4
  <2> QED
    BY <2>1, <2>2, <2>3
<1>5. ASSUME NEW p \in J, NEW s \in Slots
      PROVE  /\ To(k, p, s) = To(h, p, s)
             /\ To(k, p, s) \in J \cup U \cup {NULL} /\ To(k, p, s) # item
  <2>1. To(h, p, s) \in J \cup U \cup {NULL} /\ To(h, p, s) # item
    BY <1>5 DEF Tree, Within, OwnedOnce, Slots
  <2>2. To(k, p, s) = To(h, p, s)
    BY <1>2, <1>5
  <2> QED
    BY <2>1, <2>2
<1>6. ASSUME NEW p \in I \cup J, NEW q \in I \cup J, NEW s \in Slots, NEW t \in Slots,
             To(k, p, s) = To(k, q, t), To(k, p, s) # NULL
      PROVE  p = q /\ s = t
  <2>1. CASE p \in I /\ q \in I
    <3>1. CASE To(k, p, s) = item
      <4>1. p = end /\ s = slot
        BY <1>4, <1>6, <2>1, <3>1
      <4>2. To(k, q, t) = item
        BY <1>6, <3>1
      <4>3. q = end /\ t = slot
        BY <1>4, <1>6, <2>1, <4>2
      <4> QED
        BY <4>1, <4>3
    <3>2. CASE To(k, p, s) # item
      <4>1. To(k, p, s) = To(h, p, s) /\ To(k, q, t) = To(h, q, t)
        <5>1. To(k, q, t) # item
          BY <1>6, <3>2
        <5>2. ~(p = end /\ s = slot) /\ ~(q = end /\ t = slot)
          BY <1>4, <1>6, <2>1, <3>2, <5>1
        <5> QED
          BY <1>6, <5>2
      <4>2. OwnedOnce(h, root, I)
        BY DEF Tree
      <4>3. To(h, p, s) = To(h, q, t)
        BY <1>6, <4>1
      <4>4. To(h, p, s) # NULL
        BY <1>6, <4>1
      <4>5. p \in I /\ q \in I
        BY <2>1
      <4> QED
        BY <4>2, <4>3, <4>4, <4>5, Once
    <3> QED
      BY <3>1, <3>2
  <2>2. CASE p \in J /\ q \in J
    <3>1. To(k, p, s) = To(h, p, s) /\ To(k, q, t) = To(h, q, t)
      BY <1>5, <2>2
    <3>2. OwnedOnce(h, item, J)
      BY DEF Tree
    <3>3. To(h, p, s) = To(h, q, t)
      BY <1>6, <3>1
    <3>4. To(h, p, s) # NULL
      BY <1>6, <3>1
    <3>5. p \in J /\ q \in J
      BY <2>2
    <3> QED
      BY <3>2, <3>3, <3>4, <3>5, Once
  <2>3. CASE p \in I /\ q \in J
    BY <1>4, <1>5, <1>6, <2>3
  <2>4. CASE p \in J /\ q \in I
    BY <1>4, <1>5, <1>6, <2>4
  <2> QED
    BY <2>1, <2>2, <2>3, <2>4
<1>7. ASSUME NEW p \in I \cup J, NEW s \in Slots PROVE To(k, p, s) # root
  <2>1. root \in I /\ root \in DOMAIN h.blocks
    BY DEF Tree, Within, Spanned
  <2> QED
    BY <1>2, <1>4, <1>5, <2>1
<1>8. ASSUME NEW R, root \in R, Covered(k, I \cup J, R)
      PROVE  I \cup J \subseteq R
  <2>1. ASSUME NEW p \in R \cap (I \cup J), NEW s \in {"next", "child"}
        PROVE  To(k, p, s) \in R \cup {NULL}
    BY <1>8 DEF Covered
  <2>2. ASSUME NEW p \in R \cap I, NEW s \in {"next", "child"}
        PROVE  To(h, p, s) \in R \cup {NULL}
    <3>1. To(k, p, s) = IF p = end /\ s = slot THEN item ELSE To(h, p, s)
      BY <1>1
    <3> QED
      BY <2>1, <3>1
  <2>3. I \subseteq R
    BY <1>8, <2>2 DEF Tree, Spanned, Covered
  <2>4. item \in R
    BY <1>1, <1>2, <2>1, <2>3
  <2>5. ASSUME NEW p \in R \cap J, NEW s \in {"next", "child"}
        PROVE  To(h, p, s) \in R \cup {NULL}
    BY <1>1, <1>5, <2>1
  <2>6. J \subseteq R
    BY <2>4, <2>5 DEF Tree, Spanned, Covered
  <2> QED
    BY <2>3, <2>6
<1>9. ASSUME NEW p \in T \cup U
      PROVE  \E q \in I \cup J, s \in Slots : To(k, q, s) = p
  <2>1. CASE p \in T
    <3>1. PICK q \in I, s \in Slots : To(h, q, s) = p
      BY <2>1 DEF Tree, Within, StringsOwned
    <3>2. p # NULL
      BY <2>1 DEF Tree, Within, StringsOwned
    <3> QED
      BY <3>1, <3>2
  <2>2. CASE p \in U
    <3>1. PICK q \in J, s \in Slots : To(h, q, s) = p
      BY <2>2 DEF Tree, StringsOwned
    <3> QED
      BY <1>5, <3>1
  <2> QED
    BY <1>9, <2>1, <2>2
<1>10. Within(k, I \cup J, T \cup U)
  <2>1. /\ (I \cup J) \cup (T \cup U) \subseteq DOMAIN k.blocks
        /\ (I \cup J) \cap (T \cup U) = {}
    BY DEF Tree, Within
  <2> QED
    BY <1>3, <2>1 DEF Within
<1>11. OwnedOnce(k, root, I \cup J)
  BY <1>6, <1>7 DEF OwnedOnce
<1>12. Spanned(k, root, I \cup J)
  BY <1>8 DEF Tree, Spanned
<1>13. StringsOwned(k, I \cup J, T \cup U)
  BY <1>9 DEF StringsOwned
<1> QED
  BY <1>10, <1>11, <1>12, <1>13 DEF Tree
\* What adding an item to an array writes: the array is empty, or its list ends
\* with the item that the first one calls its previous one.
Began(h, k, a, item) ==
  /\ IsHeap(k) /\ k.sound = h.sound /\ DOMAIN k.blocks = DOMAIN h.blocks
  /\ \A p \in DOMAIN h.blocks \ {a, item} : k.blocks[p] = h.blocks[p]
  /\ k.blocks[a] = WithChild(h.blocks[a], item)
  /\ k.blocks[item] = WithNext(WithPrev(h.blocks[item], item), NULL)

Linked(h, k, first, last, item) ==
  /\ IsHeap(k) /\ k.sound = h.sound /\ DOMAIN k.blocks = DOMAIN h.blocks
  /\ \A p \in DOMAIN h.blocks \ {first, last, item} : k.blocks[p] = h.blocks[p]
  /\ k.blocks[item] = WithPrev(h.blocks[item], last)
  /\ first # last => k.blocks[last] = WithNext(h.blocks[last], item)
  /\ k.blocks[first] =
       IF first = last THEN WithPrev(WithNext(h.blocks[first], item), item)
       ELSE WithPrev(h.blocks[first], item)

\* The first item of a list becomes the child, and its own last item.
LEMMA FirstItem ==
  ASSUME NEW h, NEW a, Item(h, a), NEW item, Item(h, item), item # a,
         h.blocks[a].child = NULL
  PROVE  Began(h, AddItemToArray(h, a, item), a, item)
<1> DEFINE h1 == SetChild(h, a, item)
           h2 == SetPrev(h1, item, item)
           k  == SetNext(h2, item, NULL)
<1>1. item \in Nat \ {NULL} /\ NULL \in Nat
  BY DEF Item, IsHeap, NULL
<1>2. AddItemToArray(h, a, item) = k
  BY <1>1 DEF AddItemToArray, SetChild, SetPrev, SetNext
<1> HIDE DEF h1, h2, k
<1>3. Wrote(h, h1, a) /\ h1.blocks[a] = WithChild(h.blocks[a], item)
  BY <1>1, WritesChild DEF h1
<1>4. Item(h1, item) /\ h1.blocks[item] = h.blocks[item]
  BY <1>3 DEF Wrote, Item
<1>5. Wrote(h1, h2, item) /\ h2.blocks[item] = WithPrev(h1.blocks[item], item)
  BY <1>1, <1>4, WritesPrev DEF h2
<1>6. Item(h2, item)
  BY <1>4, <1>5 DEF Wrote, Item
<1>7. Wrote(h2, k, item) /\ k.blocks[item] = WithNext(h2.blocks[item], NULL)
  BY <1>1, <1>6, WritesNext DEF k
<1>8. k.blocks[item] = WithNext(WithPrev(h.blocks[item], item), NULL)
  BY <1>4, <1>5, <1>7
<1>9. /\ DOMAIN h1.blocks = DOMAIN h.blocks /\ h1.sound = h.sound
      /\ \A p \in DOMAIN h.blocks \ {a} : h1.blocks[p] = h.blocks[p]
  BY <1>3 DEF Wrote
<1>10. /\ DOMAIN k.blocks = DOMAIN h.blocks /\ k.sound = h.sound /\ IsHeap(k)
       /\ \A p \in DOMAIN h.blocks \ {item} : k.blocks[p] = h1.blocks[p]
  BY <1>5, <1>7, <1>9 DEF Wrote
<1>11. k.blocks[a] = WithChild(h.blocks[a], item)
  BY <1>3, <1>10 DEF Item
<1>12. \A p \in DOMAIN h.blocks \ {a, item} : k.blocks[p] = h.blocks[p]
  BY <1>9, <1>10
<1>13. Began(h, k, a, item)
  BY <1>8, <1>10, <1>11, <1>12, <1>9 DEF Began
<1> QED
  BY <1>2, <1>13

\* Three writes, of which the first and the last can be to one block.
WroteInTurn(h, h1, h2, k, first, last, item) ==
  /\ IsHeap(k) /\ k.sound = h.sound /\ DOMAIN k.blocks = DOMAIN h.blocks
  /\ \A p \in DOMAIN h.blocks \ {first, last, item} : k.blocks[p] = h.blocks[p]
  /\ h1.blocks[item] = h.blocks[item] /\ k.blocks[item] = h2.blocks[item]
  /\ h2.blocks[first] = h1.blocks[first]
  /\ first # last => /\ h1.blocks[first] = h.blocks[first]
                     /\ k.blocks[last] = h1.blocks[last]

\* What three writes in turn leave, the first and the last of one item perhaps.
LEMMA WroteThrice ==
  ASSUME NEW h, NEW h1, NEW h2, NEW k, NEW first \in DOMAIN h.blocks,
         NEW last \in DOMAIN h.blocks, NEW item \in DOMAIN h.blocks \ {first, last},
         Wrote(h, h1, last), Wrote(h1, h2, item), Wrote(h2, k, first)
  PROVE  WroteInTurn(h, h1, h2, k, first, last, item)
<1>1. /\ DOMAIN h1.blocks = DOMAIN h.blocks /\ h1.sound = h.sound
      /\ \A p \in DOMAIN h.blocks \ {last} : h1.blocks[p] = h.blocks[p]
  BY DEF Wrote
<1>2. /\ DOMAIN h2.blocks = DOMAIN h.blocks /\ h2.sound = h.sound
      /\ \A p \in DOMAIN h.blocks \ {item} : h2.blocks[p] = h1.blocks[p]
  BY <1>1 DEF Wrote
<1>3. /\ DOMAIN k.blocks = DOMAIN h.blocks /\ k.sound = h.sound /\ IsHeap(k)
      /\ \A p \in DOMAIN h.blocks \ {first} : k.blocks[p] = h2.blocks[p]
  BY <1>2 DEF Wrote
<1>4. ASSUME NEW p \in DOMAIN h.blocks \ {first, last, item}
      PROVE  k.blocks[p] = h.blocks[p]
  <2>1. k.blocks[p] = h2.blocks[p] /\ h2.blocks[p] = h1.blocks[p]
    BY <1>2, <1>3
  <2> QED
    BY <1>1, <2>1
<1>5. h1.blocks[item] = h.blocks[item] /\ k.blocks[item] = h2.blocks[item]
  BY <1>1, <1>3
<1>6. h2.blocks[first] = h1.blocks[first]
  BY <1>2
<1>7. ASSUME first # last
      PROVE  h1.blocks[first] = h.blocks[first] /\ k.blocks[last] = h1.blocks[last]
  <2>1. k.blocks[last] = h2.blocks[last] /\ h2.blocks[last] = h1.blocks[last]
    BY <1>2, <1>3, <1>7
  <2> QED
    BY <1>1, <1>7, <2>1
<1> QED
  BY <1>1, <1>2, <1>3, <1>4, <1>5, <1>6, <1>7 DEF WroteInTurn

\* An item behind the last one of a list.
LEMMA LinksItem ==
  ASSUME NEW h, NEW first, NEW last, NEW item, Item(h, first), Item(h, last), Item(h, item),
         item \notin {first, last}
  PROVE  Linked(h, SetPrev(SetPrev(SetNext(h, last, item), item, last), first, item),
                first, last, item)
<1> DEFINE h1 == SetNext(h, last, item)
           h2 == SetPrev(h1, item, last)
           k  == SetPrev(h2, first, item)
<1>1. item \in Nat /\ first \in Nat /\ last \in Nat
  BY DEF Item, IsHeap
<1> HIDE DEF h1, h2, k
<1>3. Wrote(h, h1, last) /\ h1.blocks[last] = WithNext(h.blocks[last], item)
  BY <1>1, WritesNext DEF h1
<1>4. Item(h1, item) /\ Item(h1, first)
  BY <1>3 DEF Wrote, Item
<1>5. Wrote(h1, h2, item) /\ h2.blocks[item] = WithPrev(h1.blocks[item], last)
  BY <1>1, <1>4, WritesPrev DEF h2
<1>6. Item(h2, first)
  BY <1>4, <1>5 DEF Wrote, Item
<1>7. Wrote(h2, k, first) /\ k.blocks[first] = WithPrev(h2.blocks[first], item)
  BY <1>1, <1>6, WritesPrev DEF k
<1>8. /\ first \in DOMAIN h.blocks /\ last \in DOMAIN h.blocks
      /\ item \in DOMAIN h.blocks \ {first, last}
  BY DEF Item
<1>9. /\ IsHeap(k) /\ k.sound = h.sound /\ DOMAIN k.blocks = DOMAIN h.blocks
      /\ \A p \in DOMAIN h.blocks \ {first, last, item} : k.blocks[p] = h.blocks[p]
      /\ h1.blocks[item] = h.blocks[item] /\ k.blocks[item] = h2.blocks[item]
      /\ h2.blocks[first] = h1.blocks[first]
      /\ first # last => h1.blocks[first] = h.blocks[first] /\ k.blocks[last] = h1.blocks[last]
  <2>1. WroteInTurn(h, h1, h2, k, first, last, item)
    BY <1>3, <1>5, <1>7, <1>8, WroteThrice
  <2> QED
    BY <2>1 DEF WroteInTurn
<1>10. k.blocks[item] = WithPrev(h.blocks[item], last)
  BY <1>5, <1>9
<1>11. k.blocks[first] = WithPrev(h1.blocks[first], item)
  BY <1>7, <1>9
<1>12. CASE first = last
  <2>1. k.blocks[first] = WithPrev(WithNext(h.blocks[first], item), item)
    BY <1>3, <1>11, <1>12
  <2>2. Linked(h, k, first, last, item)
    BY <1>9, <1>10, <1>12, <2>1 DEF Linked
  <2> QED
    BY <2>2 DEF k, h2, h1
<1>13. CASE first # last
  <2>1. k.blocks[first] = WithPrev(h.blocks[first], item)
    BY <1>9, <1>11, <1>13
  <2>2. k.blocks[last] = WithNext(h.blocks[last], item)
    BY <1>3, <1>9, <1>13
  <2>3. Linked(h, k, first, last, item)
    BY <1>9, <1>10, <1>13, <2>1, <2>2 DEF Linked
  <2> QED
    BY <2>3 DEF k, h2, h1
<1> QED
  BY <1>12, <1>13

\* An item behind others is linked to the last one, of which the first is told.
LEMMA NextItem ==
  ASSUME NEW h, NEW a, NEW item, Item(h, item), item # a,
         NEW first, NEW last, first = h.blocks[a].child, last = h.blocks[first].prev,
         Item(h, first), Item(h, last), item \notin {first, last}
  PROVE  Linked(h, AddItemToArray(h, a, item), first, last, item)
<1> DEFINE h2 == SetPrev(SetNext(h, last, item), item, last)
<1>1. item # NULL /\ first # NULL
  BY DEF Item, IsHeap, NULL
<1>2. AddItemToArray(h, a, item) = AppendItem(h, a, item)
  BY <1>1 DEF AddItemToArray
<1>3. SuffixObject(h, last, item) = h2
  BY DEF SuffixObject, SetPrev, SetNext
<1> HIDE DEF h2
<1>4. AppendItem(h, a, item) = SetPrev(h2, first, item)
  BY <1>3 DEF AppendItem, SetPrev
<1>5. Linked(h, SetPrev(h2, first, item), first, last, item)
  BY LinksItem DEF h2
<1> QED
  BY <1>2, <1>4, <1>5

\* The items that a holds form a list, and none of them was in b.
Chained(b, h, a, items) ==
  LET first == h.blocks[a].child
      last  == h.blocks[first].prev
  IN first # NULL => /\ first \in items \ DOMAIN b.blocks
                     /\ last \in items \ DOMAIN b.blocks
                     /\ h.blocks[last].next = NULL

\* Item a of the tree at root has been filled since heap b.
Filled(b, h, a, root, items, strings) ==
  /\ IsHeap(h) /\ Tree(h, root, items, strings) /\ DOMAIN b.blocks \subseteq DOMAIN h.blocks
  /\ a \in items \cap DOMAIN b.blocks /\ ~h.blocks[a].reference
  /\ h.blocks[a].next = b.blocks[a].next /\ h.blocks[a].prev = b.blocks[a].prev
  /\ \A p \in DOMAIN b.blocks \ {a} : h.blocks[p] = b.blocks[p]
  /\ Chained(b, h, a, items)

\* Two trees that share no block.
Apart(I, T, J, U) == (I \cup T) \cap (J \cup U) = {}

\* k is h with an item hung into a, and the blocks of "new" besides.
Hung(b, h, k, a, root, items, strings, item, new) ==
  /\ Filled(b, k, a, root, items, strings)
  /\ k.sound = h.sound /\ DOMAIN k.blocks = DOMAIN h.blocks \cup new
  /\ \A p \in DOMAIN h.blocks \ items : k.blocks[p] = h.blocks[p]
  /\ k.blocks[item].next = NULL /\ k.blocks[item].child = h.blocks[item].child
  /\ k.blocks[item].reference = h.blocks[item].reference

\* cJSON_AddItemToArray hangs the tree of an item below a.
LEMMA AddsItem ==
  ASSUME NEW b, NEW h, NEW a, NEW root, NEW I, NEW T, Filled(b, h, a, root, I, T),
         NEW item, NEW J, NEW U, Tree(h, item, J, U), Apart(I, T, J, U),
         item \notin DOMAIN b.blocks, h.blocks[item].next = NULL
  PROVE  Hung(b, h, AddItemToArray(h, a, item), a, root, I \cup J, T \cup U, item, {})
<1> DEFINE first == h.blocks[a].child
           last  == h.blocks[first].prev
           k     == AddItemToArray(h, a, item)
<1>1. /\ IsHeap(h) /\ Tree(h, root, I, T) /\ DOMAIN b.blocks \subseteq DOMAIN h.blocks
      /\ a \in I \cap DOMAIN b.blocks /\ ~h.blocks[a].reference
      /\ h.blocks[a].next = b.blocks[a].next /\ h.blocks[a].prev = b.blocks[a].prev
      /\ \A p \in DOMAIN b.blocks \ {a} : h.blocks[p] = b.blocks[p]
  BY DEF Filled
<1>2. first # NULL => /\ first \in I \ DOMAIN b.blocks /\ last \in I \ DOMAIN b.blocks
                      /\ h.blocks[last].next = NULL
  BY DEF Filled, Chained
<1>3. /\ I \cup J \subseteq DOMAIN h.blocks /\ item \in J /\ item \notin I
      /\ \A p \in I \cup J : IsItem(h.blocks[p])
  BY <1>1 DEF Tree, Within, Spanned, Apart
<1>4. item \in Nat \ {NULL} /\ NULL \in Nat /\ NULL \notin DOMAIN h.blocks
  BY <1>1, <1>3 DEF IsHeap, NULL
<1>5. \A it, v, s : IsItem(it) /\ v \in Nat /\ s \in Slots =>
        /\ Owned(WithPrev(it, v), s) = Owned(it, s)
        /\ Owned(WithNext(it, v), s) = IF s = "next" THEN v ELSE Owned(it, s)
        /\ ~it.reference =>
             Owned(WithChild(it, v), s) = IF s = "child" THEN v ELSE Owned(it, s)
  BY PrevWritten, NextWritten, ChildWritten DEF Owned, Slots
<1>6. k = AddItemToArray(h, a, item)
  OBVIOUS
<1> HIDE DEF first, last, k
<1>7. CASE first = NULL
  <2>1. /\ IsHeap(k) /\ k.sound = h.sound /\ DOMAIN k.blocks = DOMAIN h.blocks
        /\ \A p \in DOMAIN h.blocks \ {a, item} : k.blocks[p] = h.blocks[p]
        /\ k.blocks[a] = WithChild(h.blocks[a], item)
        /\ k.blocks[item] = WithNext(WithPrev(h.blocks[item], item), NULL)
    <3>1. Item(h, a) /\ Item(h, item) /\ item # a
      BY <1>1, <1>3 DEF Item
    <3>2. h.blocks[a].child = NULL
      BY <1>7 DEF first
    <3>3. Began(h, k, a, item)
      BY <1>6, <3>1, <3>2, FirstItem
    <3> QED
      BY <3>3 DEF Began
  <2>2. /\ IsItem(k.blocks[a]) /\ k.blocks[a].child = item
        /\ k.blocks[a].next = h.blocks[a].next /\ k.blocks[a].prev = h.blocks[a].prev
        /\ k.blocks[a].reference = h.blocks[a].reference
    BY <1>1, <1>3, <1>4, <2>1, ChildWritten
  <2>3. /\ IsItem(WithPrev(h.blocks[item], item)) /\ IsItem(k.blocks[item])
        /\ k.blocks[item].next = NULL /\ k.blocks[item].prev = item
        /\ k.blocks[item].child = h.blocks[item].child
        /\ k.blocks[item].reference = h.blocks[item].reference
    <3> DEFINE it == WithPrev(h.blocks[item], item)
    <3>1. /\ IsItem(it) /\ it.prev = item /\ it.child = h.blocks[item].child
          /\ it.reference = h.blocks[item].reference
      BY <1>3, <1>4, PrevWritten
    <3> HIDE DEF it
    <3>2. /\ IsItem(WithNext(it, NULL)) /\ WithNext(it, NULL).next = NULL
          /\ WithNext(it, NULL).prev = it.prev /\ WithNext(it, NULL).child = it.child
          /\ WithNext(it, NULL).reference = it.reference
      BY <1>4, <3>1, NextWritten
    <3> QED
      BY <2>1, <3>1, <3>2 DEF it
  <2>4. \A p \in I \cup J : IsItem(k.blocks[p])
    BY <1>3, <2>1, <2>2, <2>3
  <2>5. To(h, item, "next") = NULL /\ To(h, a, "child") = NULL
    BY <1>1, <1>7 DEF To, Owned, first
  <2>6. ASSUME NEW p \in I \cup J, NEW s \in Slots
        PROVE  To(k, p, s) = IF p = a /\ s = "child" THEN item ELSE To(h, p, s)
    <3>1. CASE p = a
      BY <1>1, <1>3, <1>4, <1>5, <2>1, <3>1 DEF To
    <3>2. CASE p = item
      BY <1>1, <1>3, <1>4, <1>5, <2>1, <2>3, <2>5, <3>2 DEF To
    <3>3. CASE p \notin {a, item}
      BY <1>3, <2>1, <3>3 DEF To
    <3> QED
      BY <3>1, <3>2, <3>3
  <2>7. Tree(k, root, I \cup J, T \cup U)
    BY <1>1, <1>4, <2>1, <2>4, <2>5, <2>6, Joined DEF Apart
  <2>8. \A p \in DOMAIN b.blocks \ {a} : k.blocks[p] = b.blocks[p]
    BY <1>1, <2>1
  <2>9. Chained(b, k, a, I \cup J)
    BY <1>3, <2>2, <2>3 DEF Chained
  <2>10. Filled(b, k, a, root, I \cup J, T \cup U)
    BY <1>1, <2>1, <2>2, <2>7, <2>8, <2>9 DEF Filled
  <2> QED
    BY <1>1, <1>3, <1>6, <2>1, <2>3, <2>10 DEF Hung
<1>8. CASE first # NULL
  <2>1. /\ first \in DOMAIN h.blocks \ {item} /\ last \in DOMAIN h.blocks \ {item}
        /\ a \in DOMAIN h.blocks /\ item \in DOMAIN h.blocks \ {a} /\ a \notin {first, last}
    BY <1>1, <1>2, <1>3, <1>8
  <2>2. /\ IsHeap(k) /\ k.sound = h.sound /\ DOMAIN k.blocks = DOMAIN h.blocks
        /\ \A p \in DOMAIN h.blocks \ {first, last, item} : k.blocks[p] = h.blocks[p]
        /\ k.blocks[item] = WithPrev(h.blocks[item], last)
        /\ first # last => k.blocks[last] = WithNext(h.blocks[last], item)
        /\ k.blocks[first] =
             IF first = last THEN WithPrev(WithNext(h.blocks[first], item), item)
             ELSE WithPrev(h.blocks[first], item)
    <3>1. Item(h, first) /\ Item(h, last) /\ Item(h, item) /\ item # a
      BY <1>1, <1>2, <1>3, <1>8 DEF Item
    <3>2. first = h.blocks[a].child /\ last = h.blocks[first].prev
      BY DEF first, last
    <3>3. item \notin {first, last}
      BY <2>1
    <3>4. Linked(h, k, first, last, item)
      BY <1>6, <3>1, <3>2, <3>3, NextItem
    <3> QED
      BY <3>4 DEF Linked
  <2>3. last \in Nat /\ first \in Nat
    BY <1>1, <2>1 DEF IsHeap
  <2>4. /\ IsItem(k.blocks[item]) /\ k.blocks[item].next = NULL
        /\ k.blocks[item].child = h.blocks[item].child
        /\ k.blocks[item].reference = h.blocks[item].reference
    BY <1>3, <2>2, <2>3, PrevWritten
  <2>5. IsItem(h.blocks[first]) /\ IsItem(WithNext(h.blocks[first], item))
    BY <1>2, <1>3, <1>4, <1>8, NextWritten
  <2>6. IsItem(k.blocks[first]) /\ k.blocks[first].prev = item
    BY <1>4, <2>2, <2>5, PrevWritten
  <2>7. first # last => IsItem(k.blocks[last])
    BY <1>2, <1>3, <1>4, <1>8, <2>2, NextWritten
  <2>8. k.blocks[a] = h.blocks[a]
    BY <2>1, <2>2
  <2>9. \A p \in I \cup J : IsItem(k.blocks[p])
    BY <1>3, <2>2, <2>4, <2>6, <2>7
  <2>10. To(h, last, "next") = NULL
    BY <1>2, <1>8 DEF To, Owned
  <2>11. ASSUME NEW p \in I \cup J, NEW s \in Slots
         PROVE  To(k, p, s) = IF p = last /\ s = "next" THEN item ELSE To(h, p, s)
    <3>1. CASE p = item
      BY <1>3, <1>5, <2>1, <2>2, <2>3, <3>1 DEF To
    <3>2. CASE p = first /\ first = last
      BY <1>4, <1>5, <2>2, <2>5, <3>2 DEF To
    <3>3. CASE p = first /\ first # last
      BY <1>4, <1>5, <2>2, <2>5, <3>3 DEF To
    <3>4. CASE p = last /\ first # last
      BY <1>2, <1>3, <1>4, <1>5, <1>8, <2>2, <3>4 DEF To
    <3>5. CASE p \notin {first, last, item}
      BY <1>3, <2>2, <3>5 DEF To
    <3> QED
      BY <3>1, <3>2, <3>3, <3>4, <3>5
  <2>12. Tree(k, root, I \cup J, T \cup U)
    <3>1. last \in I /\ "next" \in {"next", "child"}
      BY <1>2, <1>8
    <3>2. Tree(h, root, I, T) /\ (I \cup T) \cap (J \cup U) = {}
      BY <1>1 DEF Apart
    <3>3. DOMAIN k.blocks = DOMAIN h.blocks /\ NULL \notin DOMAIN h.blocks
      BY <1>4, <2>2
    <3> QED
      BY <2>9, <2>10, <2>11, <3>1, <3>2, <3>3, Joined
  <2>13. ASSUME NEW p \in DOMAIN b.blocks \ {a} PROVE k.blocks[p] = b.blocks[p]
    <3>1. p \in DOMAIN h.blocks /\ h.blocks[p] = b.blocks[p]
      BY <1>1
    <3>2. p \notin {first, last, item}
      BY <1>2, <1>8
    <3> QED
      BY <2>2, <3>1, <3>2
  <2>14. Chained(b, k, a, I \cup J)
    BY <1>2, <1>3, <1>8, <2>4, <2>6, <2>8 DEF Chained, first
  <2>15. Filled(b, k, a, root, I \cup J, T \cup U)
    BY <1>1, <2>2, <2>8, <2>12, <2>13, <2>14 DEF Filled
  <2> QED
    BY <1>2, <1>3, <1>8, <1>6, <2>2, <2>4, <2>15 DEF Hung
<1> QED
  BY <1>7, <1>8

\* A heap that grows elsewhere leaves the part as it is.
LEMMA FilledKept ==
  ASSUME NEW b, NEW h, NEW k, NEW a, NEW root, NEW I, NEW T, Filled(b, h, a, root, I, T),
         IsHeap(k), DOMAIN h.blocks \subseteq DOMAIN k.blocks,
         \A p \in I \cup DOMAIN b.blocks : k.blocks[p] = h.blocks[p]
  PROVE  Filled(b, k, a, root, I, T)
<1>1. Tree(k, root, I, T)
  BY TreeKept DEF Filled
<1>2. Chained(b, k, a, I)
  BY DEF Filled, Chained
<1> QED
  BY <1>1, <1>2 DEF Filled

\* An item that points to no other is a tree, with the text it owns.
LEMMA Single ==
  ASSUME NEW h, NEW p \in DOMAIN h.blocks, IsItem(h.blocks[p]),
         \A s \in {"next", "child", "string"} : To(h, p, s) = NULL,
         NEW v, v = To(h, p, "valuestring"), v \in (DOMAIN h.blocks \ {p}) \cup {NULL},
         NULL \notin DOMAIN h.blocks
  PROVE  Tree(h, p, {p}, {v} \ {NULL})
<1>1. Within(h, {p}, {v} \ {NULL})
  BY DEF Within
<1>2. OwnedOnce(h, p, {p})
  BY DEF OwnedOnce, Slots
<1>3. Spanned(h, p, {p})
  BY DEF Spanned
<1>4. StringsOwned(h, {p}, {v} \ {NULL})
  BY DEF StringsOwned, Slots
<1> QED
  BY <1>1, <1>2, <1>3, <1>4 DEF Tree

\* A tree, and an item to hang it by that has no key yet.
Loose(h, item, items, strings) ==
  /\ Tree(h, item, items, strings)
  /\ h.blocks[item].next = NULL /\ h.blocks[item].string = NULL

\* What an operation that creates an item answers.
Makes(g, made, items, strings) ==
  /\ Grown(g, made.heap, items \cup strings)
  /\ made.item # NULL /\ Loose(made.heap, made.item, items, strings)

\* A new item is such a tree.
LEMMA NewItemMakes ==
  ASSUME NEW h, IsHeap(h), NEW it, IsItem(it), it.next = NULL, it.string = NULL,
         it.reference \/ (it.child = NULL /\ it.valuestring = NULL)
  PROVE  /\ Makes(h, NewItem(h, it), {Fresh(h)}, {})
         /\ NewItem(h, it).heap.blocks[Fresh(h)] = it /\ NewItem(h, it).item = Fresh(h)
<1> DEFINE k == Allocate(h, it)
           p == Fresh(h)
<1>1. Grown(h, k, {p}) /\ k.blocks[p] = it
  BY Allocated
<1>2. p \in Nat \ {NULL} /\ p \notin DOMAIN h.blocks
  BY FreshIs
<1>3. NewItem(h, it).heap = k /\ NewItem(h, it).item = p
  BY DEF NewItem
<1> HIDE DEF k, p
<1>4. p \in DOMAIN k.blocks /\ NULL \notin DOMAIN k.blocks
  BY <1>1 DEF Grown, IsHeap, NULL
<1>5. \A s \in Slots : To(k, p, s) = NULL
  BY <1>1 DEF To, Owned, IsItem, Slots
<1>6. Tree(k, p, {p}, {})
  <2>1. \A s \in {"next", "child", "string"} : To(k, p, s) = NULL
    BY <1>5 DEF Slots
  <2>2. To(k, p, "valuestring") = NULL
    BY <1>5 DEF Slots
  <2>3. Tree(k, p, {p}, {NULL} \ {NULL})
    BY <1>1, <1>4, <2>1, <2>2, Single
  <2> QED
    BY <2>3
<1> QED
  BY <1>1, <1>2, <1>3, <1>6 DEF Makes, Loose, p

\* cJSON_Create... answers such a tree, or nothing.
LEMMA Created ==
  ASSUME NEW h, IsHeap(h), NEW value, NEW made, made = Create(h, value)
  PROVE  \/ made.heap = h /\ made.item = NULL
         \/ \E items, strings : Makes(h, made, items, strings)
<1>1. CASE made = CreateBool(h, value.kind = "true")
  <2> DEFINE it == [EmptyItem EXCEPT !.type = IF value.kind = "true" THEN "True" ELSE "False"]
  <2>1. made = NewItem(h, it)
    BY <1>1 DEF CreateBool
  <2>2. /\ IsItem(it) /\ it.next = NULL /\ it.string = NULL /\ it.child = NULL
        /\ it.valuestring = NULL
    BY DEF EmptyItem, IsItem, NULL
  <2> HIDE DEF it
  <2>3. Makes(h, NewItem(h, it), {Fresh(h)}, {})
    BY <2>2, NewItemMakes
  <2> QED
    BY <2>1, <2>3
<1>2. CASE made = CreateNumber(h, value.number)
  <2> DEFINE it == [EmptyItem EXCEPT !.type = "Number", !.valuedouble = value.number,
                                     !.valueint = Saturate(value.number)]
  <2>1. made = NewItem(h, it)
    BY <1>2 DEF CreateNumber
  <2>2. /\ IsItem(it) /\ it.next = NULL /\ it.string = NULL /\ it.child = NULL
        /\ it.valuestring = NULL
    BY DEF EmptyItem, IsItem, NULL
  <2> HIDE DEF it
  <2>3. Makes(h, NewItem(h, it), {Fresh(h)}, {})
    BY <2>2, NewItemMakes
  <2> QED
    BY <2>1, <2>3
<1>3. CASE made = CreateString(h, value) /\ value = Absent
  BY <1>3 DEF CreateString
<1>4. CASE made = CreateString(h, value) /\ value # Absent
  <2> DEFINE s == Fresh(h)
             h1 == Allocate(h, [text |-> value.text])
             it == [EmptyItem EXCEPT !.type = "String", !.valuestring = s]
             p == Fresh(h1)
             k == Allocate(h1, it)
  <2>1. made.heap = k /\ made.item = p
    BY <1>4 DEF CreateString, Strdup, NewItem
  <2>2. Grown(h, h1, {s}) /\ IsHeap(h1) /\ s \in Nat \ {NULL} /\ s \notin DOMAIN h.blocks
    BY Allocated, FreshIs DEF Grown
  <2>3. /\ IsItem(it) /\ it.next = NULL /\ it.string = NULL /\ it.child = NULL
        /\ it.valuestring = s /\ ~it.reference
    BY <2>2 DEF EmptyItem, IsItem, NULL
  <2> HIDE DEF s, h1, it
  <2>4. Grown(h1, k, {p}) /\ k.blocks[p] = it /\ p \in Nat \ {NULL} /\ p \notin DOMAIN h1.blocks
    BY <2>2, Allocated, FreshIs
  <2> HIDE DEF p, k
  <2>5. Grown(h, k, {p} \cup {s})
    BY <2>2, <2>4 DEF Grown
  <2>6. p \in DOMAIN k.blocks /\ s \in DOMAIN k.blocks \ {p} /\ NULL \notin DOMAIN k.blocks
    BY <2>2, <2>4 DEF Grown, IsHeap, NULL
  <2>7. /\ To(k, p, "valuestring") = s
        /\ \A slot \in {"next", "child", "string"} : To(k, p, slot) = NULL
    BY <2>3, <2>4 DEF To, Owned
  <2>8. Tree(k, p, {p}, {s} \ {NULL}) /\ {s} \ {NULL} = {s}
    BY <2>2, <2>3, <2>4, <2>6, <2>7, Single
  <2>9. Makes(h, made, {p}, {s})
    BY <2>1, <2>3, <2>4, <2>5, <2>8 DEF Makes, Loose
  <2> QED
    BY <2>9
<1> QED
  BY <1>1, <1>2, <1>3, <1>4 DEF Create

\* The item gets its key.
Named(h, item, key) == SetKey(Allocate(h, [text |-> key]), item, Fresh(h))

\* The tree of an item grows by its key.
LEMMA Keyed ==
  ASSUME NEW h, IsHeap(h), NEW item, NEW J, NEW U, Loose(h, item, J, U), NEW key,
         NEW s, s = Fresh(h),
         NEW k, k = Named(h, item, key)
  PROVE  /\ IsHeap(k) /\ k.sound = h.sound /\ s \notin DOMAIN h.blocks
         /\ DOMAIN k.blocks = DOMAIN h.blocks \cup {s}
         /\ \A p \in DOMAIN h.blocks \ {item} : k.blocks[p] = h.blocks[p]
         /\ k.blocks[item] = WithKey(h.blocks[item], s)
         /\ Tree(k, item, J, U \cup {s})
<1> DEFINE h1 == Allocate(h, [text |-> key])
<1>1. Grown(h, h1, {s}) /\ s \in Nat \ {NULL} /\ s \notin DOMAIN h.blocks
  BY Allocated, FreshIs
<1> HIDE DEF h1
<1>2. item \in J /\ J \cup U \subseteq DOMAIN h.blocks /\ IsItem(h.blocks[item])
      /\ NULL \notin DOMAIN h.blocks /\ J \cap U = {}
  BY DEF Loose, Tree, Within, Spanned, IsHeap
<1>3. Item(h1, item) /\ h1.blocks[item] = h.blocks[item]
  BY <1>1, <1>2 DEF Grown, Item
<1>4. Wrote(h1, k, item) /\ k.blocks[item] = WithKey(h1.blocks[item], s)
  BY <1>1, <1>2, <1>3, WritesKey DEF h1, Named
<1>5. /\ IsHeap(k) /\ k.sound = h.sound
      /\ DOMAIN k.blocks = DOMAIN h.blocks \cup {s}
      /\ \A p \in DOMAIN h.blocks \ {item} : k.blocks[p] = h.blocks[p]
      /\ k.blocks[item] = WithKey(h.blocks[item], s)
  BY <1>1, <1>3, <1>4 DEF Grown, Wrote
<1>6. IsItem(k.blocks[item])
  BY <1>4 DEF Wrote
<1>7. To(h, item, "string") = NULL
  BY DEF Loose, To, Owned
<1>8. ASSUME NEW p \in J, NEW t \in Slots
      PROVE  To(k, p, t) = IF p = item /\ t = "string" THEN s ELSE To(h, p, t)
  <2>1. CASE p = item
    <3>1. /\ WithKey(h.blocks[item], s).string = s
          /\ WithKey(h.blocks[item], s).next = h.blocks[item].next
          /\ WithKey(h.blocks[item], s).child = h.blocks[item].child
          /\ WithKey(h.blocks[item], s).valuestring = h.blocks[item].valuestring
          /\ WithKey(h.blocks[item], s).reference = h.blocks[item].reference
      BY <1>1, <1>2, KeyWritten
    <3> QED
      BY <1>5, <2>1, <3>1 DEF To, Owned, Slots
  <2>2. CASE p # item
    BY <1>2, <1>5, <2>2 DEF To
  <2> QED
    BY <2>1, <2>2
<1>9. ASSUME NEW p \in J, NEW t \in Slots
      PROVE  To(h, p, t) \in DOMAIN h.blocks \cup {NULL}
  BY <1>2 DEF Loose, Tree, Within, Slots
<1>10. Within(k, J, U \cup {s})
  <2>1. \A p \in J : IsItem(k.blocks[p])
    BY <1>2, <1>5, <1>6 DEF Loose, Tree, Within
  <2>2. ASSUME NEW p \in J
        PROVE  /\ To(k, p, "next") \in J \cup {NULL} /\ To(k, p, "child") \in J \cup {NULL}
               /\ To(k, p, "string") \in U \cup {s, NULL}
               /\ To(k, p, "valuestring") \in U \cup {NULL}
    BY <1>8, <2>2 DEF Loose, Tree, Within, Slots
  <2>3. J \cup (U \cup {s}) \subseteq DOMAIN k.blocks /\ J \cap (U \cup {s}) = {}
    BY <1>1, <1>2, <1>5
  <2> QED
    BY <2>1, <2>2, <2>3 DEF Within
<1>11. OwnedOnce(k, item, J)
  <2>1. OwnedOnce(h, item, J)
    BY DEF Loose, Tree
  <2>2. ASSUME NEW p \in J, NEW q \in J, NEW t \in Slots, NEW u \in Slots,
               To(k, p, t) = To(k, q, u), To(k, p, t) # NULL
        PROVE  p = q /\ t = u
    <3>1. CASE To(k, p, t) = s
      <4>1. \A x \in J : \A y \in Slots : To(k, x, y) = s => x = item /\ y = "string"
        BY <1>1, <1>8, <1>9
      <4> QED
        BY <2>2, <3>1, <4>1
    <3>2. CASE To(k, p, t) # s
      <4>1. To(k, p, t) = To(h, p, t) /\ To(k, q, u) = To(h, q, u)
        BY <1>8, <2>2, <3>2
      <4>2. To(h, p, t) = To(h, q, u)
        BY <2>2, <4>1
      <4>3. To(h, p, t) # NULL
        BY <2>2, <4>1
      <4>4. p \in J /\ q \in J /\ t \in Slots /\ u \in Slots
        BY <2>2
      <4> QED
        BY <2>1, <4>2, <4>3, <4>4, Once
    <3> QED
      BY <3>1, <3>2
  <2>3. ASSUME NEW p \in J, NEW t \in Slots PROVE To(k, p, t) # item
    BY <1>1, <1>2, <1>8, <2>1 DEF OwnedOnce
  <2> QED
    BY <2>2, <2>3 DEF OwnedOnce
<1>12. Spanned(k, item, J)
  <2>1. ASSUME NEW R, item \in R, Covered(k, J, R) PROVE J \subseteq R
    <3>1. Covered(h, J, R)
      BY <1>8, <2>1 DEF Covered, Slots
    <3> QED
      BY <2>1, <3>1 DEF Loose, Tree, Spanned
  <2> QED
    BY <1>2, <2>1 DEF Spanned
<1>13. StringsOwned(k, J, U \cup {s})
  <2>1. ASSUME NEW p \in U PROVE \E q \in J, t \in Slots : To(k, q, t) = p
    <3>1. PICK q \in J, t \in Slots : To(h, q, t) = p
      BY <2>1 DEF Loose, Tree, StringsOwned
    <3>2. p # NULL
      BY <1>2
    <3> QED
      BY <1>7, <1>8, <3>1, <3>2
  <2>2. To(k, item, "string") = s /\ "string" \in Slots
    BY <1>2, <1>8 DEF Slots
  <2> QED
    BY <1>2, <2>1, <2>2 DEF StringsOwned
<1>14. Tree(k, item, J, U \cup {s})
  BY <1>10, <1>11, <1>12, <1>13 DEF Tree
<1> QED
  BY <1>1, <1>5, <1>14

\* free(NULL).
LEMMA FreeNothing ==
  ASSUME NEW h, NULL \notin DOMAIN h.blocks
  PROVE  Free(h, NULL) = h
  BY DEF Free, NULL

\* cJSON_AddItemToObject names the item and hangs it below a.
LEMMA AddsToObject ==
  ASSUME NEW b, NEW h, NEW a, NEW root, NEW I, NEW T, Filled(b, h, a, root, I, T),
         NEW item, NEW J, NEW U, Loose(h, item, J, U), Apart(I, T, J, U),
         item \notin DOMAIN b.blocks, item # NULL, NEW key
  PROVE  /\ Fresh(h) \notin DOMAIN h.blocks
         /\ Hung(b, h, AddItemToObject(h, a, key, item), a, root,
                 I \cup J, T \cup U \cup {Fresh(h)}, item, {Fresh(h)})
<1> DEFINE s == Fresh(h)
           k == AddItemToObject(h, a, key, item)
           h2 == Named(h, item, key)
<1>1. IsHeap(h) /\ item \in J /\ J \subseteq DOMAIN h.blocks /\ IsItem(h.blocks[item])
      /\ I \subseteq DOMAIN h.blocks
  BY DEF Filled, Loose, Tree, Within, Spanned
<1>2. k = AddItemToArray(h2, a, item)
  <2> DEFINE copy == Strdup(h, key)
  <2>1. copy.heap = Allocate(h, [text |-> key]) /\ copy.string = s
    BY DEF Strdup
  <2>2. h.blocks[item].string = NULL
    BY DEF Loose
  <2> HIDE DEF copy
  <2>3. k = AddItemToArray(Free([copy.heap EXCEPT !.blocks[item].string = copy.string], NULL),
                           a, item)
    BY <2>2 DEF AddItemToObject, copy
  <2>4. [copy.heap EXCEPT !.blocks[item].string = copy.string] = h2
    BY <2>1 DEF SetKey, Named
  <2>5. Free(h2, NULL) = h2
    <3>1. IsHeap(h2)
      BY <1>1, Keyed
    <3> HIDE DEF h2
    <3> QED
      BY <3>1, FreeNothing DEF IsHeap
  <2> HIDE DEF h2
  <2> QED
    BY <2>3, <2>4, <2>5
<1> HIDE DEF h2
<1>3. /\ IsHeap(h2) /\ h2.sound = h.sound /\ s \notin DOMAIN h.blocks
      /\ DOMAIN h2.blocks = DOMAIN h.blocks \cup {s}
      /\ \A p \in DOMAIN h.blocks \ {item} : h2.blocks[p] = h.blocks[p]
      /\ h2.blocks[item] = WithKey(h.blocks[item], s)
      /\ Tree(h2, item, J, U \cup {s})
  BY <1>1, Keyed DEF h2
<1>4. s \in Nat
  BY <1>1, FreshIs
<1>5. /\ h2.blocks[item].next = NULL /\ h2.blocks[item].child = h.blocks[item].child
      /\ h2.blocks[item].reference = h.blocks[item].reference
  BY <1>1, <1>3, <1>4, KeyWritten DEF Loose
<1>6. Filled(b, h2, a, root, I, T)
  <2>1. \A p \in I \cup DOMAIN b.blocks : h2.blocks[p] = h.blocks[p]
    BY <1>1, <1>3 DEF Filled, Apart
  <2> QED
    BY <1>3, <2>1, FilledKept
<1>7. (I \cup T) \cap (J \cup (U \cup {s})) = {}
  BY <1>3 DEF Filled, Tree, Within, Apart
<1> DEFINE V == U \cup {s}
<1> HIDE DEF V
<1>8. Hung(b, h2, k, a, root, I \cup J, T \cup V, item, {})
  <2>1. Tree(h2, item, J, V) /\ Apart(I, T, J, V) /\ h2.blocks[item].next = NULL
    BY <1>3, <1>5, <1>7 DEF V, Loose, Apart
  <2>2. Hung(b, h2, AddItemToArray(h2, a, item), a, root, I \cup J, T \cup V, item, {})
    BY <1>6, <2>1, AddsItem
  <2> QED
    BY <1>2, <2>2
<1>9. T \cup V = T \cup U \cup {s}
  BY DEF V
<1>10. Hung(b, h, k, a, root, I \cup J, T \cup V, item, {s})
  BY <1>1, <1>3, <1>5, <1>8 DEF Hung
<1> QED
  BY <1>3, <1>9, <1>10

\* The message is all that h holds besides g, and a part of it is being filled.
Building(g, b, h, a, root, items, strings) ==
  Filled(b, h, a, root, items, strings) /\ Grown(g, h, items \cup strings)

\* The message has grown, and still holds the items.
Grows(g, b, h, a, root, items) ==
  \E more, strings : Building(g, b, h, a, root, more, strings) /\ items \subseteq more

\* An item with no child is a part to fill.
LEMMA MemberOpened ==
  ASSUME NEW h, IsHeap(h), NEW root, NEW I, NEW T, Tree(h, root, I, T), NEW a \in I,
         h.blocks[a].child = NULL, ~h.blocks[a].reference
  PROVE  Filled(h, h, a, root, I, T)
<1>1. a \in DOMAIN h.blocks
  BY DEF Tree, Within
<1> QED
  BY <1>1 DEF Filled, Chained

\* cJSON_CreateObject and cJSON_CreateArray answer an item to fill.
LEMMA ObjectMakes ==
  ASSUME NEW h, IsHeap(h), NEW made, made \in {CreateObject(h), CreateArray(h)}
  PROVE  /\ Makes(h, made, {made.item}, {})
         /\ made.heap.blocks[made.item].child = NULL
         /\ ~made.heap.blocks[made.item].reference
<1>1. PICK type : made = NewItem(h, [EmptyItem EXCEPT !.type = type])
  BY DEF CreateObject, CreateArray
<1> DEFINE it == [EmptyItem EXCEPT !.type = type]
<1>2. /\ IsItem(it) /\ it.next = NULL /\ it.string = NULL /\ it.child = NULL
      /\ it.valuestring = NULL /\ ~it.reference
  BY DEF EmptyItem, IsItem, NULL
<1>3. made = NewItem(h, it)
  BY <1>1
<1> HIDE DEF it
<1>4. /\ Makes(h, NewItem(h, it), {Fresh(h)}, {})
      /\ NewItem(h, it).heap.blocks[Fresh(h)] = it /\ NewItem(h, it).item = Fresh(h)
  BY <1>2, NewItemMakes
<1> QED
  BY <1>2, <1>3, <1>4

\* An item that is created is added to the part that is being filled.
LEMMA Adds ==
  ASSUME NEW g, NEW b, NEW h, NEW a, NEW root, NEW I, NEW T, Building(g, b, h, a, root, I, T),
         NEW made, NEW J, NEW U, Makes(h, made, J, U), NEW key
  PROVE  \E strings :
           /\ Building(g, b, AddItemToObject(made.heap, a, key, made.item), a, root,
                       I \cup J, strings)
           /\ Hung(b, made.heap, AddItemToObject(made.heap, a, key, made.item), a, root,
                   I \cup J, strings, made.item, {Fresh(made.heap)})
<1> DEFINE h1 == made.heap
           item == made.item
           s == Fresh(h1)
           k == AddItemToObject(h1, a, key, item)
           V == T \cup U \cup {s}
<1>1. Filled(b, h, a, root, I, T) /\ Grown(g, h, I \cup T) /\ IsHeap(h)
  BY DEF Building, Grown
<1>2. Grown(h, h1, J \cup U) /\ item # NULL /\ Loose(h1, item, J, U) /\ IsHeap(h1) /\ item \in J
  BY DEF Makes, Grown, Loose, Tree, Spanned
<1> HIDE DEF h1, item, k
<1>3. I \cup T \subseteq DOMAIN h.blocks /\ DOMAIN b.blocks \subseteq DOMAIN h.blocks
  BY <1>1 DEF Filled, Tree, Within
<1>4. Apart(I, T, J, U) /\ item \notin DOMAIN b.blocks
  BY <1>2, <1>3 DEF Apart, Grown
<1>5. Filled(b, h1, a, root, I, T)
  <2>1. \A p \in I \cup DOMAIN b.blocks : h1.blocks[p] = h.blocks[p]
    BY <1>2, <1>3 DEF Grown
  <2>2. DOMAIN h.blocks \subseteq DOMAIN h1.blocks
    BY <1>2 DEF Grown
  <2> QED
    BY <1>1, <1>2, <2>1, <2>2, FilledKept
<1>6. s \notin DOMAIN h1.blocks /\ Hung(b, h1, k, a, root, I \cup J, V, item, {s})
  BY <1>2, <1>4, <1>5, AddsToObject DEF k
<1> HIDE DEF s
<1>7. Grown(g, k, (I \cup J) \cup V)
  <2>1. DOMAIN h1.blocks = DOMAIN g.blocks \cup (I \cup T) \cup (J \cup U)
    BY <1>1, <1>2 DEF Grown
  <2>2. DOMAIN g.blocks \cap (I \cup T \cup J \cup U) = {}
    BY <1>1, <1>2 DEF Grown
  <2>3. \A p \in DOMAIN g.blocks : k.blocks[p] = g.blocks[p]
    <3>1. \A p \in DOMAIN g.blocks : h1.blocks[p] = g.blocks[p]
      BY <1>1, <1>2 DEF Grown
    <3> QED
      BY <1>6, <2>1, <2>2, <3>1 DEF Hung
  <2>4. IsHeap(k) /\ k.sound = g.sound
    BY <1>1, <1>2, <1>6 DEF Grown, Filled, Hung
  <2>5. DOMAIN k.blocks = DOMAIN g.blocks \cup ((I \cup J) \cup V)
    BY <1>6, <2>1 DEF Hung, V
  <2>6. DOMAIN g.blocks \cap ((I \cup J) \cup V) = {}
    BY <1>6, <2>1, <2>2 DEF V
  <2> QED
    BY <2>3, <2>4, <2>5, <2>6 DEF Grown
<1> QED
  BY <1>6, <1>7 DEF Building, Hung, h1, item, s, k

\* A field grows the message, or is left out.
LEMMA AddsField ==
  ASSUME NEW g, NEW b, NEW h, NEW a, NEW root, NEW I, NEW T, Building(g, b, h, a, root, I, T),
         NEW field
  PROVE  Grows(g, b, AddField(h, a, field), a, root, I)
<1> DEFINE made == Create(h, field.value)
           k == AddField(h, a, field)
<1>1. IsHeap(h)
  BY DEF Building, Grown
<1>2. \/ made.heap = h /\ made.item = NULL
      \/ \E items, strings : Makes(h, made, items, strings)
  BY <1>1, Created
<1>3. k = AddItemToObject(made.heap, a, field.key, made.item)
  BY DEF AddField
<1> HIDE DEF made, k
<1>4. CASE made.heap = h /\ made.item = NULL
  <2>1. k = h
    BY <1>3, <1>4 DEF AddItemToObject
  <2> QED
    BY <2>1 DEF Grows, k
<1>5. CASE \E items, strings : Makes(h, made, items, strings)
  <2>1. PICK items, strings : Makes(h, made, items, strings)
    BY <1>5
  <2>2. \E U : Building(g, b, k, a, root, I \cup items, U)
    BY <1>3, <2>1, Adds
  <2> QED
    BY <2>2 DEF Grows, k
<1> QED
  BY <1>2, <1>4, <1>5

\* So does a reference, which owns nothing of what it shares.
LEMMA AddsReference ==
  ASSUME NEW g, NEW b, NEW h, NEW a, NEW root, NEW I, NEW T, Building(g, b, h, a, root, I, T),
         NEW item, item # NULL => item \in DOMAIN g.blocks /\ IsItem(g.blocks[item]),
         NEW key
  PROVE  Grows(g, b, AddItemReferenceToObject(h, a, key, item), a, root, I)
<1> DEFINE made == CreateReference(h, item)
           k == AddItemReferenceToObject(h, a, key, item)
<1>1. IsHeap(h)
  BY DEF Building, Grown
<1>2. k = AddItemToObject(made.heap, a, key, made.item)
  BY DEF AddItemReferenceToObject
<1>3. CASE item = NULL
  <2>1. k = h
    BY <1>2, <1>3 DEF AddItemToObject, CreateReference
  <2> HIDE DEF k
  <2> QED
    BY <2>1 DEF Grows, k
<1>4. CASE item # NULL
  <2> DEFINE it == Reference(h, item)
  <2>1. h.blocks[item] = g.blocks[item] /\ IsItem(h.blocks[item])
    BY <1>4 DEF Building, Grown
  <2>2. IsItem(it) /\ it.next = NULL /\ it.string = NULL /\ it.reference
    BY <2>1 DEF Reference, IsItem, NULL
  <2>3. made = NewItem(h, it)
    BY <1>4 DEF CreateReference
  <2> HIDE DEF it, made, k
  <2>4. Makes(h, made, {Fresh(h)}, {})
    BY <1>1, <2>2, <2>3, NewItemMakes
  <2>5. \E U : Building(g, b, k, a, root, I \cup {Fresh(h)}, U)
    BY <1>2, <2>4, Adds
  <2> QED
    BY <2>5 DEF Grows, k
<1> QED
  BY <1>3, <1>4

\* Induction over the numbers, for a set of them.
LEMMA Inductive ==
  ASSUME NEW P, 0 \in P, \A n \in Nat : n \in P => n + 1 \in P
  PROVE  Nat \subseteq P
<1> SUFFICES ASSUME Nat \ P # {} PROVE FALSE
  OBVIOUS
<1>1. PICK x \in Nat \ P : \A y \in Nat \ P : ~(<<y, x>> \in OpToRel(<, Nat))
  <2>1. IsWellFoundedOn(OpToRel(<, Nat), Nat)
    BY NatLessThanWellFounded
  <2>2. Nat \ P \subseteq Nat
    OBVIOUS
  <2> QED
    BY <2>1, <2>2, WFMin, Zenon
<1>2. x - 1 \in Nat /\ x - 1 < x /\ (x - 1) + 1 = x
  OBVIOUS
<1>3. <<x - 1, x>> \in OpToRel(<, Nat)
  BY <1>2 DEF OpToRel
<1> QED
  BY <1>1, <1>2, <1>3

\* A recursive function over the first fields exists.
IsAdding(h, a, fields, n, added) ==
  added = [m \in 0 .. n |-> IF m = 0 THEN h ELSE AddField(added[m - 1], a, fields[m])]

\* So do any number of fields.
LEMMA AddsFields ==
  ASSUME NEW g, NEW b, NEW h, NEW a, NEW root, NEW I, NEW T, Building(g, b, h, a, root, I, T),
         NEW fields, Len(fields) \in Nat
  PROVE  Grows(g, b, AddFields(h, a, fields), a, root, I)
<1> DEFINE k == AddFields(h, a, fields)
<1> DEFINE P == {n \in Nat : \E added : IsAdding(h, a, fields, n, added)}
<1>1. 0 \in P
  <2>1. IsAdding(h, a, fields, 0, [m \in 0 .. 0 |-> h])
    BY DEF IsAdding
  <2> QED
    BY <2>1
<1>2. ASSUME NEW n \in Nat, n \in P PROVE n + 1 \in P
  <2>1. PICK added : IsAdding(h, a, fields, n, added)
    BY <1>2
  <2> DEFINE next == [m \in 0 .. n + 1 |->
                        IF m = n + 1 THEN AddField(added[n], a, fields[n + 1]) ELSE added[m]]
  <2>2. IsAdding(h, a, fields, n + 1, next)
    BY <2>1 DEF IsAdding
  <2> QED
    BY <2>2
<1> HIDE DEF P
<1>3. Len(fields) \in P
  BY <1>1, <1>2, Inductive
<1>4. PICK added : IsAdding(h, a, fields, Len(fields), added) /\ k = added[Len(fields)]
  <2> DEFINE all == CHOOSE added : IsAdding(h, a, fields, Len(fields), added)
  <2>1. IsAdding(h, a, fields, Len(fields), all)
    BY <1>3 DEF P
  <2>2. k = all[Len(fields)]
    BY DEF AddFields, IsAdding
  <2> QED
    BY <2>1, <2>2
<1> DEFINE Q == {n \in Nat : n <= Len(fields) =>
                   Grows(g, b, added[n], a, root, I)}
<1>5. 0 \in Q
  BY <1>4 DEF IsAdding, Grows
<1>6. ASSUME NEW n \in Nat, n \in Q, n + 1 <= Len(fields)
      PROVE  Grows(g, b, added[n + 1], a, root, I)
  <2>1. PICK J, U : Building(g, b, added[n], a, root, J, U) /\ I \subseteq J
    BY <1>6 DEF Grows
  <2>2. added[n + 1] = AddField(added[n], a, fields[n + 1])
    BY <1>4, <1>6 DEF IsAdding
  <2>3. Grows(g, b, added[n + 1], a, root, J)
    BY <2>1, <2>2, AddsField
  <2> QED
    BY <2>1, <2>3 DEF Grows
<1> HIDE DEF Q
<1>7. \A n \in Nat : n \in Q => n + 1 \in Q
  <2> SUFFICES ASSUME NEW n \in Nat, n \in Q PROVE n + 1 \in Q
    OBVIOUS
  <2>1. n + 1 \in Nat
    OBVIOUS
  <2>2. n + 1 <= Len(fields) => n <= Len(fields)
    OBVIOUS
  <2> QED
    BY <1>6, <2>1, <2>2 DEF Q
<1>8. Len(fields) \in Q
  BY <1>5, <1>7, Inductive
<1> QED
  BY <1>4, <1>8 DEF Q

\* What is built below an item of the part is built in the part.
LEMMA FilledBelow ==
  ASSUME NEW b, NEW h, NEW k, NEW a, NEW p, NEW root, NEW I, NEW T, NEW J, NEW U,
         Filled(b, h, a, root, I, T), Filled(h, k, p, root, J, U), I \subseteq J,
         p \notin DOMAIN b.blocks
  PROVE  Filled(b, k, a, root, J, U)
<1>1. p # a /\ a \in DOMAIN h.blocks /\ k.blocks[a] = h.blocks[a]
  BY DEF Filled
<1>2. I \subseteq DOMAIN h.blocks
  BY DEF Filled, Tree, Within
<1>5. ASSUME NEW q \in DOMAIN h.blocks
      PROVE  k.blocks[q].next = h.blocks[q].next /\ k.blocks[q].prev = h.blocks[q].prev
  <2>1. CASE q = p
    BY <2>1 DEF Filled
  <2>2. CASE q # p
    BY <1>5, <2>2 DEF Filled
  <2> QED
    BY <2>1, <2>2
<1>3. Chained(b, k, a, J)
  <2>1. Chained(b, h, a, I)
    BY DEF Filled
  <2> QED
    BY <1>1, <1>2, <1>5, <2>1 DEF Chained
<1>4. \A q \in DOMAIN b.blocks \ {a} : k.blocks[q] = b.blocks[q]
  BY DEF Filled
<1> QED
  BY <1>1, <1>3, <1>4 DEF Filled

\* A recursive function over numbers and sets of items exists.
Reach(h, m, rest) ==
  [items \in SUBSET DOMAIN h.blocks |->
     LET all == items \cup Onward(h, items)
     IN IF m = 0 \/ all = items THEN items ELSE rest[all]]

IsReaching(h, n, from) == from = [m \in 0 .. n |-> Reach(h, m, from[m - 1])]

\* Reached is what the last of these functions is at the item.
LEMMA ReachedSteps ==
  ASSUME NEW h, NEW item, Cardinality(DOMAIN h.blocks) \in Nat
  PROVE  \E from : /\ IsReaching(h, Cardinality(DOMAIN h.blocks), from)
                   /\ Reached(h, item) =
                        from[Cardinality(DOMAIN h.blocks)][{item} \cap DOMAIN h.blocks]
<1> DEFINE size == Cardinality(DOMAIN h.blocks)
           P == {n \in Nat : \E from : IsReaching(h, n, from)}
<1>1. 0 \in P
  <2> DEFINE first == [m \in 0 .. 0 |-> [items \in SUBSET DOMAIN h.blocks |-> items]]
  <2>1. \A m \in 0 .. 0 : first[m] = Reach(h, m, first[m - 1])
    BY DEF Reach
  <2>2. IsReaching(h, 0, first)
    BY <2>1 DEF IsReaching
  <2> QED
    BY <2>2
<1>2. ASSUME NEW n \in Nat, n \in P PROVE n + 1 \in P
  <2>1. PICK from : IsReaching(h, n, from)
    BY <1>2
  <2> DEFINE next == [m \in 0 .. n + 1 |-> IF m = n + 1 THEN Reach(h, m, from[n]) ELSE from[m]]
  <2>2. \A m \in 0 .. n : from[m] = Reach(h, m, from[m - 1])
    BY <2>1 DEF IsReaching
  <2>3. ASSUME NEW m \in 0 .. n + 1 PROVE next[m] = Reach(h, m, next[m - 1])
    <3>1. CASE m = n + 1
      <4>1. next[m] = Reach(h, m, from[n]) /\ m - 1 = n /\ n \in 0 .. n + 1 /\ n # n + 1
        BY <3>1
      <4>2. next[n] = from[n]
        BY <4>1
      <4> QED
        BY <4>1, <4>2
    <3>2. CASE m = 0
      <4>1. next[m] = Reach(h, 0, from[m - 1])
        BY <2>2, <3>2
      <4>2. Reach(h, 0, from[m - 1]) = Reach(h, 0, next[m - 1])
        BY DEF Reach
      <4> QED
        BY <3>2, <4>1, <4>2
    <3>3. CASE m \in 1 .. n
      <4>1. next[m] = from[m] /\ m - 1 \in 0 .. n + 1 /\ m - 1 # n + 1 /\ m \in 0 .. n
        BY <3>3
      <4>2. next[m - 1] = from[m - 1]
        BY <4>1
      <4> QED
        BY <2>2, <4>1, <4>2
    <3> QED
      BY <3>1, <3>2, <3>3
  <2> DEFINE same == [m \in 0 .. n + 1 |-> Reach(h, m, next[m - 1])]
  <2>4. next = same
    BY <2>3
  <2> HIDE DEF next
  <2>5. IsReaching(h, n + 1, next)
    BY <2>4 DEF IsReaching
  <2> QED
    BY <2>5
<1> HIDE DEF P
<1>3. size \in P
  BY <1>1, <1>2, Inductive
<1> DEFINE all == CHOOSE from : IsReaching(h, size, from)
<1>4. IsReaching(h, size, all)
  BY <1>3 DEF P
<1>5. Reached(h, item) = all[size][{item} \cap DOMAIN h.blocks]
  BY DEF Reached, IsReaching, Reach
<1> QED
  BY <1>4, <1>5

\* cJSON_Delete reaches the items of a tree: every turn adds one, or they are all.
LEMMA ReachedIsTree ==
  ASSUME NEW h, IsHeap(h), NEW root, NEW I, NEW T, Tree(h, root, I, T)
  PROVE  Reached(h, root) = I
<1> DEFINE D == DOMAIN h.blocks
           size == Cardinality(D)
<1>1. /\ IsFiniteSet(D) /\ size \in Nat /\ I \subseteq D /\ IsFiniteSet(I) /\ root \in I
      /\ NULL \notin D /\ \A J \in SUBSET I : IsFiniteSet(J) /\ Cardinality(J) \in 0 .. size
  <2>1. IsFiniteSet(D) /\ NULL \notin D /\ I \subseteq D /\ root \in I
    BY DEF IsHeap, Tree, Within, Spanned
  <2>2. size \in Nat
    BY <2>1, FS_CardinalityType
  <2>3. ASSUME NEW J \in SUBSET D PROVE IsFiniteSet(J) /\ Cardinality(J) \in 0 .. size
    <3>1. IsFiniteSet(J) /\ Cardinality(J) <= size
      BY <2>1, FS_Subset
    <3>2. Cardinality(J) \in Nat
      BY <3>1, FS_CardinalityType
    <3> QED
      BY <2>2, <3>1, <3>2
  <2> QED
    BY <2>1, <2>2, <2>3
<1>2. PICK from : IsReaching(h, size, from) /\ Reached(h, root) = from[size][{root} \cap D]
  BY <1>1, ReachedSteps
<1>3. \A m \in 0 .. size : \A items \in SUBSET D :
        from[m][items] = IF m = 0 \/ items \cup Onward(h, items) = items THEN items
                         ELSE from[m - 1][items \cup Onward(h, items)]
  <2> SUFFICES ASSUME NEW m \in 0 .. size, NEW items \in SUBSET D
               PROVE  from[m][items] = IF m = 0 \/ items \cup Onward(h, items) = items
                                       THEN items
                                       ELSE from[m - 1][items \cup Onward(h, items)]
    OBVIOUS
  <2>1. from[m] = Reach(h, m, from[m - 1])
    BY <1>2 DEF IsReaching
  <2> QED
    BY <2>1 DEF Reach
<1>4. ASSUME NEW J \in SUBSET I
      PROVE  /\ Onward(h, J) \subseteq I
             /\ root \in J /\ J \cup Onward(h, J) = J => J = I
  <2>1. \A p \in J : \A s \in {"next", "child"} : Owned(h.blocks[p], s) \in I \cup {NULL}
    BY <1>4 DEF Tree, Within, To
  <2>2. Onward(h, J) \subseteq I
    BY <1>1, <2>1 DEF Onward
  <2>3. ASSUME root \in J, J \cup Onward(h, J) = J PROVE J = I
    <3>1. ASSUME NEW p \in J, NEW s \in {"next", "child"} PROVE To(h, p, s) \in J \cup {NULL}
      <4>1. CASE To(h, p, s) \in I
        BY <1>1, <2>3, <4>1 DEF To, Onward
      <4> QED
        BY <2>1, <4>1 DEF To
    <3>2. Covered(h, I, J)
      BY <3>1 DEF Covered
    <3> QED
      BY <2>3, <3>2 DEF Tree, Spanned
  <2> QED
    BY <2>2, <2>3
<1> DEFINE Q == {n \in Nat : \A J \in SUBSET I :
                   n <= size /\ root \in J /\ Cardinality(I \ J) <= n => from[n][J] = I}
<1> HIDE DEF D, size
<1>5. 0 \in Q
  <2> SUFFICES ASSUME NEW J \in SUBSET I, root \in J, Cardinality(I \ J) <= 0
               PROVE  from[0][J] = I
    OBVIOUS
  <2>1. Cardinality(I \ J) \in 0 .. size /\ IsFiniteSet(I \ J)
    BY <1>1
  <2>2. I \ J = {}
    BY <1>1, <2>1, FS_EmptySet
  <2>3. J = I /\ J \in SUBSET D /\ 0 \in 0 .. size
    BY <1>1, <2>2
  <2>4. from[0][J] = J
    BY <1>3, <2>3
  <2> QED
    BY <2>3, <2>4
<1>6. ASSUME NEW n \in Nat, n \in Q, NEW J \in SUBSET I, n + 1 <= size, root \in J,
             Cardinality(I \ J) <= n + 1
      PROVE  from[n + 1][J] = I
  <2> DEFINE all == J \cup Onward(h, J)
  <2>1. from[n + 1][J] = IF all = J THEN J ELSE from[n][all]
    <3>1. n + 1 \in 0 .. size /\ n + 1 # 0 /\ (n + 1) - 1 = n /\ J \in SUBSET D
      BY <1>1, <1>6
    <3> QED
      <4>1. from[n + 1][J] =
              IF n + 1 = 0 \/ all = J THEN J ELSE from[(n + 1) - 1][all]
        BY <1>3, <3>1
      <4> QED
        BY <3>1, <4>1
  <2>2. all \in SUBSET I /\ root \in all
    BY <1>4, <1>6
  <2>3. CASE all = J
    BY <1>4, <1>6, <2>1, <2>3
  <2>4. CASE all # J
    <3>1. PICK p \in all : p \notin J
      BY <2>4
    <3>2. I \ all \subseteq (I \ J) \ {p} /\ p \in I \ J
      BY <2>2, <3>1
    <3>3. IsFiniteSet(I \ J) /\ Cardinality(I \ J) \in Nat
      BY <1>1
    <3>4. IsFiniteSet((I \ J) \ {p}) /\ Cardinality((I \ J) \ {p}) = Cardinality(I \ J) - 1
      BY <3>2, <3>3, FS_RemoveElement
    <3>5. Cardinality(I \ all) <= Cardinality((I \ J) \ {p})
      BY <3>2, <3>4, FS_Subset
    <3>6. Cardinality(I \ all) \in Nat
      BY <1>1
    <3>7. Cardinality(I \ all) <= n /\ n <= size
      BY <1>1, <1>6, <3>3, <3>4, <3>5, <3>6
    <3>8. from[n][all] = I
      BY <1>6, <2>2, <3>7 DEF Q
    <3> QED
      BY <2>1, <2>4, <3>8
  <2> QED
    BY <2>3, <2>4
<1> HIDE DEF Q
<1>7. ASSUME NEW n \in Nat, n \in Q PROVE n + 1 \in Q
  <2>1. n + 1 \in Nat
    OBVIOUS
  <2> QED
    BY <1>6, <1>7, <2>1 DEF Q
<1>8. size \in Q
  BY <1>1, <1>5, <1>7, Inductive
<1>9. {root} \cap D \in SUBSET I /\ root \in {root} \cap D
  BY <1>1
<1>10. Cardinality(I \ ({root} \cap D)) <= size /\ size <= size
  BY <1>1
<1> QED
  BY <1>2, <1>8, <1>9, <1>10 DEF Q

\* The heap h with blocks freed.
Without(h, gone) ==
  [blocks |-> [p \in DOMAIN h.blocks \ gone |-> h.blocks[p]], sound |-> TRUE]

\* Deleting a tree frees its items and strings, each once, and nothing else.
LEMMA TreeDeleted ==
  ASSUME NEW h, IsHeap(h), h.sound = TRUE, NEW root, NEW I, NEW T, Tree(h, root, I, T)
  PROVE  Delete(h, root) = Without(h, I \cup T)
<1> DEFINE pointers == {x \in I \X Slots : To(h, x[1], x[2]) # NULL}
           owned    == {To(h, x[1], x[2]) : x \in pointers}
<1>1. /\ I \cup T \subseteq DOMAIN h.blocks /\ NULL \notin DOMAIN h.blocks
      /\ root \in I /\ I \cap T = {} /\ IsFiniteSet(DOMAIN h.blocks)
      /\ OwnedOnce(h, root, I)
  BY DEF IsHeap, Tree, Within, Spanned
<1>2. \A p \in I : \A s \in Slots : To(h, p, s) \in I \cup T \cup {NULL} /\ To(h, p, s) # root
  BY DEF Tree, Within, OwnedOnce, Slots
<1>3. ASSUME NEW p \in I, NEW s \in Slots, To(h, p, s) # NULL PROVE To(h, p, s) \in owned
  <2>1. <<p, s>> \in pointers
    BY <1>3
  <2> QED
    BY <2>1
<1>4. owned = (I \cup T) \ {root}
  <2>1. owned \subseteq (I \cup T) \ {root}
    BY <1>2
  <2>2. T \subseteq owned
    <3>1. \A p \in T : \E q \in I, s \in Slots : To(h, q, s) = p
      BY DEF Tree, StringsOwned
    <3> QED
      BY <1>1, <1>3, <3>1
  <2>3. I \subseteq owned \cup {root}
    <3> DEFINE R == {root} \cup (owned \cap I)
    <3>1. ASSUME NEW p \in I, NEW s \in {"next", "child"} PROVE To(h, p, s) \in R \cup {NULL}
      <4>1. To(h, p, s) \in I \cup {NULL} /\ s \in Slots
        BY DEF Tree, Within, Slots
      <4> QED
        BY <1>3, <4>1
    <3>2. Covered(h, I, R)
      BY <3>1 DEF Covered
    <3> QED
      BY <3>2 DEF Tree, Spanned
  <2> QED
    BY <1>1, <2>1, <2>2, <2>3
<1>5. Cardinality(owned) = Cardinality(pointers)
  <2> DEFINE f == [x \in pointers |-> To(h, x[1], x[2])]
  <2>1. IsFiniteSet(owned)
    <3>1. owned \in SUBSET DOMAIN h.blocks
      BY <1>1, <1>4
    <3> QED
      BY <1>1, <3>1, FS_Subset
  <2>2. ASSUME NEW x \in pointers, NEW y \in pointers, f[x] = f[y] PROVE x = y
    <3>1. /\ x = <<x[1], x[2]>> /\ x[1] \in I /\ x[2] \in Slots
          /\ y = <<y[1], y[2]>> /\ y[1] \in I /\ y[2] \in Slots
      OBVIOUS
    <3>2. To(h, x[1], x[2]) = To(h, y[1], y[2])
      BY <2>2
    <3>3. To(h, x[1], x[2]) # NULL
      OBVIOUS
    <3>4. x[1] = y[1] /\ x[2] = y[2]
      BY <1>1, <3>1, <3>2, <3>3, Once
    <3> QED
      BY <3>1, <3>4
  <2>3. f \in Injection(pointers, owned)
    <3>1. f \in [pointers -> owned]
      OBVIOUS
    <3> QED
      BY <2>2, <3>1 DEF Injection, IsInjective
  <2>4. f \in Surjection(pointers, owned)
    <3>1. f \in [pointers -> owned]
      OBVIOUS
    <3> QED
      BY <3>1 DEF Surjection
  <2> HIDE DEF f, owned, pointers
  <2> QED
    BY <2>1, <2>3, <2>4, FS_Injection
<1>6. Reached(h, root) = I
  BY ReachedIsTree
<1>7. owned \cup ({root} \ {NULL}) = I \cup T
  BY <1>1, <1>4
<1>8. Delete(h, root) =
        [blocks |-> [p \in DOMAIN h.blocks \ (owned \cup ({root} \ {NULL})) |-> h.blocks[p]],
         sound  |-> /\ h.sound
                    /\ owned \cup ({root} \ {NULL}) \subseteq DOMAIN h.blocks
                    /\ Cardinality(owned) = Cardinality(pointers)
                    /\ root \notin owned]
  BY <1>6 DEF Delete, To
<1> HIDE DEF owned, pointers
<1>9. /\ owned \cup ({root} \ {NULL}) \subseteq DOMAIN h.blocks
      /\ root \notin owned
  BY <1>1, <1>4, <1>7
<1> QED
  BY <1>5, <1>7, <1>8, <1>9 DEF Without
-----------------------------------------------------------------------------
(* While a text is read, the heap is a forest: a tree for the root and one for *)
(* the members of every list that is open.  Blocks are allocated in turn, so   *)
(* that every pointer leads onward.                                            *)

\* The items of a heap; the other blocks are strings.
ItemsIn(h) == {p \in DOMAIN h.blocks : DOMAIN h.blocks[p] # {"text"}}

Dense(h, m) == IsHeap(h) /\ h.sound = TRUE /\ m \in Nat /\ DOMAIN h.blocks = 1 .. m

Typed(h) == \A p \in ItemsIn(h) : IsItem(h.blocks[p]) /\ h.blocks[p].reference = FALSE

\* A pointer leads onward, to an item or to a string, and to no root.
Forward(h, m, roots) ==
  \A p \in ItemsIn(h), s \in Slots : To(h, p, s) # NULL =>
    /\ To(h, p, s) \in (p + 1) .. m /\ To(h, p, s) \notin roots
    /\ To(h, p, s) \in ItemsIn(h) <=> s \in {"next", "child"}

OneOwner(h) ==
  \A p, q \in ItemsIn(h) : \A s, t \in Slots :
    To(h, p, s) = To(h, q, t) /\ To(h, p, s) # NULL => p = q /\ s = t

\* What is no root is owned, by an item behind the roots in front of it.
Behind(roots, p, y) == \A r \in roots : r < y => r <= p

Hangs(h, m, roots) ==
  \A y \in (1 .. m) \ roots :
    \E p \in ItemsIn(h), s \in Slots : To(h, p, s) = y /\ Behind(roots, p, y)

Forest(h, m, roots) ==
  /\ Dense(h, m) /\ Typed(h) /\ roots \subseteq ItemsIn(h)
  /\ Forward(h, m, roots) /\ OneOwner(h) /\ Hangs(h, m, roots)

\* What two pointers lead to, they own as one.
LEMMA OwnedByOne ==
  ASSUME NEW h, OneOwner(h),
         NEW p \in ItemsIn(h), NEW q \in ItemsIn(h), NEW s \in Slots, NEW t \in Slots,
         To(h, p, s) = To(h, q, t), To(h, p, s) # NULL
  PROVE  p = q /\ s = t
  BY DEF OneOwner

SamePointers(h, k, p) == \A s \in Slots : To(k, p, s) = To(h, p, s)

\* A heap with the same pointers is the same forest.
LEMMA ForestKept ==
  ASSUME NEW h, NEW m, NEW roots, Forest(h, m, roots),
         NEW k, Dense(k, m), Typed(k), ItemsIn(k) = ItemsIn(h),
         \A p \in ItemsIn(h) : SamePointers(h, k, p)
  PROVE  Forest(k, m, roots)
<1>1. \A p \in ItemsIn(h), s \in Slots : To(k, p, s) = To(h, p, s)
  BY DEF SamePointers
<1>2. Forward(k, m, roots)
  BY <1>1 DEF Forest, Forward
<1>3. OneOwner(k)
  BY <1>1 DEF Forest, OneOwner
<1>4. Hangs(k, m, roots)
  BY <1>1 DEF Forest, Hangs
<1> QED
  BY <1>2, <1>3, <1>4 DEF Forest

\* A pointer that was NULL leads to the block n, and no other one has changed.
Points(h, k, x, slot, n) ==
  /\ To(h, x, slot) = NULL /\ To(k, x, slot) = n
  /\ \A p \in ItemsIn(h), s \in Slots : <<p, s>> # <<x, slot>> => To(k, p, s) = To(h, p, s)

\* A new block hangs on an item that is behind every root.
LEMMA ForestGrows ==
  ASSUME NEW h, NEW m, NEW roots, Forest(h, m, roots),
         NEW k, Dense(k, m + 1), Typed(k), ItemsIn(h) = ItemsIn(k) \ {m + 1},
         NEW x \in ItemsIn(h), NEW slot \in Slots, Points(h, k, x, slot, m + 1),
         m + 1 \in ItemsIn(k) <=> slot \in {"next", "child"},
         m + 1 \in ItemsIn(k) => \A s \in Slots : To(k, m + 1, s) = NULL,
         \A r \in roots : r <= x
  PROVE  Forest(k, m + 1, roots)
<1>1. /\ m \in Nat /\ ItemsIn(h) \subseteq 1 .. m /\ roots \subseteq ItemsIn(h)
      /\ ItemsIn(k) \subseteq 1 .. (m + 1)
  BY DEF Forest, Dense, ItemsIn
<1>2. \A p \in ItemsIn(h), s \in Slots :
        \/ p = x /\ s = slot /\ To(k, p, s) = m + 1
        \/ ~(p = x /\ s = slot) /\ To(k, p, s) = To(h, p, s)
  BY DEF Points
<1>3. \A p \in ItemsIn(h), s \in Slots : To(h, p, s) # NULL =>
        /\ To(h, p, s) \in (p + 1) .. m /\ To(h, p, s) \notin roots
        /\ To(h, p, s) \in ItemsIn(h) <=> s \in {"next", "child"}
  BY DEF Forest, Forward
<1>4. Forward(k, m + 1, roots)
  <2> SUFFICES ASSUME NEW p \in ItemsIn(k), NEW s \in Slots, To(k, p, s) # NULL
               PROVE  /\ To(k, p, s) \in (p + 1) .. (m + 1) /\ To(k, p, s) \notin roots
                      /\ To(k, p, s) \in ItemsIn(k) <=> s \in {"next", "child"}
    BY DEF Forward
  <2>1. p \in ItemsIn(h)
    OBVIOUS
  <2>2. CASE p = x /\ s = slot /\ To(k, p, s) = m + 1
    BY <1>1, <2>1, <2>2
  <2>3. CASE To(k, p, s) = To(h, p, s)
    BY <1>1, <1>3, <2>1, <2>3
  <2> QED
    BY <1>2, <2>1, <2>2, <2>3
<1>5. OneOwner(k)
  <2> SUFFICES ASSUME NEW p \in ItemsIn(k), NEW q \in ItemsIn(k), NEW s \in Slots, NEW t \in Slots,
                      To(k, p, s) = To(k, q, t), To(k, p, s) # NULL
               PROVE  p = q /\ s = t
    BY DEF OneOwner
  <2>1. p \in ItemsIn(h) /\ q \in ItemsIn(h)
    OBVIOUS
  <2>2. \A z \in ItemsIn(h), u \in Slots : To(h, z, u) # m + 1
    BY <1>1, <1>3 DEF NULL
  <2>3. CASE p = x /\ s = slot
    <3>1. To(k, q, t) = m + 1
      BY <2>3 DEF Points
    <3>2. To(h, q, t) # m + 1
      BY <2>1, <2>2
    <3> QED
      BY <1>2, <2>1, <2>3, <3>1, <3>2
  <2>4. CASE ~(p = x /\ s = slot)
    <3>1. To(k, p, s) = To(h, p, s) /\ To(h, p, s) # m + 1
      BY <1>2, <2>1, <2>2, <2>4
    <3>2. To(k, q, t) # m + 1
      BY <3>1
    <3>3. To(k, q, t) = To(h, q, t)
      BY <1>2, <2>1, <3>2
    <3>4. OneOwner(h) /\ To(h, p, s) = To(h, q, t) /\ To(h, p, s) # NULL
      BY <3>1, <3>3 DEF Forest
    <3> QED
      BY <2>1, <3>4, OwnedByOne
  <2> QED
    BY <2>3, <2>4
<1>6. Hangs(k, m + 1, roots)
  <2> SUFFICES ASSUME NEW y \in (1 .. (m + 1)) \ roots
               PROVE  \E p \in ItemsIn(k), s \in Slots : To(k, p, s) = y /\ Behind(roots, p, y)
    BY DEF Hangs
  <2>1. CASE y = m + 1
    <3>1. Behind(roots, x, y) /\ To(k, x, slot) = y
      BY <2>1 DEF Behind, Points
    <3> QED
      BY <3>1
  <2>2. CASE y # m + 1
    <3>1. y \in (1 .. m) \ roots
      BY <1>1, <2>2
    <3>2. PICK p \in ItemsIn(h), s \in Slots : To(h, p, s) = y /\ Behind(roots, p, y)
      BY <3>1 DEF Forest, Hangs
    <3>3. To(h, x, slot) = NULL /\ y # NULL
      BY <3>1 DEF Points, NULL
    <3>4. To(k, p, s) = y
      BY <1>2, <3>2, <3>3
    <3> QED
      BY <3>2, <3>4
  <2> QED
    BY <2>1, <2>2
<1> QED
  BY <1>1, <1>4, <1>5, <1>6 DEF Forest

\* A new item is a root of its own.
LEMMA ForestRooted ==
  ASSUME NEW h, NEW m, NEW roots, Forest(h, m, roots),
         NEW k, Dense(k, m + 1), Typed(k), ItemsIn(k) = ItemsIn(h) \cup {m + 1},
         \A p \in ItemsIn(h) : SamePointers(h, k, p),
         \A s \in Slots : To(k, m + 1, s) = NULL
  PROVE  Forest(k, m + 1, roots \cup {m + 1})
<1>1. m \in Nat /\ ItemsIn(h) \subseteq 1 .. m /\ roots \subseteq ItemsIn(h)
  BY DEF Forest, Dense, ItemsIn
<1>2. \A p \in ItemsIn(h), s \in Slots : To(k, p, s) = To(h, p, s)
  BY DEF SamePointers
<1>3. \A p \in ItemsIn(h), s \in Slots : To(h, p, s) # NULL =>
        /\ To(h, p, s) \in (p + 1) .. m /\ To(h, p, s) \notin roots
        /\ To(h, p, s) \in ItemsIn(h) <=> s \in {"next", "child"}
  BY DEF Forest, Forward
<1>4. Forward(k, m + 1, roots \cup {m + 1})
  <2> SUFFICES ASSUME NEW p \in ItemsIn(k), NEW s \in Slots, To(k, p, s) # NULL
               PROVE  /\ To(k, p, s) \in (p + 1) .. (m + 1)
                      /\ To(k, p, s) \notin roots \cup {m + 1}
                      /\ To(k, p, s) \in ItemsIn(k) <=> s \in {"next", "child"}
    BY DEF Forward
  <2>1. p \in ItemsIn(h)
    OBVIOUS
  <2>2. To(k, p, s) = To(h, p, s)
    BY <1>2, <2>1
  <2> QED
    BY <1>1, <1>3, <2>1, <2>2
<1>5. OneOwner(k)
  <2> SUFFICES ASSUME NEW p \in ItemsIn(k), NEW q \in ItemsIn(k), NEW s \in Slots, NEW t \in Slots,
                      To(k, p, s) = To(k, q, t), To(k, p, s) # NULL
               PROVE  p = q /\ s = t
    BY DEF OneOwner
  <2>1. p \in ItemsIn(h) /\ q \in ItemsIn(h)
    OBVIOUS
  <2> QED
    BY <1>2, <2>1 DEF Forest, OneOwner
<1>6. Hangs(k, m + 1, roots \cup {m + 1})
  <2> SUFFICES ASSUME NEW y \in (1 .. (m + 1)) \ (roots \cup {m + 1})
               PROVE  \E p \in ItemsIn(k), s \in Slots :
                        To(k, p, s) = y /\ Behind(roots \cup {m + 1}, p, y)
    BY DEF Hangs
  <2>1. y \in (1 .. m) \ roots
    BY <1>1
  <2>2. PICK p \in ItemsIn(h), s \in Slots : To(h, p, s) = y /\ Behind(roots, p, y)
    BY <2>1 DEF Forest, Hangs
  <2>3. Behind(roots \cup {m + 1}, p, y)
    BY <1>1, <2>1, <2>2 DEF Behind
  <2> QED
    BY <1>2, <2>2, <2>3
<1> QED
  BY <1>1, <1>4, <1>5, <1>6 DEF Forest

\* A root is hung on the item in front of it.
LEMMA ForestJoined ==
  ASSUME NEW h, NEW m, NEW roots, Forest(h, m, roots),
         NEW k, Dense(k, m), Typed(k), ItemsIn(k) = ItemsIn(h),
         NEW x \in ItemsIn(h), NEW a \in roots, x < a, Points(h, k, x, "child", a),
         \A r \in roots \ {a} : r <= x
  PROVE  Forest(k, m, roots \ {a})
<1>1. m \in Nat /\ ItemsIn(h) \subseteq 1 .. m /\ roots \subseteq ItemsIn(h) /\ "child" \in Slots
  BY DEF Forest, Dense, ItemsIn, Slots
<1>2. \A p \in ItemsIn(h), s \in Slots :
        \/ p = x /\ s = "child" /\ To(k, p, s) = a
        \/ ~(p = x /\ s = "child") /\ To(k, p, s) = To(h, p, s)
  BY DEF Points
<1>3. \A p \in ItemsIn(h), s \in Slots : To(h, p, s) # NULL =>
        /\ To(h, p, s) \in (p + 1) .. m /\ To(h, p, s) \notin roots
        /\ To(h, p, s) \in ItemsIn(h) <=> s \in {"next", "child"}
  BY DEF Forest, Forward
<1>4. Forward(k, m, roots \ {a})
  <2> SUFFICES ASSUME NEW p \in ItemsIn(h), NEW s \in Slots, To(k, p, s) # NULL
               PROVE  /\ To(k, p, s) \in (p + 1) .. m /\ To(k, p, s) \notin roots \ {a}
                      /\ To(k, p, s) \in ItemsIn(h) <=> s \in {"next", "child"}
    BY DEF Forward
  <2>1. CASE p = x /\ s = "child" /\ To(k, p, s) = a
    BY <1>1, <2>1
  <2>2. CASE To(k, p, s) = To(h, p, s)
    BY <1>3, <2>2
  <2> QED
    BY <1>2, <2>1, <2>2
<1>5. OneOwner(k)
  <2> SUFFICES ASSUME NEW p \in ItemsIn(h), NEW q \in ItemsIn(h), NEW s \in Slots, NEW t \in Slots,
                      To(k, p, s) = To(k, q, t), To(k, p, s) # NULL
               PROVE  p = q /\ s = t
    BY DEF OneOwner
  <2>2. \A z \in ItemsIn(h), u \in Slots : To(h, z, u) # a
    BY <1>1, <1>3 DEF NULL
  <2>3. CASE p = x /\ s = "child"
    <3>1. To(k, q, t) = a
      BY <2>3 DEF Points
    <3>2. To(h, q, t) # a
      BY <2>2
    <3> QED
      BY <1>2, <2>3, <3>1, <3>2
  <2>4. CASE ~(p = x /\ s = "child")
    <3>1. To(k, p, s) = To(h, p, s) /\ To(h, p, s) # a
      BY <1>2, <2>2, <2>4
    <3>2. To(k, q, t) # a
      BY <3>1
    <3>3. To(k, q, t) = To(h, q, t)
      BY <1>2, <3>2
    <3>4. OneOwner(h) /\ To(h, p, s) = To(h, q, t) /\ To(h, p, s) # NULL
      BY <3>1, <3>3 DEF Forest
    <3> QED
      BY <3>4, OwnedByOne
  <2> QED
    BY <2>3, <2>4
<1>6. Hangs(k, m, roots \ {a})
  <2> SUFFICES ASSUME NEW y \in (1 .. m) \ (roots \ {a})
               PROVE  \E p \in ItemsIn(h), s \in Slots :
                        To(k, p, s) = y /\ Behind(roots \ {a}, p, y)
    BY DEF Hangs
  <2>1. CASE y = a
    <3>1. Behind(roots \ {a}, x, y) /\ To(k, x, "child") = y
      BY <2>1 DEF Behind, Points
    <3> QED
      BY <1>1, <3>1
  <2>2. CASE y # a
    <3>1. y \in (1 .. m) \ roots
      BY <2>2
    <3>2. PICK p \in ItemsIn(h), s \in Slots : To(h, p, s) = y /\ Behind(roots, p, y)
      BY <3>1 DEF Forest, Hangs
    <3>3. To(h, x, "child") = NULL /\ y # NULL
      BY <3>1 DEF Points, NULL
    <3>4. To(k, p, s) = y /\ Behind(roots \ {a}, p, y)
      BY <1>2, <3>2, <3>3 DEF Behind
    <3> QED
      BY <3>2, <3>4
  <2> QED
    BY <2>1, <2>2
<1> QED
  BY <1>1, <1>4, <1>5, <1>6 DEF Forest

\* The blocks from the last root on are a tree.
LEMMA LastIsTree ==
  ASSUME NEW h, NEW m, NEW roots, Forest(h, m, roots),
         NEW a \in roots, \A r \in roots : r <= a
  PROVE  Tree(h, a, ItemsIn(h) \cap (a .. m), (a .. m) \ ItemsIn(h))
<1> DEFINE I == ItemsIn(h) \cap (a .. m)
           T == (a .. m) \ ItemsIn(h)
<1>1. /\ m \in Nat /\ DOMAIN h.blocks = 1 .. m /\ ItemsIn(h) \subseteq 1 .. m
      /\ a \in ItemsIn(h) /\ roots \subseteq ItemsIn(h)
  BY DEF Forest, Dense, ItemsIn
<1>2. \A p \in ItemsIn(h), s \in Slots : To(h, p, s) # NULL =>
        /\ To(h, p, s) \in (p + 1) .. m /\ To(h, p, s) \notin roots
        /\ To(h, p, s) \in ItemsIn(h) <=> s \in {"next", "child"}
  BY DEF Forest, Forward
<1>3. a \in I /\ I \cup T \subseteq DOMAIN h.blocks /\ I \cap T = {}
  BY <1>1
<1>4. ASSUME NEW p \in I, NEW s \in Slots
      PROVE  /\ To(h, p, s) # a
             /\ s \in {"next", "child"} => To(h, p, s) \in I \cup {NULL}
             /\ s \notin {"next", "child"} => To(h, p, s) \in T \cup {NULL}
  BY <1>1, <1>2 DEF NULL
<1>5. Slots = {"next", "child", "string", "valuestring"}
  BY DEF Slots
<1>6. Within(h, I, T)
  <2>1. \A p \in I : IsItem(h.blocks[p])
    BY DEF Forest, Typed
  <2>2. \A p \in I : /\ To(h, p, "next") \in I \cup {NULL}
                   /\ To(h, p, "child") \in I \cup {NULL}
    BY <1>4, <1>5
  <2>3. \A p \in I : /\ To(h, p, "string") \in T \cup {NULL}
                   /\ To(h, p, "valuestring") \in T \cup {NULL}
    BY <1>4, <1>5
  <2> HIDE DEF I, T
  <2>4. I \cup T \subseteq DOMAIN h.blocks /\ I \cap T = {}
    BY <1>3
  <2> QED
    BY <2>1, <2>2, <2>3, <2>4 DEF Within
<1>7. OwnedOnce(h, a, I)
  <2>1. OneOwner(h) /\ I \subseteq ItemsIn(h)
    BY DEF Forest
  <2> HIDE DEF I
  <2> QED
    BY <1>4, <2>1 DEF OwnedOnce, OneOwner
<1>8. ASSUME NEW y \in a .. m, y # a
      PROVE  \E p \in I, s \in Slots : To(h, p, s) = y /\ p < y
  <2>1. y \in (1 .. m) \ roots /\ a < y
    BY <1>1, <1>8
  <2>2. PICK p \in ItemsIn(h), s \in Slots : To(h, p, s) = y /\ Behind(roots, p, y)
    BY <2>1 DEF Forest, Hangs
  <2>3. a <= p
    BY <2>1, <2>2 DEF Behind
  <2>4. p < y
    BY <1>1, <1>2, <2>1, <2>2 DEF NULL
  <2> QED
    BY <1>1, <2>2, <2>3, <2>4
<1>9. ASSUME NEW R, a \in R, Covered(h, I, R)
      PROVE  I \subseteq R
  <2> DEFINE P == {n \in Nat : \A y \in I : y <= n => y \in R}
  <2>1. 0 \in P
    BY <1>1
  <2>2. ASSUME NEW n \in Nat, n \in P
        PROVE  n + 1 \in P
    <3> SUFFICES ASSUME NEW y \in I, y <= n + 1
                 PROVE  y \in R
      OBVIOUS
    <3>1. CASE y = a
      BY <1>9, <3>1
    <3>2. CASE y # a
      <4>1. PICK p \in I, s \in Slots : To(h, p, s) = y /\ p < y
        BY <1>8, <3>2
      <4>2. p <= n
        BY <1>1, <4>1
      <4>3. p \in R
        BY <2>2, <4>2
      <4>4. y \in ItemsIn(h) /\ y # NULL /\ p \in ItemsIn(h)
        BY <1>1 DEF NULL
      <4>5. s \in {"next", "child"}
        BY <1>2, <4>1, <4>4
      <4> HIDE DEF I
      <4> QED
        BY <1>9, <4>1, <4>3, <4>4, <4>5 DEF Covered
    <3> QED
      BY <3>1, <3>2
  <2> HIDE DEF P
  <2>3. Nat \subseteq P
    BY <2>1, <2>2, Inductive
  <2>4. \A y \in I : y \in Nat /\ y <= y
    BY <1>1
  <2> QED
    BY <2>3, <2>4 DEF P
<1>10. Spanned(h, a, I)
  BY <1>3, <1>9 DEF Spanned
<1>11. StringsOwned(h, I, T)
  <2>1. \A y \in T : y \in a .. m /\ y # a
    BY <1>1
  <2> HIDE DEF I, T
  <2> QED
    BY <1>8, <2>1 DEF StringsOwned
<1> QED
  BY <1>6, <1>7, <1>10, <1>11 DEF Tree

\* It can be deleted, and leaves the forest in front of it.
LEMMA ForestCut ==
  ASSUME NEW h, NEW m, NEW roots, Forest(h, m, roots),
         NEW a \in roots, \A r \in roots : r <= a
  PROVE  Forest(Delete(h, a), a - 1, roots \ {a})
<1> DEFINE k == Without(h, a .. m)
<1>1. /\ m \in Nat /\ DOMAIN h.blocks = 1 .. m /\ ItemsIn(h) \subseteq 1 .. m /\ IsHeap(h)
      /\ a \in ItemsIn(h) /\ roots \subseteq ItemsIn(h) /\ h.sound = TRUE
  BY DEF Forest, Dense, ItemsIn
<1>2. Delete(h, a) = k
  <2>1. Delete(h, a) = Without(h, (ItemsIn(h) \cap (a .. m)) \cup ((a .. m) \ ItemsIn(h)))
    BY <1>1, LastIsTree, TreeDeleted
  <2>2. (ItemsIn(h) \cap (a .. m)) \cup ((a .. m) \ ItemsIn(h)) = a .. m
    OBVIOUS
  <2> QED
    BY <2>1, <2>2
<1>3. a - 1 \in Nat /\ (1 .. m) \ (a .. m) = 1 .. (a - 1)
  BY <1>1
<1>4. /\ k.blocks = [p \in 1 .. (a - 1) |-> h.blocks[p]] /\ k.sound = TRUE
      /\ k = [blocks |-> k.blocks, sound |-> k.sound]
  BY <1>1, <1>3 DEF Without
<1> HIDE DEF k
<1>5. Dense(k, a - 1)
  <2>1. IsFiniteSet(1 .. (a - 1))
    BY <1>3, FS_Interval
  <2>2. DOMAIN k.blocks = 1 .. (a - 1)
    BY <1>4
  <2>3. k.blocks = [p \in DOMAIN k.blocks |-> k.blocks[p]]
    BY <1>4
  <2>4. 1 .. (a - 1) \subseteq Nat \ {NULL}
    BY <1>3 DEF NULL
  <2> QED
    BY <1>3, <1>4, <2>1, <2>2, <2>3, <2>4 DEF Dense, IsHeap
<1>6. ItemsIn(k) = ItemsIn(h) \cap (1 .. (a - 1))
  BY <1>1, <1>3, <1>4 DEF ItemsIn
<1>7. ASSUME NEW p \in ItemsIn(k)
      PROVE  k.blocks[p] = h.blocks[p] /\ p \in ItemsIn(h) /\ p < a
  BY <1>1, <1>4, <1>6
<1>8. \A p \in ItemsIn(k), s \in Slots : To(k, p, s) = To(h, p, s)
  BY <1>7 DEF To
<1>9. Typed(k)
  BY <1>7 DEF Forest, Typed
<1>10. roots \ {a} \subseteq ItemsIn(k)
  BY <1>1, <1>6
<1>11. \A p \in ItemsIn(h), s \in Slots : To(h, p, s) # NULL =>
        /\ To(h, p, s) \in (p + 1) .. m /\ To(h, p, s) \notin roots
        /\ To(h, p, s) \in ItemsIn(h) <=> s \in {"next", "child"}
  BY DEF Forest, Forward
<1>12. ASSUME NEW p \in ItemsIn(k), NEW s \in Slots, To(h, p, s) # NULL
       PROVE  To(h, p, s) < a
  <2> SUFFICES ASSUME a <= To(h, p, s) PROVE FALSE
    BY <1>1, <1>7, <1>11, <1>12
  <2> DEFINE y == To(h, p, s)
  <2>1. y \in (1 .. m) \ roots /\ a < y /\ p < a /\ p \in ItemsIn(h)
    BY <1>1, <1>7, <1>11, <1>12
  <2> HIDE DEF y
  <2>2. PICK q \in ItemsIn(h), t \in Slots : To(h, q, t) = y /\ Behind(roots, q, y)
    BY <2>1 DEF Forest, Hangs
  <2>3. a <= q
    BY <2>1, <2>2 DEF Behind
  <2>4. OneOwner(h) /\ To(h, p, s) = To(h, q, t) /\ To(h, p, s) # NULL
    BY <1>12, <2>2 DEF Forest, y
  <2>5. p = q
    BY <2>1, <2>4, OwnedByOne
  <2> QED
    BY <1>1, <2>1, <2>3, <2>5
<1>13. Forward(k, a - 1, roots \ {a})
  <2> SUFFICES ASSUME NEW p \in ItemsIn(k), NEW s \in Slots, To(k, p, s) # NULL
               PROVE  /\ To(k, p, s) \in (p + 1) .. (a - 1) /\ To(k, p, s) \notin roots \ {a}
                      /\ To(k, p, s) \in ItemsIn(k) <=> s \in {"next", "child"}
    BY DEF Forward
  <2>1. To(k, p, s) = To(h, p, s) /\ p \in ItemsIn(h)
    BY <1>7, <1>8
  <2>2. To(h, p, s) < a
    BY <1>12, <2>1
  <2>3. To(h, p, s) \in (p + 1) .. (a - 1) /\ To(h, p, s) \in 1 .. (a - 1)
    BY <1>1, <1>11, <2>1, <2>2
  <2>4. To(h, p, s) \notin roots /\ (To(h, p, s) \in ItemsIn(h) <=> s \in {"next", "child"})
    BY <1>11, <2>1
  <2> QED
    BY <1>6, <2>1, <2>3, <2>4
<1>14. OneOwner(k)
  <2> SUFFICES ASSUME NEW p \in ItemsIn(k), NEW q \in ItemsIn(k), NEW s \in Slots, NEW t \in Slots,
                      To(k, p, s) = To(k, q, t), To(k, p, s) # NULL
               PROVE  p = q /\ s = t
    BY DEF OneOwner
  <2>1. /\ OneOwner(h) /\ p \in ItemsIn(h) /\ q \in ItemsIn(h)
        /\ To(h, p, s) = To(h, q, t) /\ To(h, p, s) # NULL
    BY <1>7, <1>8 DEF Forest
  <2> QED
    BY <2>1, OwnedByOne
<1>15. Hangs(k, a - 1, roots \ {a})
  <2> SUFFICES ASSUME NEW y \in (1 .. (a - 1)) \ (roots \ {a})
               PROVE  \E p \in ItemsIn(k), s \in Slots :
                        To(k, p, s) = y /\ Behind(roots \ {a}, p, y)
    BY DEF Hangs
  <2>1. y \in (1 .. m) \ roots /\ y < a /\ y # NULL
    BY <1>1 DEF NULL
  <2>2. PICK p \in ItemsIn(h), s \in Slots : To(h, p, s) = y /\ Behind(roots, p, y)
    BY <2>1 DEF Forest, Hangs
  <2>3. p \in 1 .. (a - 1)
    <3>1. To(h, p, s) \in (p + 1) .. m
      BY <1>11, <2>1, <2>2
    <3> QED
      BY <1>1, <2>1, <2>2, <3>1
  <2>4. p \in ItemsIn(k) /\ Behind(roots \ {a}, p, y)
    BY <1>6, <2>2, <2>3 DEF Behind
  <2> QED
    BY <1>8, <2>2, <2>4
<1> QED
  BY <1>2, <1>5, <1>9, <1>10, <1>13, <1>14, <1>15 DEF Forest
-----------------------------------------------------------------------------
(* What the parser writes: blocks, one at a time.                          *)

Rewrite(h, x, block) == [h EXCEPT !.blocks[x] = block]

\* One block of m is written.
Changed(h, k, m, x, block) ==
  /\ Dense(k, m) /\ k.blocks[x] = block
  /\ \A p \in (1 .. m) \ {x} : k.blocks[p] = h.blocks[p]

\* A block is allocated behind m others, and one of these is written.
Grew(h, k, m, x, block, new) ==
  /\ Dense(k, m + 1) /\ k.blocks[m + 1] = new /\ k.blocks[x] = block
  /\ \A p \in (1 .. m) \ {x} : k.blocks[p] = h.blocks[p]

\* A block that is written is the only one that changes.
LEMMA Rewritten ==
  ASSUME NEW h, NEW m, Dense(h, m), NEW x \in 1 .. m, NEW block
  PROVE  Changed(h, Rewrite(h, x, block), m, x, block)
<1> DEFINE k == Rewrite(h, x, block)
<1>0. h = [blocks |-> h.blocks, sound |-> h.sound]
  BY DEF Dense, IsHeap
<1>1. /\ h.blocks = [p \in 1 .. m |-> h.blocks[p]] /\ h.sound = TRUE /\ DOMAIN h.blocks = 1 .. m
      /\ IsFiniteSet(1 .. m) /\ 1 .. m \subseteq Nat \ {NULL} /\ m \in Nat
  BY DEF Dense, IsHeap
<1>2. /\ k.blocks = [p \in 1 .. m |-> IF p = x THEN block ELSE h.blocks[p]]
      /\ k = [blocks |-> k.blocks, sound |-> k.sound] /\ k.sound = TRUE
  <2> DEFINE all == [p \in 1 .. m |-> IF p = x THEN block ELSE h.blocks[p]]
  <2>1. [h.blocks EXCEPT ![x] = block] = all
    BY <1>1
  <2>2. k = [blocks |-> [h.blocks EXCEPT ![x] = block], sound |-> h.sound]
    BY <1>0 DEF Rewrite
  <2>3. k = [blocks |-> all, sound |-> h.sound]
    BY <2>1, <2>2
  <2> QED
    BY <1>1, <2>3
<1> HIDE DEF k
<1>3. DOMAIN k.blocks = 1 .. m /\ k.blocks = [p \in DOMAIN k.blocks |-> k.blocks[p]]
  BY <1>2
<1>4. Dense(k, m)
  <2>1. k = [blocks |-> k.blocks, sound |-> k.sound]
    BY <1>2
  <2>2. IsFiniteSet(DOMAIN k.blocks) /\ DOMAIN k.blocks \subseteq Nat \ {NULL}
    BY <1>1, <1>3
  <2>3. IsHeap(k)
    BY <1>3, <2>1, <2>2 DEF IsHeap
  <2> QED
    BY <1>1, <1>2, <1>3, <2>3 DEF Dense
<1>5. k.blocks[x] = block /\ \A p \in (1 .. m) \ {x} : k.blocks[p] = h.blocks[p]
  BY <1>2
<1> QED
  BY <1>4, <1>5 DEF Changed, k

\* The next block is the one behind all the others.
LEMMA NextBlock ==
  ASSUME NEW h, NEW m, Dense(h, m), NEW block
  PROVE  /\ Fresh(h) = m + 1 /\ Dense(Allocate(h, block), m + 1)
         /\ Allocate(h, block).blocks[m + 1] = block
         /\ \A p \in 1 .. m : Allocate(h, block).blocks[p] = h.blocks[p]
<1> DEFINE k == Allocate(h, block)
<1>1. m \in Nat /\ IsHeap(h) /\ DOMAIN h.blocks = 1 .. m /\ h.sound = TRUE
  BY DEF Dense
<1>2. Cardinality(1 .. m) = m
  BY <1>1, FS_Interval
<1>3. Fresh(h) = m + 1
  <2>1. Fresh(h) = CHOOSE p \in 1 .. (m + 1) : p \notin 1 .. m
    BY <1>1, <1>2 DEF Fresh
  <2>2. m + 1 \in 1 .. (m + 1) /\ m + 1 \notin 1 .. m
    BY <1>1
  <2>3. Fresh(h) \in 1 .. (m + 1) /\ Fresh(h) \notin 1 .. m
    BY <2>1, <2>2
  <2> QED
    BY <1>1, <2>3
<1>4. Grown(h, k, {m + 1}) /\ k.blocks[m + 1] = block
  BY <1>1, <1>3, Allocated
<1> HIDE DEF k
<1>5. (1 .. m) \cup {m + 1} = 1 .. (m + 1)
  BY <1>1
<1>6. Dense(k, m + 1)
  BY <1>1, <1>4, <1>5 DEF Grown, Dense
<1>7. \A p \in 1 .. m : k.blocks[p] = h.blocks[p]
  BY <1>1, <1>4 DEF Grown
<1> QED
  BY <1>3, <1>4, <1>6, <1>7 DEF k

\* An allocation, and a write.
LEMMA AllocatedAndWritten ==
  ASSUME NEW h, NEW m, Dense(h, m), NEW x \in 1 .. m, NEW block, NEW new
  PROVE  Grew(h, Rewrite(Allocate(h, new), x, block), m, x, block, new)
<1> DEFINE g == Allocate(h, new)
           k == Rewrite(g, x, block)
<1>1. m \in Nat
  BY DEF Dense
<1>2. /\ Dense(g, m + 1) /\ g.blocks[m + 1] = new
      /\ \A p \in 1 .. m : g.blocks[p] = h.blocks[p]
  BY NextBlock
<1>3. x \in 1 .. (m + 1) /\ m + 1 \in (1 .. (m + 1)) \ {x}
  BY <1>1
<1> HIDE DEF g
<1>4. Changed(g, k, m + 1, x, block)
  BY <1>2, <1>3, Rewritten
<1> HIDE DEF k
<1>5. Dense(k, m + 1) /\ k.blocks[x] = block /\ k.blocks[m + 1] = new
  BY <1>2, <1>3, <1>4 DEF Changed
<1>6. \A p \in (1 .. m) \ {x} : k.blocks[p] = h.blocks[p]
  BY <1>1, <1>2, <1>4 DEF Changed
<1> QED
  BY <1>5, <1>6 DEF Grew, k, g
-----------------------------------------------------------------------------
\* What an item is made by a value, a name, and a list.
LiteralItem(it, token) ==
  [it EXCEPT !.type = CASE token.kind = "null"  -> "NULL"
                        [] token.kind = "false" -> "False"
                        [] OTHER                -> "True",
             !.valueint = IF token.kind = "true" THEN 1 ELSE @]
NumberItem(it, token) ==
  [it EXCEPT !.type = "Number", !.valuedouble = token.number,
             !.valueint = Saturate(token.number)]
StringItem(it, p) == [it EXCEPT !.type = "String", !.valuestring = p]
NamedItem(it, p)  == [it EXCEPT !.type = "String", !.valuestring = NULL, !.string = p]
ListItem(it, named, head) ==
  [it EXCEPT !.type = IF named THEN "Object" ELSE "Array", !.child = head]

\* An item with one of its pointers written.
Hooked(it, new, slot, n) ==
  /\ IsItem(new) /\ new.reference = FALSE
  /\ \A s \in Slots : Owned(new, s) = IF s = slot THEN n ELSE Owned(it, s)

Alike(it, new) ==
  /\ IsItem(new) /\ new.reference = FALSE
  /\ \A s \in Slots : Owned(new, s) = Owned(it, s)

\* What each write makes of the pointers of an item.
LEMMA PointersMade ==
  ASSUME NEW it, IsItem(it), it.reference = FALSE, NEW token, NEW p \in Nat, NEW named
  PROVE  /\ Alike(it, LiteralItem(it, token)) /\ Alike(it, NumberItem(it, token))
         /\ Alike(it, WithPrev(it, p))
         /\ Hooked(it, StringItem(it, p), "valuestring", p)
         /\ Owned(it, "valuestring") = NULL => Hooked(it, NamedItem(it, p), "string", p)
         /\ Hooked(it, WithNext(it, p), "next", p)
         /\ Hooked(it, ListItem(it, named, p), "child", p)
<1> USE DEF Slots, Owned
<1>1. Alike(it, LiteralItem(it, token))
  BY DEF IsItem, Alike, LiteralItem
<1>2. Alike(it, NumberItem(it, token))
  BY DEF IsItem, Alike, NumberItem
<1>3. Alike(it, WithPrev(it, p))
  BY DEF IsItem, Alike, WithPrev
<1>4. Hooked(it, StringItem(it, p), "valuestring", p)
  BY DEF IsItem, Hooked, StringItem
<1>5. Owned(it, "valuestring") = NULL => Hooked(it, NamedItem(it, p), "string", p)
  BY DEF IsItem, Hooked, NamedItem, NULL
<1>6. Hooked(it, WithNext(it, p), "next", p)
  BY DEF IsItem, Hooked, WithNext
<1>7. Hooked(it, ListItem(it, named, p), "child", p)
  BY DEF IsItem, Hooked, ListItem
<1> QED
  BY <1>1, <1>2, <1>3, <1>4, <1>5, <1>6, <1>7

\* An item is no string.
LEMMA NoString ==
  ASSUME NEW it, IsItem(it)
  PROVE  DOMAIN it # {"text"}
<1>1. "type" \in DOMAIN it
  BY DEF IsItem
<1> QED
  BY <1>1

\* The item x of a forest is written, and points to what it did.
LEMMA ItemWritten ==
  ASSUME NEW h, NEW m, NEW roots, Forest(h, m, roots), NEW x \in ItemsIn(h),
         NEW k, NEW it, Changed(h, k, m, x, it), Alike(h.blocks[x], it)
  PROVE  /\ Forest(k, m, roots) /\ ItemsIn(k) = ItemsIn(h)
         /\ \A p \in ItemsIn(h) : SamePointers(h, k, p)
<1>1. /\ m \in Nat /\ DOMAIN h.blocks = 1 .. m /\ x \in 1 .. m /\ Dense(k, m)
      /\ DOMAIN k.blocks = 1 .. m /\ k.blocks[x] = it
      /\ \A p \in (1 .. m) \ {x} : k.blocks[p] = h.blocks[p]
  BY DEF Forest, Dense, ItemsIn, Changed
<1>2. DOMAIN it # {"text"}
  BY NoString DEF Alike
<1>3. ItemsIn(k) = ItemsIn(h)
  <2>1. DOMAIN h.blocks[x] # {"text"}
    BY DEF ItemsIn
  <2>2. \A p \in 1 .. m : (DOMAIN k.blocks[p] # {"text"}) <=> (DOMAIN h.blocks[p] # {"text"})
    BY <1>1, <1>2, <2>1
  <2> QED
    BY <1>1, <2>2 DEF ItemsIn
<1>4. Typed(k)
  <2> SUFFICES ASSUME NEW p \in ItemsIn(h)
               PROVE  IsItem(k.blocks[p]) /\ k.blocks[p].reference = FALSE
    BY <1>3 DEF Typed
  <2>1. p \in 1 .. m /\ IsItem(h.blocks[p]) /\ h.blocks[p].reference = FALSE
    BY <1>1 DEF Forest, Typed, ItemsIn
  <2>2. CASE p = x
    BY <1>1, <2>2 DEF Alike
  <2>3. CASE p # x
    BY <1>1, <2>1, <2>3
  <2> QED
    BY <2>2, <2>3
<1>5. \A p \in ItemsIn(h) : SamePointers(h, k, p)
  BY <1>1 DEF SamePointers, To, Alike, ItemsIn
<1> QED
  BY <1>1, <1>3, <1>4, <1>5, ForestKept

\* A pointer of the item x that was NULL is led to another root, behind it.
LEMMA RootHung ==
  ASSUME NEW h, NEW m, NEW roots, Forest(h, m, roots), NEW x \in ItemsIn(h),
         To(h, x, "child") = NULL, NEW a \in roots, x < a, \A r \in roots \ {a} : r <= x,
         NEW k, NEW it, Changed(h, k, m, x, it), Hooked(h.blocks[x], it, "child", a)
  PROVE  /\ Forest(k, m, roots \ {a}) /\ ItemsIn(k) = ItemsIn(h)
         /\ Points(h, k, x, "child", a)
<1>1. /\ m \in Nat /\ DOMAIN h.blocks = 1 .. m /\ x \in 1 .. m /\ Dense(k, m)
      /\ DOMAIN k.blocks = 1 .. m /\ k.blocks[x] = it
      /\ \A p \in (1 .. m) \ {x} : k.blocks[p] = h.blocks[p]
  BY DEF Forest, Dense, ItemsIn, Changed
<1>2. DOMAIN it # {"text"}
  BY NoString DEF Hooked
<1>3. ItemsIn(k) = ItemsIn(h)
  <2>1. DOMAIN h.blocks[x] # {"text"}
    BY DEF ItemsIn
  <2>2. \A p \in 1 .. m : (DOMAIN k.blocks[p] # {"text"}) <=> (DOMAIN h.blocks[p] # {"text"})
    BY <1>1, <1>2, <2>1
  <2> QED
    BY <1>1, <2>2 DEF ItemsIn
<1>4. Typed(k)
  <2> SUFFICES ASSUME NEW p \in ItemsIn(h)
               PROVE  IsItem(k.blocks[p]) /\ k.blocks[p].reference = FALSE
    BY <1>3 DEF Typed
  <2>1. p \in 1 .. m /\ IsItem(h.blocks[p]) /\ h.blocks[p].reference = FALSE
    BY <1>1 DEF Forest, Typed, ItemsIn
  <2>2. CASE p = x
    BY <1>1, <2>2 DEF Hooked
  <2>3. CASE p # x
    BY <1>1, <2>1, <2>3
  <2> QED
    BY <2>2, <2>3
<1>5. Points(h, k, x, "child", a)
  BY <1>1 DEF Points, To, Hooked, ItemsIn, Slots
<1> QED
  BY <1>1, <1>3, <1>4, <1>5, ForestJoined

\* A string, and an item that owns nothing.
IsText(block) == DOMAIN block = {"text"}
IsBare(block) == IsItem(block) /\ block.reference = FALSE /\ \A s \in Slots : Owned(block, s) = NULL

\* It is led to a new block.
LEMMA BlockHung ==
  ASSUME NEW h, NEW m, NEW roots, Forest(h, m, roots), NEW x \in ItemsIn(h),
         NEW slot \in Slots, To(h, x, slot) = NULL, \A r \in roots : r <= x,
         NEW k, NEW it, NEW new, Grew(h, k, m, x, it, new),
         Hooked(h.blocks[x], it, slot, m + 1),
         IF slot \in {"next", "child"} THEN IsBare(new) ELSE IsText(new)
  PROVE  /\ Forest(k, m + 1, roots) /\ Points(h, k, x, slot, m + 1)
         /\ ItemsIn(k) = IF slot \in {"next", "child"} THEN ItemsIn(h) \cup {m + 1} ELSE ItemsIn(h)
<1>1. /\ m \in Nat /\ DOMAIN h.blocks = 1 .. m /\ x \in 1 .. m /\ Dense(k, m + 1)
      /\ DOMAIN k.blocks = 1 .. (m + 1) /\ k.blocks[x] = it /\ k.blocks[m + 1] = new
      /\ \A p \in (1 .. m) \ {x} : k.blocks[p] = h.blocks[p]
  BY DEF Forest, Dense, ItemsIn, Grew
<1>2. DOMAIN it # {"text"}
  BY NoString DEF Hooked
<1>3. DOMAIN new # {"text"} <=> slot \in {"next", "child"}
  BY NoString DEF IsBare, IsText
<1>4. /\ ItemsIn(h) = ItemsIn(k) \ {m + 1}
      /\ m + 1 \in ItemsIn(k) <=> slot \in {"next", "child"}
  <2>1. DOMAIN h.blocks[x] # {"text"}
    BY DEF ItemsIn
  <2>2. \A p \in 1 .. m : (DOMAIN k.blocks[p] # {"text"}) <=> (DOMAIN h.blocks[p] # {"text"})
    BY <1>1, <1>2, <2>1
  <2>3. (1 .. (m + 1)) \ {m + 1} = 1 .. m /\ m + 1 \in 1 .. (m + 1)
    BY <1>1
  <2>4. ItemsIn(h) = ItemsIn(k) \ {m + 1}
    BY <1>1, <2>2, <2>3 DEF ItemsIn
  <2> QED
    BY <1>1, <1>3, <2>3, <2>4 DEF ItemsIn
<1>5. Typed(k)
  <2> SUFFICES ASSUME NEW p \in ItemsIn(k)
               PROVE  IsItem(k.blocks[p]) /\ k.blocks[p].reference = FALSE
    BY DEF Typed
  <2>1. CASE p = x
    BY <1>1, <2>1 DEF Hooked
  <2>2. CASE p = m + 1
    BY <1>1, <1>4, <2>2 DEF IsBare
  <2>3. CASE p \notin {x, m + 1}
    <3>1. p \in ItemsIn(h) /\ p \in 1 .. m
      BY <1>1, <1>4, <2>3 DEF ItemsIn
    <3>2. IsItem(h.blocks[p]) /\ h.blocks[p].reference = FALSE
      BY <3>1 DEF Forest, Typed
    <3> QED
      BY <1>1, <2>3, <3>1, <3>2
  <2> QED
    BY <2>1, <2>2, <2>3
<1>6. Points(h, k, x, slot, m + 1)
  BY <1>1 DEF Points, To, Hooked, ItemsIn
<1>7. m + 1 \in ItemsIn(k) => \A s \in Slots : To(k, m + 1, s) = NULL
  BY <1>1, <1>4 DEF IsBare, To
<1>8. Forest(k, m + 1, roots)
  BY <1>1, <1>4, <1>5, <1>6, <1>7, ForestGrows
<1> QED
  BY <1>4, <1>6, <1>8

\* It is the root of a tree of its own.
LEMMA BlockRooted ==
  ASSUME NEW h, NEW m, NEW roots, Forest(h, m, roots), NEW new, IsBare(new)
  PROVE  /\ Forest(Allocate(h, new), m + 1, roots \cup {m + 1})
         /\ ItemsIn(Allocate(h, new)) = ItemsIn(h) \cup {m + 1}
         /\ \A p \in ItemsIn(h) : SamePointers(h, Allocate(h, new), p)
<1> DEFINE k == Allocate(h, new)
<1>1. /\ m \in Nat /\ DOMAIN h.blocks = 1 .. m /\ Dense(h, m)
  BY DEF Forest, Dense
<1>2. /\ Dense(k, m + 1) /\ k.blocks[m + 1] = new
      /\ \A p \in 1 .. m : k.blocks[p] = h.blocks[p]
  BY <1>1, NextBlock
<1> HIDE DEF k
<1>3. DOMAIN k.blocks = 1 .. (m + 1) /\ DOMAIN new # {"text"}
  BY <1>2, NoString DEF Dense, IsBare
<1>4. ItemsIn(k) = ItemsIn(h) \cup {m + 1}
  <2>1. \A p \in 1 .. m : (DOMAIN k.blocks[p] # {"text"}) <=> (DOMAIN h.blocks[p] # {"text"})
    BY <1>2
  <2>2. 1 .. (m + 1) = (1 .. m) \cup {m + 1}
    BY <1>1
  <2> QED
    BY <1>1, <1>2, <1>3, <2>1, <2>2 DEF ItemsIn
<1>5. Typed(k)
  <2> SUFFICES ASSUME NEW p \in ItemsIn(k)
               PROVE  IsItem(k.blocks[p]) /\ k.blocks[p].reference = FALSE
    BY DEF Typed
  <2>1. CASE p = m + 1
    BY <1>2, <2>1 DEF IsBare
  <2>2. CASE p \in ItemsIn(h)
    <3>1. p \in 1 .. m /\ IsItem(h.blocks[p]) /\ h.blocks[p].reference = FALSE
      BY <1>1, <2>2 DEF ItemsIn, Forest, Typed
    <3> QED
      BY <1>2, <3>1
  <2> QED
    BY <1>4, <2>1, <2>2
<1>6. \A p \in ItemsIn(h) : SamePointers(h, k, p)
  BY <1>1, <1>2 DEF SamePointers, To, ItemsIn
<1>7. \A s \in Slots : To(k, m + 1, s) = NULL
  BY <1>2 DEF IsBare, To
<1>8. Forest(k, m + 1, roots \cup {m + 1})
  BY <1>2, <1>4, <1>5, <1>6, <1>7, ForestRooted
<1> QED
  BY <1>4, <1>6, <1>8 DEF k

\* What the parser writes to an item, as one write.
LEMMA ChangedTwice ==
  ASSUME NEW h, NEW g, NEW k, NEW m, NEW x, NEW one, NEW two,
         Changed(h, g, m, x, one), Changed(g, k, m, x, two)
  PROVE  Changed(h, k, m, x, two)
  BY DEF Changed

\* A block allocated and an item written, then the item again, is one write of both.
LEMMA GrewThenChanged ==
  ASSUME NEW h, NEW g, NEW k, NEW m \in Nat, NEW x \in 1 .. m, NEW one, NEW two, NEW new,
         Grew(h, g, m, x, one, new), Changed(g, k, m + 1, x, two)
  PROVE  Grew(h, k, m, x, two, new)
<1>1. m + 1 \in (1 .. (m + 1)) \ {x} /\ (1 .. m) \ {x} \subseteq (1 .. (m + 1)) \ {x}
  OBVIOUS
<1> QED
  BY <1>1 DEF Changed, Grew

\* A literal is one write of its item,
LEMMA LiteralWrites ==
  ASSUME NEW h, NEW m, Dense(h, m), NEW x \in 1 .. m, IsItem(h.blocks[x]), NEW token
  PROVE  Changed(h, ParseLiteral(h, token, x), m, x, LiteralItem(h.blocks[x], token))
<1> DEFINE type == CASE token.kind = "null" -> "NULL" [] token.kind = "false" -> "False"
                     [] OTHER -> "True"
           it == [h.blocks[x] EXCEPT !.type = type]
           g  == Rewrite(h, x, it)
           k  == Rewrite(g, x, LiteralItem(h.blocks[x], token))
<1>1. Changed(h, g, m, x, it)
  BY Rewritten
<1>2. Dense(g, m) /\ g.blocks[x] = it
  BY <1>1 DEF Changed
<1> HIDE DEF g
<1>3. ParseLiteral(h, token, x) =
        Rewrite(g, x, [it EXCEPT !.valueint = IF token.kind = "true" THEN 1 ELSE @])
  <2>1. [h EXCEPT !.blocks[x].type = type] = g
    BY DEF Rewrite, g
  <2> HIDE DEF it
  <2>2. ParseLiteral(h, token, x) =
          [g EXCEPT !.blocks[x].valueint = IF token.kind = "true" THEN 1 ELSE @]
    BY <2>1 DEF ParseLiteral
  <2> QED
    BY <1>2, <2>2 DEF Rewrite
<1>4. [it EXCEPT !.valueint = IF token.kind = "true" THEN 1 ELSE @]
        = LiteralItem(h.blocks[x], token)
  BY DEF LiteralItem
<1>5. Changed(g, k, m, x, LiteralItem(h.blocks[x], token))
  BY <1>2, Rewritten
<1> HIDE DEF k, it
<1>6. Changed(h, k, m, x, LiteralItem(h.blocks[x], token))
  BY <1>1, <1>5, ChangedTwice
<1> QED
  BY <1>3, <1>4, <1>6 DEF k

\* and so is a number.
LEMMA NumberWrites ==
  ASSUME NEW h, NEW m, Dense(h, m), NEW x \in 1 .. m, IsItem(h.blocks[x]), NEW token
  PROVE  Changed(h, ParseNumber(h, token, x), m, x, NumberItem(h.blocks[x], token))
<1> DEFINE it1 == [h.blocks[x] EXCEPT !.type = "Number"]
           it2 == [it1 EXCEPT !.valuedouble = token.number]
           g1  == Rewrite(h, x, it1)
           g2  == Rewrite(g1, x, it2)
           k   == Rewrite(g2, x, NumberItem(h.blocks[x], token))
<1>1. Changed(h, g1, m, x, it1)
  BY Rewritten
<1>2. Dense(g1, m) /\ g1.blocks[x] = it1
  BY <1>1 DEF Changed
<1> HIDE DEF g1
<1>3. Changed(g1, g2, m, x, it2)
  BY <1>2, Rewritten
<1>4. Dense(g2, m) /\ g2.blocks[x] = it2
  BY <1>3 DEF Changed
<1> HIDE DEF g2
<1>5. [h EXCEPT !.blocks[x].type = "Number", !.blocks[x].valuedouble = token.number] = g2
  BY <1>2 DEF Rewrite, g1, g2
<1>6. ParseNumber(h, token, x) = Rewrite(g2, x, [it2 EXCEPT !.valueint = Saturate(token.number)])
  BY <1>4, <1>5 DEF ParseNumber, Rewrite
<1>7. [it2 EXCEPT !.valueint = Saturate(token.number)] = NumberItem(h.blocks[x], token)
  BY DEF NumberItem
<1>8. Changed(g2, k, m, x, NumberItem(h.blocks[x], token))
  BY <1>4, Rewritten
<1> HIDE DEF k, it1, it2
<1>9. Changed(h, k, m, x, NumberItem(h.blocks[x], token))
  BY <1>1, <1>3, <1>8, ChangedTwice
<1> QED
  BY <1>6, <1>7, <1>9 DEF k

Text(token) == [text |-> token.text]

\* A string is a block more and one write of its item,
LEMMA StringWrites ==
  ASSUME NEW h, NEW m, Dense(h, m), NEW x \in 1 .. m, IsItem(h.blocks[x]), NEW token
  PROVE  Grew(h, ParseString(h, token, x), m, x, StringItem(h.blocks[x], m + 1), Text(token))
<1> DEFINE g0 == Allocate(h, Text(token))
           it == [h.blocks[x] EXCEPT !.type = "String"]
           g  == Rewrite(g0, x, it)
           k  == Rewrite(g, x, StringItem(h.blocks[x], m + 1))
<1>0. m \in Nat /\ x \in 1 .. (m + 1)
  BY DEF Dense
<1>1. Fresh(h) = m + 1 /\ \A p \in 1 .. m : g0.blocks[p] = h.blocks[p]
  BY NextBlock
<1>2. Grew(h, g, m, x, it, Text(token))
  BY AllocatedAndWritten
<1>3. Dense(g, m + 1) /\ g.blocks[x] = it
  BY <1>2 DEF Grew
<1>4. ParseString(h, token, x) =
        [g0 EXCEPT !.blocks[x].type = "String", !.blocks[x].valuestring = m + 1]
  BY <1>1 DEF ParseString, Strdup, Text
<1> HIDE DEF g0
<1>5. g = Rewrite(g0, x, [g0.blocks[x] EXCEPT !.type = "String"])
  BY <1>1
<1> HIDE DEF g
<1>6. ParseString(h, token, x) = Rewrite(g, x, [it EXCEPT !.valuestring = m + 1])
  BY <1>3, <1>4, <1>5 DEF Rewrite
<1>7. [it EXCEPT !.valuestring = m + 1] = StringItem(h.blocks[x], m + 1)
  BY DEF StringItem
<1>8. Changed(g, k, m + 1, x, StringItem(h.blocks[x], m + 1))
  BY <1>0, <1>3, Rewritten
<1> HIDE DEF k, it
<1>9. Grew(h, k, m, x, StringItem(h.blocks[x], m + 1), Text(token))
  BY <1>0, <1>2, <1>8, GrewThenChanged
<1> QED
  BY <1>6, <1>7, <1>9 DEF k

\* and so is a name.
LEMMA NameWrites ==
  ASSUME NEW h, NEW m, Dense(h, m), NEW x \in 1 .. m, IsItem(h.blocks[x]), NEW token
  PROVE  Grew(h, NameMoved(ParseString(h, token, x), x), m, x,
              NamedItem(h.blocks[x], m + 1), Text(token))
<1> DEFINE g1 == ParseString(h, token, x)
           it == [g1.blocks[x] EXCEPT !.string = g1.blocks[x].valuestring]
           g2 == Rewrite(g1, x, it)
           k  == Rewrite(g2, x, NamedItem(h.blocks[x], m + 1))
<1>0. m \in Nat /\ x \in 1 .. (m + 1)
  BY DEF Dense
<1>1. Grew(h, g1, m, x, StringItem(h.blocks[x], m + 1), Text(token))
  BY StringWrites
<1> HIDE DEF g1
<1>2. Dense(g1, m + 1) /\ g1.blocks[x] = StringItem(h.blocks[x], m + 1)
  BY <1>1 DEF Grew
<1>3. Changed(g1, g2, m + 1, x, it)
  BY <1>0, <1>2, Rewritten
<1>4. Dense(g2, m + 1) /\ g2.blocks[x] = it
  BY <1>3 DEF Changed
<1> HIDE DEF g2
<1>5. NameMoved(g1, x) = Rewrite(g2, x, [it EXCEPT !.valuestring = NULL])
  BY <1>4 DEF NameMoved, Rewrite, g2
<1>6. [it EXCEPT !.valuestring = NULL] = NamedItem(h.blocks[x], m + 1)
  BY <1>2 DEF StringItem, NamedItem, IsItem
<1>7. Changed(g2, k, m + 1, x, NamedItem(h.blocks[x], m + 1))
  BY <1>0, <1>4, Rewritten
<1> HIDE DEF k, it
<1>8. Changed(g1, k, m + 1, x, NamedItem(h.blocks[x], m + 1))
  BY <1>3, <1>7, ChangedTwice
<1>9. Grew(h, k, m, x, NamedItem(h.blocks[x], m + 1), Text(token))
  BY <1>0, <1>1, <1>8, GrewThenChanged
<1> QED
  BY <1>5, <1>6, <1>9 DEF k, g1
-----------------------------------------------------------------------------
(* The frames of the lists that are open lie one behind the other.         *)

FrameSet == [item : Nat, named : BOOLEAN, head : Nat, last : Nat]

Heads(F) == {F[k].head : k \in 1 .. Len(F)} \ {NULL}

\* The item that the top of the stack reads.
CurrentOf(item, F) == IF F = <<>> THEN item ELSE F[Len(F)].last

\* A list that has a member, and one that has none yet.
Begun(h, f) ==
  /\ f.head \in ItemsIn(h) /\ f.last \in ItemsIn(h)
  /\ f.item < f.head /\ f.head <= f.last /\ To(h, f.last, "next") = NULL
Bare(f) == f.head = NULL /\ f.last = NULL

\* Its item has no children while it is read.
Open(h, item, x) == x \in ItemsIn(h) /\ item <= x /\ To(h, x, "child") = NULL

\* The stack of frames: the top one has no member while the first is expected.
Frames(h, item, F, expects) ==
  /\ item \in ItemsIn(h) /\ ItemsIn(h) \subseteq Nat \ {NULL}
  /\ F \in Seq(FrameSet)
  /\ expects = "member" => Len(F) > 0
  /\ \A k \in 1 .. Len(F) : F[k].item = IF k = 1 THEN item ELSE F[k - 1].last
  /\ \A k \in 1 .. Len(F) : Open(h, item, F[k].item)
  /\ \A k \in 1 .. Len(F) : IF expects = "member" /\ k = Len(F) THEN Bare(F[k]) ELSE Begun(h, F[k])
  /\ \A k \in 1 .. Len(F) : \A j \in 1 .. (k - 1) : F[j].last <= F[k].item

\* What each frame is in: the heap keeps the items and how they are linked.
Keeps(h, k) ==
  /\ ItemsIn(h) \subseteq ItemsIn(k) /\ ItemsIn(k) \subseteq Nat \ {NULL}
  /\ \A p \in ItemsIn(h) : /\ To(k, p, "child") = To(h, p, "child")
                           /\ To(k, p, "next") = To(h, p, "next")

\* The fields of a frame, by their types.
LEMMA FrameIs ==
  ASSUME NEW F \in Seq(FrameSet), NEW k \in 1 .. Len(F)
  PROVE  /\ F[k].item \in Nat /\ F[k].head \in Nat /\ F[k].last \in Nat /\ F[k].named \in BOOLEAN
         /\ Len(F) \in Nat /\ k \in Nat
<1> DEFINE f == F[k]
<1>1. f \in FrameSet
  BY ElementOfSeq
<1>2. Len(F) \in Nat /\ k \in Nat
  BY LenProperties
<1> HIDE DEF f
<1>3. f.item \in Nat /\ f.head \in Nat /\ f.last \in Nat /\ f.named \in BOOLEAN
  BY <1>1 DEF FrameSet
<1> QED
  BY <1>2, <1>3 DEF f

\* A heap that keeps the items and their links keeps the frames.
LEMMA FramesKept ==
  ASSUME NEW h, NEW item, NEW F, NEW expects, Frames(h, item, F, expects), expects # "member",
         NEW k, Keeps(h, k), NEW then, then # "member"
  PROVE  Frames(k, item, F, then)
<1>1. ASSUME NEW n \in 1 .. Len(F) PROVE Open(k, item, F[n].item)
  <2>1. Open(h, item, F[n].item)
    BY DEF Frames
  <2> QED
    BY <2>1 DEF Open, Keeps
<1>2. ASSUME NEW n \in 1 .. Len(F)
      PROVE  Begun(k, F[n])
  <2>1. Begun(h, F[n])
    BY DEF Frames
  <2> QED
    BY <2>1 DEF Begun, Keeps
<1>3. item \in ItemsIn(k) /\ ItemsIn(k) \subseteq Nat \ {NULL}
  BY DEF Frames, Keeps
<1> QED
  BY <1>1, <1>2, <1>3 DEF Frames

\* All the roots lie in front of the item that is read.
LEMMA RootsBehind ==
  ASSUME NEW h, NEW item, NEW F, NEW expects, Frames(h, item, F, expects), expects # "member"
  PROVE  /\ CurrentOf(item, F) \in ItemsIn(h) /\ item <= CurrentOf(item, F)
         /\ \A r \in {item} \cup Heads(F) : r <= CurrentOf(item, F)
<1>1. item \in ItemsIn(h) /\ item \in Nat /\ F \in Seq(FrameSet) /\ Len(F) \in Nat
  BY LenProperties DEF Frames
<1>2. CASE Len(F) = 0
  <2>1. F = <<>> /\ Heads(F) = {}
    BY <1>1, <1>2, EmptySeq DEF Heads
  <2> QED
    BY <1>1, <2>1 DEF CurrentOf
<1>3. CASE Len(F) # 0
  <2> DEFINE n == Len(F)
  <2>1. n \in 1 .. Len(F) /\ F # <<>> /\ CurrentOf(item, F) = F[n].last
    BY <1>1, <1>3, EmptySeq DEF CurrentOf
  <2> HIDE DEF n
  <2>2. Begun(h, F[n]) /\ Open(h, item, F[n].item)
    BY <2>1 DEF Frames
  <2>3. /\ F[n].last \in ItemsIn(h) /\ F[n].item < F[n].head /\ F[n].head <= F[n].last
        /\ item <= F[n].item
    BY <2>2 DEF Begun, Open
  <2>4. F[n].item \in Nat /\ F[n].head \in Nat /\ F[n].last \in Nat
    BY <1>1, <2>1, FrameIs
  <2>5. ASSUME NEW k \in 1 .. Len(F) PROVE F[k].head <= F[n].last
    <3>1. F[k].head \in Nat /\ F[k].last \in Nat /\ F[k].item \in Nat /\ Begun(h, F[k])
      BY <1>1, FrameIs DEF Frames
    <3>2. CASE k = n
      BY <2>3, <3>2
    <3>3. CASE k # n
      <4>1. k \in 1 .. (n - 1)
        BY <1>1, <3>3 DEF n
      <4>2. F[k].last <= F[n].item
        BY <2>1, <4>1 DEF Frames
      <4>3. F[k].head <= F[k].last
        BY <2>3, <2>4, <3>1 DEF Begun
      <4> DEFINE kh == F[k].head
                 kl == F[k].last
                 ni == F[n].item
                 nh == F[n].head
                 nl == F[n].last
      <4>4. /\ kh \in Nat /\ kl \in Nat /\ ni \in Nat /\ nh \in Nat /\ nl \in Nat
            /\ kh <= kl /\ kl <= ni /\ ni < nh /\ nh <= nl
        BY <2>3, <2>4, <3>1, <4>2, <4>3
      <4> HIDE DEF kh, kl, ni, nh, nl
      <4>5. kh <= nl
        BY <4>4
      <4> QED
        BY <4>5 DEF kh, nl
    <3> QED
      BY <3>2, <3>3
  <2>6. \A r \in Heads(F) : r <= F[n].last
    BY <2>5 DEF Heads
  <2> QED
    BY <1>1, <2>1, <2>3, <2>4, <2>6
<1> QED
  BY <1>2, <1>3

\* A frame without members adds no root.
LEMMA HeadsPushed ==
  ASSUME NEW F \in Seq(FrameSet), NEW f \in FrameSet, Bare(f)
  PROVE  Heads(Append(F, f)) = Heads(F)
<1> DEFINE G == Append(F, f)
           n == Len(F)
<1>1. n \in Nat
  BY LenProperties
<1>2. /\ G \in Seq(FrameSet) /\ Len(G) = n + 1 /\ G[n + 1] = f
      /\ \A k \in 1 .. n : G[k] = F[k]
  BY AppendProperties
<1> HIDE DEF G
<1>3. \A k \in 1 .. Len(G) : k = n + 1 \/ k \in 1 .. n
  BY <1>1, <1>2
<1>4. \A k \in 1 .. n : k \in 1 .. Len(G)
  BY <1>1, <1>2
<1>5. Heads(G) = Heads(F)
  BY <1>2, <1>3, <1>4 DEF Heads, Bare
<1> QED
  BY <1>5 DEF G

\* A list is opened at the item that is read.
LEMMA FramePushed ==
  ASSUME NEW h, NEW item, NEW F, NEW expects, Frames(h, item, F, expects), expects # "member",
         To(h, CurrentOf(item, F), "child") = NULL,
         NEW f \in FrameSet, f.item = CurrentOf(item, F), Bare(f)
  PROVE  Frames(h, item, Append(F, f), "member")
<1> DEFINE x == CurrentOf(item, F)
           G == Append(F, f)
           n == Len(F)
<1>1. item \in ItemsIn(h) /\ item \in Nat /\ F \in Seq(FrameSet) /\ n \in Nat
  BY LenProperties DEF Frames
<1>2. /\ x \in ItemsIn(h) /\ x \in Nat /\ item <= x
      /\ \A r \in {item} \cup Heads(F) : r <= x
  BY RootsBehind DEF Frames
<1>3. f \in FrameSet /\ f.item = x /\ f.head = NULL /\ f.last = NULL
  BY DEF Bare
<1>4. x = IF n = 0 THEN item ELSE F[n].last
  BY <1>1, EmptySeq DEF CurrentOf
<1> HIDE DEF x
<1>5. /\ G \in Seq(FrameSet) /\ Len(G) = n + 1 /\ G[n + 1] = f
      /\ \A k \in 1 .. n : G[k] = F[k]
  BY <1>1, <1>3, AppendProperties
<1> HIDE DEF G
<1>6. \A k \in 1 .. Len(G) : k = n + 1 \/ k \in 1 .. n
  BY <1>1, <1>5
<1>7. ASSUME NEW k \in 1 .. Len(G) PROVE G[k].item = IF k = 1 THEN item ELSE G[k - 1].last
  <2>1. CASE k \in 1 .. n
    <3>1. F[k].item = IF k = 1 THEN item ELSE F[k - 1].last
      BY <2>1 DEF Frames
    <3>2. k # 1 => k - 1 \in 1 .. n
      BY <1>1, <2>1
    <3> QED
      BY <1>5, <2>1, <3>1, <3>2
  <2>2. CASE k = n + 1
    <3>1. k # 1 => k - 1 \in 1 .. n /\ k - 1 = n
      BY <1>1, <2>2
    <3> QED
      BY <1>1, <1>3, <1>4, <1>5, <2>2, <3>1
  <2> QED
    BY <1>6, <2>1, <2>2
<1>8. ASSUME NEW k \in 1 .. Len(G) PROVE Open(h, item, G[k].item)
  <2>1. CASE k \in 1 .. n
    BY <1>5, <2>1 DEF Frames
  <2>2. CASE k = n + 1
    BY <1>2, <1>3, <1>5, <2>2 DEF Open, x
  <2> QED
    BY <1>6, <2>1, <2>2
<1>9. ASSUME NEW k \in 1 .. Len(G) PROVE IF k = Len(G) THEN Bare(G[k]) ELSE Begun(h, G[k])
  <2>1. CASE k \in 1 .. n
    <3>1. k # Len(G)
      BY <1>1, <1>5, <2>1
    <3> QED
      BY <1>5, <2>1, <3>1 DEF Frames
  <2>2. CASE k = n + 1
    BY <1>3, <1>5, <2>2 DEF Bare
  <2> QED
    BY <1>6, <2>1, <2>2
<1>10. ASSUME NEW k \in 1 .. Len(G), NEW j \in 1 .. (k - 1) PROVE G[j].last <= G[k].item
  <2>1. j \in 1 .. n /\ j \in Nat /\ k \in Nat /\ G[j] = F[j]
    BY <1>1, <1>5
  <2>2. CASE k \in 1 .. n
    BY <1>5, <2>1, <2>2 DEF Frames
  <2>3. CASE k = n + 1
    <3>1. CASE j = n
      <4>1. F[n].last = x /\ F[n].last \in Nat
        BY <1>2, <1>4, <2>1, <3>1
      <4> QED
        BY <1>3, <1>5, <2>1, <2>3, <3>1, <4>1
    <3>2. CASE j # n
      <4>1. n \in 1 .. n /\ j \in 1 .. (n - 1) /\ x = F[n].last
        BY <1>1, <1>4, <2>1, <3>2
      <4>2. F[j].last <= F[n].item /\ Begun(h, F[n])
        BY <4>1 DEF Frames
      <4>3. F[n].item \in Nat /\ F[n].head \in Nat /\ F[n].last \in Nat /\ F[j].last \in Nat
        BY <1>1, <2>1, <4>1, FrameIs
      <4>4. F[j].last <= x
        BY <4>1, <4>2, <4>3 DEF Begun
      <4> QED
        BY <1>3, <1>5, <2>1, <2>3, <4>4
    <3> QED
      BY <3>1, <3>2
  <2> QED
    BY <1>6, <2>2, <2>3
<1>11. Len(G) > 0 /\ ItemsIn(h) \subseteq Nat \ {NULL}
  BY <1>1, <1>5 DEF Frames
<1>12. Frames(h, item, G, "member")
  BY <1>1, <1>5, <1>7, <1>8, <1>9, <1>10, <1>11 DEF Frames
<1> QED
  BY <1>12 DEF G

\* As above, but for what x is linked to, and for what is below y.
KeepsBut(h, k, x, y) ==
  /\ ItemsIn(h) \subseteq ItemsIn(k) /\ ItemsIn(k) \subseteq Nat \ {NULL}
  /\ \A p \in ItemsIn(h) : p # y => To(k, p, "child") = To(h, p, "child")
  /\ \A p \in ItemsIn(h) : p # x => To(k, p, "next") = To(h, p, "next")

\* The lists below the top one do not end with its item, or behind it.
LEMMA BelowTop ==
  ASSUME NEW h, NEW item, NEW F, NEW expects, Frames(h, item, F, expects), NEW n, n = Len(F), n > 0,
         NEW k \in 1 .. (n - 1)
  PROVE  /\ k \in 1 .. n /\ k # n /\ Begun(h, F[k]) /\ Open(h, item, F[k].item)
         /\ F[k].last # F[n].last /\ F[k].item # F[n].item /\ F[k].head <= F[n].item
<1>1. F \in Seq(FrameSet) /\ n \in Nat /\ NULL \notin ItemsIn(h)
  BY LenProperties DEF Frames
<1>2. k \in 1 .. n /\ n \in 1 .. n /\ k # n
  BY <1>1
<1>3. Begun(h, F[k]) /\ Open(h, item, F[k].item) /\ F[k].last <= F[n].item
  BY <1>2 DEF Frames
<1>4. Bare(F[n]) \/ Begun(h, F[n])
  BY <1>2 DEF Frames
<1>5. /\ F[k].item \in Nat /\ F[k].head \in Nat /\ F[k].last \in Nat
      /\ F[n].item \in Nat /\ F[n].head \in Nat /\ F[n].last \in Nat
  BY <1>1, <1>2, FrameIs
<1>6. /\ F[k].last \in ItemsIn(h) /\ F[k].item < F[k].head /\ F[k].head <= F[k].last
  BY <1>3 DEF Begun
<1>7. F[k].last # F[n].last
  <2>1. CASE Bare(F[n])
    BY <1>1, <1>6, <2>1 DEF Bare
  <2>2. CASE Begun(h, F[n])
    BY <1>3, <1>5, <2>2 DEF Begun
  <2> QED
    BY <1>4, <2>1, <2>2
<1>8. F[k].item # F[n].item /\ F[k].head <= F[n].item
  BY <1>3, <1>5, <1>6
<1> QED
  BY <1>2, <1>3, <1>7, <1>8

\* The top list has a new last member.
LEMMA TopReplaced ==
  ASSUME NEW h, NEW item, NEW F, NEW expects, Frames(h, item, F, expects), NEW n, n = Len(F), n > 0,
         NEW k, KeepsBut(h, k, F[n].last, NULL), NEW f \in FrameSet, f.item = F[n].item, Begun(k, f),
         NEW then, then # "member"
  PROVE  Frames(k, item, [F EXCEPT ![n] = f], then)
<1> DEFINE G == [F EXCEPT ![n] = f]
<1>1. /\ item \in ItemsIn(h) /\ F \in Seq(FrameSet) /\ n \in Nat /\ n \in 1 .. n
      /\ NULL \notin ItemsIn(h)
  <2>1. item \in ItemsIn(h) /\ F \in Seq(FrameSet) /\ NULL \notin ItemsIn(h)
    BY DEF Frames
  <2>2. n \in Nat
    BY <2>1, LenProperties
  <2> QED
    BY <2>1, <2>2
<1>2. /\ G \in Seq(FrameSet) /\ Len(G) = n /\ G[n] = f
      /\ \A i \in 1 .. n : i # n => G[i] = F[i]
  BY <1>1, ExceptSeq
<1> HIDE DEF G
<1>3. ASSUME NEW i \in 1 .. n PROVE G[i].item = F[i].item
  BY <1>2
<1>4. ASSUME NEW i \in 1 .. n PROVE G[i].item = IF i = 1 THEN item ELSE G[i - 1].last
  <2>1. F[i].item = IF i = 1 THEN item ELSE F[i - 1].last
    BY DEF Frames
  <2>2. i # 1 => i - 1 \in 1 .. n /\ i - 1 # n
    BY <1>1
  <2> QED
    BY <1>2, <1>3, <2>1, <2>2
<1>5. ASSUME NEW i \in 1 .. n PROVE Open(k, item, G[i].item)
  <2>1. Open(h, item, F[i].item)
    BY DEF Frames
  <2> QED
    BY <1>1, <1>3, <2>1 DEF Open, KeepsBut
<1>6. ASSUME NEW i \in 1 .. n PROVE Begun(k, G[i])
  <2>1. CASE i = n
    BY <1>2, <2>1
  <2>2. CASE i # n
    <3>1. i \in 1 .. (n - 1)
      BY <1>1, <2>2
    <3>2. Begun(h, F[i]) /\ F[i].last # F[n].last
      BY <3>1, BelowTop
    <3> QED
      BY <1>2, <2>2, <3>2 DEF Begun, KeepsBut
  <2> QED
    BY <2>1, <2>2
<1>7. ASSUME NEW i \in 1 .. n, NEW j \in 1 .. (i - 1) PROVE G[j].last <= G[i].item
  <2>1. j \in 1 .. n /\ j # n
    BY <1>1
  <2>2. F[j].last <= F[i].item
    BY DEF Frames
  <2> QED
    BY <1>2, <1>3, <2>1, <2>2
<1>8. item \in ItemsIn(k) /\ ItemsIn(k) \subseteq Nat \ {NULL}
  BY <1>1 DEF KeepsBut
<1> QED
  BY <1>2, <1>4, <1>5, <1>6, <1>7, <1>8 DEF Frames, G

\* The heads of a stack with its top replaced.
LEMMA HeadsReplaced ==
  ASSUME NEW F \in Seq(FrameSet), NEW n, n = Len(F), n > 0, NEW f \in FrameSet
  PROVE  /\ F[n].head \in {NULL, f.head} =>
              Heads([F EXCEPT ![n] = f]) = Heads(F) \cup ({f.head} \ {NULL})
         /\ CurrentOf(f.last, [F EXCEPT ![n] = f]) = f.last
<1> DEFINE G == [F EXCEPT ![n] = f]
<1>1. n \in Nat
  BY LenProperties
<1>2. n \in 1 .. n
  BY <1>1
<1>3. /\ G \in Seq(FrameSet) /\ Len(G) = n /\ G[n] = f
      /\ \A i \in 1 .. n : i # n => G[i] = F[i]
  BY <1>1, <1>2, ExceptSeq
<1> HIDE DEF G
<1>4. ASSUME F[n].head \in {NULL, f.head}
      PROVE  Heads(G) = Heads(F) \cup ({f.head} \ {NULL})
  <2>1. Heads(G) \subseteq Heads(F) \cup ({f.head} \ {NULL})
    BY <1>3 DEF Heads
  <2>2. ASSUME NEW r \in Heads(F) PROVE r \in Heads(G)
    <3>1. PICK i \in 1 .. n : r = F[i].head /\ r # NULL
      BY DEF Heads
    <3>2. G[i].head = r
      BY <1>3, <1>4, <3>1
    <3> QED
      BY <1>3, <3>1, <3>2 DEF Heads
  <2>3. f.head # NULL => f.head \in Heads(G)
    BY <1>2, <1>3 DEF Heads
  <2> QED
    BY <2>1, <2>2, <2>3
<1>5. G # <<>>
  BY <1>1, <1>3, EmptySeq
<1>6. CurrentOf(f.last, G) = f.last
  BY <1>3, <1>5 DEF CurrentOf
<1> QED
  BY <1>4, <1>6 DEF G

\* The frames below the top one, and their roots.
LEMMA FrontRoots ==
  ASSUME NEW h, NEW item, NEW F, NEW expects, Frames(h, item, F, expects), NEW n, n = Len(F), n > 0
  PROVE  /\ CurrentOf(item, Front(F)) = F[n].item
         /\ Heads(F) = Heads(Front(F)) \cup ({F[n].head} \ {NULL})
         /\ \A r \in {item} \cup Heads(Front(F)) : r <= F[n].item
<1> DEFINE G == Front(F)
<1>1. /\ item \in ItemsIn(h) /\ F \in Seq(FrameSet) /\ n \in Nat /\ NULL \notin ItemsIn(h)
      /\ item \in Nat
  <2>1. item \in ItemsIn(h) /\ F \in Seq(FrameSet) /\ NULL \notin ItemsIn(h) /\ item \in Nat
    BY DEF Frames
  <2> QED
    BY <2>1, LenProperties
<1>2. n \in 1 .. n /\ n - 1 \in Nat /\ \A i \in 1 .. n : i = n \/ i \in 1 .. (n - 1)
  BY <1>1
<1>3. G \in Seq(FrameSet) /\ Len(G) = n - 1 /\ \A i \in 1 .. (n - 1) : G[i] = F[i]
  <2>1. G = SubSeq(F, 1, n - 1)
    BY DEF Front
  <2>2. \A i \in 1 .. (n - 1) : F[i] \in FrameSet
    BY <1>1, <1>2, ElementOfSeq
  <2>3. 1 \in Int /\ n - 1 \in Int /\ (n - 1) - 1 + 1 = n - 1
    BY <1>1
  <2>4. /\ SubSeq(F, 1, n - 1) \in Seq(FrameSet)
        /\ Len(SubSeq(F, 1, n - 1)) = IF 1 <= n - 1 THEN (n - 1) - 1 + 1 ELSE 0
        /\ \A i \in 1 .. ((n - 1) - 1 + 1) : SubSeq(F, 1, n - 1)[i] = F[1 + i - 1]
    BY <2>2, <2>3, SubSeqProperties
  <2>5. \A i \in 1 .. (n - 1) : 1 + i - 1 = i
    BY <1>1
  <2> QED
    BY <1>2, <2>1, <2>3, <2>4, <2>5
<1> HIDE DEF G
<1>4. ASSUME NEW i \in 1 .. (n - 1)
      PROVE  /\ i \in 1 .. n /\ i # n /\ Begun(h, F[i]) /\ Open(h, item, F[i].item)
             /\ F[i].item # F[n].item /\ F[i].head <= F[n].item
  BY BelowTop
<1>5. CurrentOf(item, G) = F[n].item
  <2>1. F[n].item = IF n = 1 THEN item ELSE F[n - 1].last
    BY <1>2 DEF Frames
  <2>2. CASE n = 1
    BY <1>3, <2>1, <2>2, EmptySeq DEF CurrentOf
  <2>3. CASE n # 1
    <3>1. G # <<>> /\ n - 1 \in 1 .. (n - 1)
      BY <1>1, <1>3, <2>3, EmptySeq
    <3> QED
      BY <1>3, <2>1, <2>3, <3>1 DEF CurrentOf
  <2> QED
    BY <2>2, <2>3
<1>6. Heads(F) = Heads(G) \cup ({F[n].head} \ {NULL})
  <2>1. \A i \in 1 .. (n - 1) : i \in 1 .. n /\ G[i].head = F[i].head
    BY <1>3, <1>4
  <2>2. Heads(G) = {F[i].head : i \in 1 .. (n - 1)} \ {NULL}
    BY <1>3, <2>1 DEF Heads
  <2>3. {F[i].head : i \in 1 .. n} = {F[i].head : i \in 1 .. (n - 1)} \cup {F[n].head}
    <3>1. 1 .. n = (1 .. (n - 1)) \cup {n}
      BY <1>2
    <3> QED
      BY <3>1
  <2> QED
    BY <2>2, <2>3 DEF Heads
<1>7. \A r \in {item} \cup Heads(G) : r <= F[n].item
  <2>1. item <= F[n].item
    BY <1>2 DEF Frames, Open
  <2>2. ASSUME NEW r \in Heads(G) PROVE r <= F[n].item
    <3>1. PICK i \in 1 .. (n - 1) : r = G[i].head
      BY <1>3 DEF Heads
    <3> QED
      BY <1>3, <1>4, <3>1
  <2> QED
    BY <2>1, <2>2
<1> QED
  BY <1>5, <1>6, <1>7 DEF G

\* The top list is hung on its item.
LEMMA FramePopped ==
  ASSUME NEW h, NEW item, NEW F, NEW expects, Frames(h, item, F, expects), NEW n, n = Len(F), n > 0,
         NEW k, KeepsBut(h, k, NULL, F[n].item), NEW then, then # "member"
  PROVE  Frames(k, item, Front(F), then)
<1> DEFINE G == Front(F)
<1>1. /\ item \in ItemsIn(h) /\ F \in Seq(FrameSet) /\ n \in Nat /\ NULL \notin ItemsIn(h)
      /\ item \in Nat
  <2>1. item \in ItemsIn(h) /\ F \in Seq(FrameSet) /\ NULL \notin ItemsIn(h) /\ item \in Nat
    BY DEF Frames
  <2> QED
    BY <2>1, LenProperties
<1>2. n \in 1 .. n /\ n - 1 \in Nat /\ \A i \in 1 .. n : i = n \/ i \in 1 .. (n - 1)
  BY <1>1
<1>3. G \in Seq(FrameSet) /\ Len(G) = n - 1 /\ \A i \in 1 .. (n - 1) : G[i] = F[i]
  <2>1. G = SubSeq(F, 1, n - 1)
    BY DEF Front
  <2>2. \A i \in 1 .. (n - 1) : F[i] \in FrameSet
    BY <1>1, <1>2, ElementOfSeq
  <2>3. 1 \in Int /\ n - 1 \in Int /\ (n - 1) - 1 + 1 = n - 1
    BY <1>1
  <2>4. /\ SubSeq(F, 1, n - 1) \in Seq(FrameSet)
        /\ Len(SubSeq(F, 1, n - 1)) = IF 1 <= n - 1 THEN (n - 1) - 1 + 1 ELSE 0
        /\ \A i \in 1 .. ((n - 1) - 1 + 1) : SubSeq(F, 1, n - 1)[i] = F[1 + i - 1]
    BY <2>2, <2>3, SubSeqProperties
  <2>5. \A i \in 1 .. (n - 1) : 1 + i - 1 = i
    BY <1>1
  <2> QED
    BY <1>2, <2>1, <2>3, <2>4, <2>5
<1> HIDE DEF G
<1>4. ASSUME NEW i \in 1 .. (n - 1)
      PROVE  /\ i \in 1 .. n /\ i # n /\ Begun(h, F[i]) /\ Open(h, item, F[i].item)
             /\ F[i].item # F[n].item /\ F[i].head <= F[n].item
  BY BelowTop
<1>5. ASSUME NEW i \in 1 .. (n - 1) PROVE G[i].item = IF i = 1 THEN item ELSE G[i - 1].last
  <2>1. F[i].item = IF i = 1 THEN item ELSE F[i - 1].last
    BY <1>4 DEF Frames
  <2>2. i # 1 => i - 1 \in 1 .. (n - 1)
    BY <1>1
  <2> QED
    BY <1>3, <2>1, <2>2
<1>6. ASSUME NEW i \in 1 .. (n - 1) PROVE Open(k, item, G[i].item)
  <2>1. F[i].item \in ItemsIn(k) /\ To(k, F[i].item, "child") = NULL
    BY <1>4 DEF Open, KeepsBut
  <2> QED
    BY <1>3, <1>4, <2>1 DEF Open
<1>7. ASSUME NEW i \in 1 .. (n - 1) PROVE Begun(k, G[i])
  <2>1. Begun(h, F[i])
    BY <1>4
  <2> QED
    BY <1>1, <1>3, <2>1 DEF Begun, KeepsBut
<1>8. ASSUME NEW i \in 1 .. (n - 1), NEW j \in 1 .. (i - 1) PROVE G[j].last <= G[i].item
  <2>1. j \in 1 .. (n - 1) /\ i \in 1 .. n
    BY <1>1
  <2>2. F[j].last <= F[i].item
    BY <2>1 DEF Frames
  <2> QED
    BY <1>3, <2>1, <2>2
<1>9. item \in ItemsIn(k) /\ ItemsIn(k) \subseteq Nat \ {NULL}
  BY <1>1 DEF KeepsBut
<1>10. Frames(k, item, G, then)
  BY <1>3, <1>5, <1>6, <1>7, <1>8, <1>9 DEF Frames
<1> QED
  BY <1>10 DEF G
-----------------------------------------------------------------------------
(* The parser: what it has read is a forest of m blocks.                   *)

Roots(c) == {c.item} \cup Heads(c.frames)
Pending(c) == c.expects \in {"value", "name", "colon"}

\* The item that is read has no value yet, and no name before it is read.
Blank(c) ==
  /\ To(c.heap, Current(c), "child") = NULL /\ To(c.heap, Current(c), "valuestring") = NULL
  /\ c.expects = "name" => To(c.heap, Current(c), "string") = NULL

IsParser(c) ==
  c = [heap |-> c.heap, item |-> c.item, frames |-> c.frames,
       expects |-> c.expects, read |-> c.read]

Standing(c, m) ==
  /\ IsParser(c) /\ c.item = 1
  /\ Forest(c.heap, m, Roots(c))
  /\ Frames(c.heap, c.item, c.frames, c.expects)
  /\ c.expects \in {"comma", "name", "colon"} => Len(c.frames) > 0
  /\ c.expects = "nothing" => Len(c.frames) = 0
  /\ Pending(c) => Blank(c)

\* The item that is read is one of the heap, with every root in front of it.
LEMMA CurrentIs ==
  ASSUME NEW c, NEW m, Standing(c, m), c.expects # "member"
  PROVE  /\ m \in Nat /\ Dense(c.heap, m) /\ Current(c) = CurrentOf(c.item, c.frames)
         /\ Current(c) \in ItemsIn(c.heap) /\ Current(c) \in 1 .. m
         /\ IsItem(c.heap.blocks[Current(c)]) /\ c.heap.blocks[Current(c)].reference = FALSE
         /\ \A r \in Roots(c) : r <= Current(c)
<1>1. Current(c) = CurrentOf(c.item, c.frames)
  BY DEF Current, CurrentOf, Top
<1>2. /\ CurrentOf(c.item, c.frames) \in ItemsIn(c.heap)
      /\ \A r \in Roots(c) : r <= CurrentOf(c.item, c.frames)
  <2>1. Frames(c.heap, c.item, c.frames, c.expects)
    BY DEF Standing
  <2> QED
    BY <2>1, RootsBehind DEF Roots
<1>3. Forest(c.heap, m, Roots(c))
  BY DEF Standing
<1>4. m \in Nat /\ Dense(c.heap, m) /\ ItemsIn(c.heap) \subseteq 1 .. m /\ Typed(c.heap)
  BY <1>3 DEF Forest, Dense, ItemsIn
<1> QED
  BY <1>1, <1>2, <1>4 DEF Typed

\* What a value leaves: the forest has grown by a pointer of the current item.
LEMMA ReturnedStands ==
  ASSUME NEW c, NEW m, Standing(c, m), c.expects # "member",
         NEW heap, NEW n, Forest(heap, n, Roots(c)), Keeps(c.heap, heap)
  PROVE  Standing(Returned(c, heap), n)
<1> DEFINE d == Returned(c, heap)
<1>1. /\ IsParser(d) /\ d.item = c.item /\ d.heap = heap /\ d.frames = c.frames
      /\ d.expects = IF c.frames = <<>> THEN "nothing" ELSE "comma"
  <2>1. c = [heap |-> c.heap, item |-> c.item, frames |-> c.frames,
             expects |-> c.expects, read |-> c.read]
    BY DEF Standing, IsParser
  <2> DEFINE next == IF c.frames = <<>> THEN "nothing" ELSE "comma"
  <2>2. d = [c EXCEPT !.heap = heap, !.expects = next]
    BY DEF Returned
  <2> HIDE DEF next, d
  <2>3. d = [heap |-> heap, item |-> c.item, frames |-> c.frames,
             expects |-> next, read |-> c.read]
    BY <2>1, <2>2
  <2>4. /\ d.item = c.item /\ d.heap = heap /\ d.frames = c.frames
        /\ d.expects = next /\ d.read = c.read
    BY <2>3
  <2> QED
    BY <2>3, <2>4 DEF IsParser, next
<1> HIDE DEF d
<1>2. c.frames \in Seq(FrameSet) /\ Len(c.frames) \in Nat
  BY LenProperties DEF Standing, Frames
<1>3. /\ d.expects = "comma" => Len(d.frames) > 0
      /\ d.expects = "nothing" => Len(d.frames) = 0
  BY <1>1, <1>2, EmptySeq
<1>4. Frames(heap, c.item, c.frames, d.expects)
  <2>1. Frames(c.heap, c.item, c.frames, c.expects) /\ d.expects # "member"
    BY <1>1 DEF Standing
  <2> QED
    BY <2>1, FramesKept
<1>5. Roots(d) = Roots(c)
  BY <1>1 DEF Roots
<1>6. d.expects \notin {"member", "value", "name", "colon"} /\ c.item = 1
  BY <1>1 DEF Standing
<1> QED
  BY <1>1, <1>3, <1>4, <1>5, <1>6 DEF Standing, Pending, d

\* Keeps, from the pointers.
LEMMA KeepsPointers ==
  ASSUME NEW h, NEW k, NEW m, NEW n, Dense(h, m), Dense(k, n),
         \/ ItemsIn(k) = ItemsIn(h) /\ \A p \in ItemsIn(h) : SamePointers(h, k, p)
         \/ \E x \in ItemsIn(h), slot \in {"string", "valuestring"}, y \in Nat :
              ItemsIn(k) = ItemsIn(h) /\ Points(h, k, x, slot, y)
  PROVE  Keeps(h, k)
<1>1. ItemsIn(k) \subseteq Nat \ {NULL}
  BY DEF ItemsIn, Dense, NULL
<1>2. CASE ItemsIn(k) = ItemsIn(h) /\ \A p \in ItemsIn(h) : SamePointers(h, k, p)
  BY <1>1, <1>2 DEF Keeps, SamePointers, Slots
<1>3. CASE \E x \in ItemsIn(h), slot \in {"string", "valuestring"}, y \in Nat :
             ItemsIn(k) = ItemsIn(h) /\ Points(h, k, x, slot, y)
  <2>1. PICK x \in ItemsIn(h), slot \in {"string", "valuestring"}, y \in Nat :
               ItemsIn(k) = ItemsIn(h) /\ Points(h, k, x, slot, y)
    BY <1>3
  <2>2. ASSUME NEW p \in ItemsIn(h), NEW s \in {"child", "next"}
        PROVE  To(k, p, s) = To(h, p, s)
    <3>1. <<p, s>> # <<x, slot>> /\ s \in Slots
      BY DEF Slots
    <3> QED
      BY <2>1, <3>1 DEF Points
  <2> QED
    BY <1>1, <2>1, <2>2 DEF Keeps
<1> QED
  BY <1>2, <1>3

\* A literal or a number leaves the forest as it is.
LEMMA LiteralStands ==
  ASSUME NEW c, NEW m, Standing(c, m), c.expects = "value", NEW token
  PROVE  /\ Standing(Returned(c, ParseLiteral(c.heap, token, Current(c))), m)
         /\ Standing(Returned(c, ParseNumber(c.heap, token, Current(c))), m)
<1> DEFINE x == Current(c)
           h == c.heap
<1>1. /\ Dense(h, m) /\ x \in ItemsIn(h) /\ x \in 1 .. m /\ IsItem(h.blocks[x])
      /\ h.blocks[x].reference = FALSE /\ NULL \in Nat /\ c.expects # "member"
  BY CurrentIs DEF NULL
<1>2. Forest(h, m, Roots(c))
  BY DEF Standing
<1> HIDE DEF x, h
<1>3. ASSUME NEW k, NEW it, Changed(h, k, m, x, it), Alike(h.blocks[x], it)
      PROVE  Standing(Returned(c, k), m)
  <2>1. Forest(k, m, Roots(c)) /\ ItemsIn(k) = ItemsIn(h) /\ \A p \in ItemsIn(h) : SamePointers(h, k, p)
    BY <1>1, <1>2, <1>3, ItemWritten
  <2>2. Dense(k, m)
    BY <1>3 DEF Changed
  <2>3. Keeps(h, k)
    BY <1>1, <2>1, <2>2, KeepsPointers
  <2> QED
    BY <1>1, <2>1, <2>3, ReturnedStands DEF h
<1>4. /\ Alike(h.blocks[x], LiteralItem(h.blocks[x], token))
      /\ Alike(h.blocks[x], NumberItem(h.blocks[x], token))
  BY <1>1, PointersMade
<1>5. /\ Changed(h, ParseLiteral(h, token, x), m, x, LiteralItem(h.blocks[x], token))
      /\ Changed(h, ParseNumber(h, token, x), m, x, NumberItem(h.blocks[x], token))
  BY <1>1, LiteralWrites, NumberWrites
<1> QED
  BY <1>3, <1>4, <1>5 DEF h, x

\* A string is hung on the current item.
LEMMA StringHung ==
  ASSUME NEW c, NEW m, Standing(c, m), c.expects # "member",
         NEW slot \in {"string", "valuestring"}, To(c.heap, Current(c), slot) = NULL,
         NEW k, NEW it, NEW token, Grew(c.heap, k, m, Current(c), it, Text(token)),
         Hooked(c.heap.blocks[Current(c)], it, slot, m + 1)
  PROVE  /\ Forest(k, m + 1, Roots(c)) /\ ItemsIn(k) = ItemsIn(c.heap)
         /\ Points(c.heap, k, Current(c), slot, m + 1) /\ Keeps(c.heap, k)
<1> DEFINE x == Current(c)
           h == c.heap
<1>1. /\ Dense(h, m) /\ x \in ItemsIn(h) /\ x \in 1 .. m /\ IsItem(h.blocks[x])
      /\ \A r \in Roots(c) : r <= x
  BY CurrentIs
<1>2. Forest(h, m, Roots(c))
  BY DEF Standing
<1> HIDE DEF x, h
<1>3. IsText(Text(token)) /\ slot \in Slots /\ slot \notin {"next", "child"}
  BY DEF IsText, Text, Slots
<1>4. To(h, x, slot) = NULL /\ Grew(h, k, m, x, it, Text(token)) /\ Hooked(h.blocks[x], it, slot, m + 1)
  BY DEF h, x
<1>5. Forest(k, m + 1, Roots(c)) /\ Points(h, k, x, slot, m + 1) /\ ItemsIn(k) = ItemsIn(h)
  BY <1>1, <1>2, <1>3, <1>4, BlockHung
<1>6. Dense(k, m + 1)
  BY <1>4 DEF Grew
<1>7. Keeps(h, k)
  <2>1. m + 1 \in Nat
    BY <1>1 DEF Dense
  <2>2. \E p \in ItemsIn(h), s \in {"string", "valuestring"}, y \in Nat :
          ItemsIn(k) = ItemsIn(h) /\ Points(h, k, p, s, y)
    BY <1>1, <1>5, <2>1
  <2> QED
    BY <1>1, <1>6, <2>2, KeepsPointers
<1> QED
  BY <1>5, <1>7 DEF h, x

\* A string value hangs a block on its item.
LEMMA StringStands ==
  ASSUME NEW c, NEW m, Standing(c, m), c.expects = "value", NEW token
  PROVE  Standing(Returned(c, ParseString(c.heap, token, Current(c))), m + 1)
<1> DEFINE x == Current(c)
           h == c.heap
           k == ParseString(h, token, x)
           it == StringItem(h.blocks[x], m + 1)
<1>1. /\ m \in Nat /\ Dense(h, m) /\ x \in ItemsIn(h) /\ x \in 1 .. m /\ IsItem(h.blocks[x])
      /\ h.blocks[x].reference = FALSE /\ c.expects # "member"
  BY CurrentIs
<1>2. To(h, x, "valuestring") = NULL
  BY DEF Standing, Blank, Pending
<1> HIDE DEF h, x
<1>3. Grew(h, k, m, x, it, Text(token))
  BY <1>1, StringWrites
<1>4. m + 1 \in Nat
  BY <1>1
<1>5. Hooked(h.blocks[x], it, "valuestring", m + 1)
  BY <1>1, <1>4, PointersMade
<1> HIDE DEF k, it
<1>6. Forest(k, m + 1, Roots(c)) /\ Keeps(h, k)
  BY <1>1, <1>2, <1>3, <1>5, StringHung DEF h, x
<1> QED
  BY <1>1, <1>6, ReturnedStands DEF h, x, k

\* A name hangs a block on its member.
LEMMA NameStands ==
  ASSUME NEW c, NEW m, Standing(c, m), c.expects = "name", NEW token, token.kind = "string"
  PROVE  Standing(ParseName(c, token), m + 1)
<1> DEFINE x == Current(c)
           h == c.heap
           k == NameMoved(ParseString(h, token, x), x)
           it == NamedItem(h.blocks[x], m + 1)
           d == ParseName(c, token)
<1>1. /\ m \in Nat /\ Dense(h, m) /\ x \in ItemsIn(h) /\ x \in 1 .. m /\ IsItem(h.blocks[x])
      /\ h.blocks[x].reference = FALSE /\ c.expects # "member"
  BY CurrentIs
<1>2. /\ To(h, x, "string") = NULL /\ To(h, x, "valuestring") = NULL
      /\ To(h, x, "child") = NULL
  BY DEF Standing, Blank, Pending
<1>3. IsParser(c)
  BY DEF Standing
<1>4. /\ IsParser(d) /\ d.item = c.item /\ d.heap = k /\ d.frames = c.frames
      /\ d.expects = "colon"
  BY <1>3 DEF IsParser, ParseName
<1> HIDE DEF h, x, d
<1>5. Grew(h, k, m, x, it, Text(token))
  BY <1>1, NameWrites
<1>6. m + 1 \in Nat /\ Owned(h.blocks[x], "valuestring") = NULL
  BY <1>1, <1>2 DEF To
<1>7. Hooked(h.blocks[x], it, "string", m + 1)
  BY <1>1, <1>6, PointersMade
<1> HIDE DEF k, it
<1>8. /\ Forest(k, m + 1, Roots(c)) /\ Keeps(h, k) /\ Points(h, k, x, "string", m + 1)
  BY <1>1, <1>2, <1>5, <1>7, StringHung DEF h, x
<1>9. Frames(k, c.item, c.frames, d.expects)
  <2>1. Frames(h, c.item, c.frames, c.expects) /\ d.expects # "member"
    BY <1>4 DEF Standing, h
  <2> QED
    BY <1>1, <1>8, <2>1, FramesKept
<1>10. Roots(d) = Roots(c) /\ Current(d) = x /\ Len(d.frames) > 0 /\ c.item = 1
  BY <1>4 DEF Roots, Current, Top, Standing, x
<1>11. Blank(d)
  <2>1. To(k, x, "child") = NULL /\ To(k, x, "valuestring") = NULL
    BY <1>1, <1>2, <1>8 DEF Points, Slots
  <2> QED
    BY <1>4, <1>10, <2>1 DEF Blank
<1> QED
  BY <1>4, <1>8, <1>9, <1>10, <1>11 DEF Standing, d

\* A list that is opened adds a frame and no root.
LEMMA ListBegunStands ==
  ASSUME NEW c, NEW m, Standing(c, m), c.expects = "value", NEW named \in BOOLEAN,
         Len(c.frames) < NestingLimit
  PROVE  Standing(ListBegun(c, named), m)
<1> DEFINE d == ListBegun(c, named)
           f == Frame(Current(c), named)
           F == Append(c.frames, f)
<1>1. /\ Frames(c.heap, c.item, c.frames, c.expects) /\ To(c.heap, Current(c), "child") = NULL
      /\ IsParser(c) /\ Current(c) = CurrentOf(c.item, c.frames) /\ c.item = 1
      /\ Forest(c.heap, m, Roots(c)) /\ c.frames \in Seq(FrameSet)
  <2>1. Current(c) = CurrentOf(c.item, c.frames)
    BY CurrentIs
  <2>2. Frames(c.heap, c.item, c.frames, c.expects)
    BY DEF Standing
  <2>3. To(c.heap, Current(c), "child") = NULL
    BY DEF Standing, Pending, Blank
  <2>4. c.frames \in Seq(FrameSet)
    BY <2>2 DEF Frames
  <2> QED
    BY <2>1, <2>2, <2>3, <2>4 DEF Standing
<1>2. f \in FrameSet /\ Bare(f) /\ f.item = CurrentOf(c.item, c.frames)
  <2>1. Current(c) \in 1 .. m /\ m \in Nat
    BY CurrentIs
  <2>2. Current(c) \in Nat
    BY <2>1
  <2> QED
    BY <1>1, <2>2 DEF Frame, FrameSet, Bare, NULL
<1> HIDE DEF f
<1>3. Heads(F) = Heads(c.frames)
  BY <1>1, <1>2, HeadsPushed
<1>4. Frames(c.heap, c.item, F, "member")
  <2>1. To(c.heap, CurrentOf(c.item, c.frames), "child") = NULL
    BY <1>1
  <2> QED
    BY <1>1, <1>2, <2>1, FramePushed
<1>5. ~(Len(c.frames) >= NestingLimit)
  <2>1. Len(c.frames) \in Nat /\ NestingLimit \in Nat
    BY <1>1, LenProperties, CJSONParseAssumption
  <2> QED
    BY <2>1
<1>6. d = [c EXCEPT !.frames = F, !.expects = "member"]
  BY <1>5 DEF ListBegun, f
<1> HIDE DEF F, d
<1>7. /\ IsParser(d) /\ d.item = c.item /\ d.heap = c.heap /\ d.frames = F
      /\ d.expects = "member"
  BY <1>1, <1>6 DEF IsParser
<1>8. Roots(d) = Roots(c)
  BY <1>3, <1>7 DEF Roots
<1> QED
  BY <1>1, <1>4, <1>7, <1>8 DEF Standing, Pending, d

\* The top frame, and what lies in front of a new member.
LEMMA TopIs ==
  ASSUME NEW c, NEW m, Standing(c, m), c.expects \in {"member", "comma"}
  PROVE  /\ Len(c.frames) \in Nat /\ Len(c.frames) > 0 /\ c.frames \in Seq(FrameSet)
         /\ Top(c) = c.frames[Len(c.frames)] /\ Top(c) \in FrameSet
         /\ Frames(c.heap, c.item, c.frames, c.expects)
         /\ Open(c.heap, c.item, Top(c).item)
         /\ (Bare(Top(c)) /\ Top(c).last = NULL) \/ (Begun(c.heap, Top(c)) /\ Top(c).last # NULL)
         /\ m \in Nat /\ Dense(c.heap, m) /\ Typed(c.heap) /\ ItemsIn(c.heap) \subseteq 1 .. m
<1>1. Len(c.frames) > 0 /\ c.frames \in Seq(FrameSet)
  BY DEF Standing, Frames
<1>2. Len(c.frames) \in Nat
  BY <1>1, LenProperties
<1>3. Len(c.frames) \in 1 .. Len(c.frames)
  BY <1>1, <1>2
<1>4. Top(c) = c.frames[Len(c.frames)] /\ Top(c) \in FrameSet
  BY <1>1, <1>3, ElementOfSeq DEF Top
<1>5. /\ Frames(c.heap, c.item, c.frames, c.expects)
      /\ Open(c.heap, c.item, Top(c).item) /\ ItemsIn(c.heap) \subseteq Nat \ {NULL}
      /\ Bare(Top(c)) \/ Begun(c.heap, Top(c))
  BY <1>3, <1>4 DEF Standing, Frames
<1>6. (Bare(Top(c)) /\ Top(c).last = NULL) \/ (Begun(c.heap, Top(c)) /\ Top(c).last # NULL)
  BY <1>5 DEF Bare, Begun
<1>7. m \in Nat /\ Dense(c.heap, m) /\ Typed(c.heap) /\ ItemsIn(c.heap) \subseteq 1 .. m
  BY DEF Standing, Forest, Dense, ItemsIn
<1> QED
  BY <1>1, <1>2, <1>4, <1>5, <1>6, <1>7

\* A new item owns nothing.
LEMMA EmptyIsBare ==
  ASSUME NEW p \in Nat
  PROVE  IsBare(EmptyItem) /\ IsBare(WithPrev(EmptyItem, p))
<1>1. IsItem(EmptyItem) /\ EmptyItem.reference = FALSE
  BY DEF EmptyItem, IsItem, NULL
<1>2. \A s \in Slots : Owned(EmptyItem, s) = NULL
  BY DEF EmptyItem, Owned, NULL
<1>3. Alike(EmptyItem, WithPrev(EmptyItem, p))
  BY <1>1, PointersMade
<1> QED
  BY <1>1, <1>2, <1>3 DEF IsBare, Alike

\* The new member of a list: linked to the last one, or alone.
MemberHeap(h, last, n) ==
  IF last = NULL THEN Allocate(h, EmptyItem) ELSE SuffixObject(Allocate(h, EmptyItem), last, n)
MemberFrame(f, n) == [f EXCEPT !.head = IF @ = NULL THEN n ELSE @, !.last = n]

\* A member that begins is a block more, and a link of the last one.
LEMMA MemberWrites ==
  ASSUME NEW h, NEW m, Dense(h, m), NEW last \in 1 .. m, IsItem(h.blocks[last])
  PROVE  Grew(h, MemberHeap(h, last, m + 1), m, last, WithNext(h.blocks[last], m + 1),
              WithPrev(EmptyItem, last))
<1> DEFINE g0 == Allocate(h, EmptyItem)
           it == WithNext(h.blocks[last], m + 1)
           g  == Rewrite(g0, last, it)
           k  == Rewrite(g, m + 1, WithPrev(EmptyItem, last))
<1>1. m \in Nat /\ last # NULL /\ m + 1 \in 1 .. (m + 1) /\ last # m + 1
      /\ last \in 1 .. (m + 1) /\ \A p \in 1 .. m : p \in 1 .. (m + 1) /\ p # m + 1
  BY DEF Dense, NULL
<1>2. Grew(h, g, m, last, it, EmptyItem)
  BY AllocatedAndWritten
<1>3. \A p \in 1 .. m : g0.blocks[p] = h.blocks[p]
  BY NextBlock
<1>4. g = [g0 EXCEPT !.blocks[last].next = m + 1]
  BY <1>3 DEF Rewrite, WithNext
<1>5. Dense(g, m + 1) /\ g.blocks[m + 1] = EmptyItem
  BY <1>2 DEF Grew
<1> HIDE DEF g0, g, it
<1>6. MemberHeap(h, last, m + 1) = SuffixObject(g0, last, m + 1)
  BY <1>1 DEF MemberHeap, g0
<1>7. SuffixObject(g0, last, m + 1) = k
  BY <1>4, <1>5 DEF SuffixObject, Rewrite, WithPrev
<1>8. Changed(g, k, m + 1, m + 1, WithPrev(EmptyItem, last))
  BY <1>1, <1>5, Rewritten
<1> HIDE DEF k
<1>9. Dense(k, m + 1) /\ k.blocks[m + 1] = WithPrev(EmptyItem, last)
  BY <1>8 DEF Changed
<1>10. \A p \in 1 .. m : k.blocks[p] = g.blocks[p]
  BY <1>1, <1>8 DEF Changed
<1>11. k.blocks[last] = it /\ \A p \in (1 .. m) \ {last} : k.blocks[p] = h.blocks[p]
  BY <1>2, <1>10 DEF Grew
<1> QED
  BY <1>6, <1>7, <1>9, <1>11 DEF Grew, it

\* The parser behind the begin of a member.
LEMMA MemberIs ==
  ASSUME NEW c, NEW m, Standing(c, m), c.expects \in {"member", "comma"}
  PROVE  LET d == MemberBegun(c)
         IN /\ IsParser(d) /\ d.item = c.item /\ d.heap = MemberHeap(c.heap, Top(c).last, m + 1)
            /\ d.frames = [c.frames EXCEPT ![Len(c.frames)] = MemberFrame(Top(c), m + 1)]
            /\ d.expects = IF Top(c).named THEN "name" ELSE "value"
            /\ d.read = c.read
<1> DEFINE d == MemberBegun(c)
           n == Len(c.frames)
           heap == MemberHeap(c.heap, Top(c).last, m + 1)
           F == [c.frames EXCEPT ![n] = MemberFrame(Top(c), m + 1)]
           next == IF Top(c).named THEN "name" ELSE "value"
<1>1. Fresh(c.heap) = m + 1
  <2>1. Dense(c.heap, m)
    BY TopIs
  <2> QED
    BY <2>1, NextBlock
<1>2. NewItem(c.heap, EmptyItem).heap = Allocate(c.heap, EmptyItem)
      /\ NewItem(c.heap, EmptyItem).item = m + 1
  BY <1>1 DEF NewItem
<1>3. d = [c EXCEPT !.heap = heap, !.frames[n] = MemberFrame(Top(c), m + 1), !.expects = next]
  BY <1>2 DEF MemberBegun, MemberHeap, MemberFrame
<1>4. IsParser(c)
  BY DEF Standing
<1> HIDE DEF heap, next, d
<1>5. d = [heap |-> heap, item |-> c.item, frames |-> F, expects |-> next, read |-> c.read]
  BY <1>3, <1>4 DEF IsParser
<1> HIDE DEF F
<1>6. /\ IsParser(d) /\ d.item = c.item /\ d.heap = heap /\ d.frames = F
      /\ d.expects = next /\ d.read = c.read
  BY <1>5 DEF IsParser
<1> QED
  BY <1>6 DEF d, heap, F, next

\* The new item makes the forest larger, and is the last one of the top list.
LEMMA MemberGrows ==
  ASSUME NEW c, NEW m, Standing(c, m), c.expects \in {"member", "comma"},
         NEW k, k = MemberHeap(c.heap, Top(c).last, m + 1)
  PROVE  /\ Forest(k, m + 1, Roots(c) \cup (IF Top(c).last = NULL THEN {m + 1} ELSE {}))
         /\ KeepsBut(c.heap, k, Top(c).last, NULL) /\ m + 1 \in ItemsIn(k)
         /\ \A s \in Slots : To(k, m + 1, s) = NULL
<1> DEFINE h == c.heap
           x == Top(c).last
<1>1. /\ m \in Nat /\ Dense(h, m) /\ Typed(h) /\ ItemsIn(h) \subseteq 1 .. m
      /\ Forest(h, m, Roots(c))
  BY TopIs DEF Standing
<1> HIDE DEF h
<1>3. CASE x = NULL
  <2>1. k = Allocate(h, EmptyItem) /\ IsBare(EmptyItem)
    BY <1>3, EmptyIsBare DEF MemberHeap, h, NULL
  <2>2. /\ Forest(k, m + 1, Roots(c) \cup {m + 1}) /\ ItemsIn(k) = ItemsIn(h) \cup {m + 1}
        /\ \A p \in ItemsIn(h) : SamePointers(h, k, p)
    <3>1. Forest(h, m, Roots(c)) /\ IsBare(EmptyItem)
      BY <1>1, <2>1
    <3>2. Forest(Allocate(h, EmptyItem), m + 1, Roots(c) \cup {m + 1})
      BY <3>1, BlockRooted
    <3>3. ItemsIn(Allocate(h, EmptyItem)) = ItemsIn(h) \cup {m + 1}
      BY <3>1, BlockRooted
    <3>4. \A p \in ItemsIn(h) : SamePointers(h, Allocate(h, EmptyItem), p)
      BY <3>1, BlockRooted
    <3> QED
      BY <2>1, <3>2, <3>3, <3>4
  <2>3. k.blocks[m + 1] = EmptyItem
    BY <1>1, <2>1, NextBlock
  <2>4. \A s \in Slots : To(k, m + 1, s) = NULL
    BY <2>1, <2>3 DEF To, IsBare
  <2>5. ItemsIn(k) \subseteq Nat \ {NULL}
    BY <1>1, <2>2 DEF NULL
  <2>6. KeepsBut(h, k, x, NULL)
    BY <2>2, <2>5 DEF KeepsBut, SamePointers, Slots
  <2> QED
    BY <1>3, <2>2, <2>4, <2>6 DEF h
<1>4. CASE x # NULL
  <2>1. Begun(h, Top(c))
    BY <1>4, TopIs DEF h
  <2>2. x \in ItemsIn(h) /\ x \in 1 .. m /\ To(h, x, "next") = NULL
    BY <1>1, <2>1 DEF Begun
  <2>3. IsItem(h.blocks[x]) /\ h.blocks[x].reference = FALSE
    BY <1>1, <2>2 DEF Typed
  <2>4. Grew(h, k, m, x, WithNext(h.blocks[x], m + 1), WithPrev(EmptyItem, x))
    BY <1>1, <2>2, <2>3, MemberWrites DEF h
  <2>5. m + 1 \in Nat /\ x \in Nat
    BY <1>1, <2>2
  <2>6. Hooked(h.blocks[x], WithNext(h.blocks[x], m + 1), "next", m + 1)
    BY <2>3, <2>5, PointersMade
  <2>7. IsBare(WithPrev(EmptyItem, x)) /\ "next" \in Slots
    BY <2>5, EmptyIsBare DEF Slots
  <2>8. \A r \in Roots(c) : r <= x
    <3>1. c.expects # "member" /\ CurrentOf(c.item, c.frames) = x
      <4>1. Len(c.frames) > 0 /\ c.frames \in Seq(FrameSet) /\ Len(c.frames) \in Nat
            /\ Top(c) = c.frames[Len(c.frames)]
        BY TopIs
      <4>2. c.frames # <<>>
        BY <4>1, EmptySeq
      <4>3. CurrentOf(c.item, c.frames) = x
        BY <4>1, <4>2 DEF CurrentOf
      <4>4. Len(c.frames) \in 1 .. Len(c.frames)
        BY <4>1
      <4>5. c.expects = "member" => x = NULL
        BY <4>1, <4>4 DEF Standing, Frames, Bare
      <4> QED
        BY <1>4, <4>3, <4>5
    <3>2. Frames(c.heap, c.item, c.frames, c.expects)
      BY <3>1 DEF Standing
    <3> QED
      BY <3>1, <3>2, RootsBehind DEF Roots
  <2> HIDE DEF x
  <2>9. Forest(k, m + 1, Roots(c)) /\ Points(h, k, x, "next", m + 1)
    BY <1>1, <2>2, <2>4, <2>6, <2>7, <2>8, BlockHung
  <2>10. ItemsIn(k) = ItemsIn(h) \cup {m + 1}
    BY <1>1, <2>2, <2>4, <2>6, <2>7, <2>8, BlockHung
  <2>11. \A s \in Slots : To(k, m + 1, s) = NULL
    BY <2>4, <2>7 DEF To, Grew, IsBare
  <2>12. ItemsIn(k) \subseteq Nat \ {NULL}
    BY <1>1, <2>10 DEF NULL
  <2>13. KeepsBut(h, k, x, NULL)
    <3>1. ASSUME NEW p \in ItemsIn(h) PROVE To(k, p, "child") = To(h, p, "child")
      BY <2>9 DEF Points, Slots
    <3>2. ASSUME NEW p \in ItemsIn(h), p # x PROVE To(k, p, "next") = To(h, p, "next")
      BY <2>9, <3>2 DEF Points, Slots
    <3> QED
      BY <2>10, <2>12, <3>1, <3>2 DEF KeepsBut
  <2>14. Roots(c) \cup (IF x = NULL THEN {m + 1} ELSE {}) = Roots(c)
    BY <1>4 DEF x
  <2> QED
    BY <2>9, <2>10, <2>11, <2>13, <2>14 DEF h, x
<1> QED
  BY <1>3, <1>4

\* A member that begins leaves a forest, and its own value to be read.
LEMMA MemberStands ==
  ASSUME NEW c, NEW m, Standing(c, m), c.expects \in {"member", "comma"}
  PROVE  /\ Standing(MemberBegun(c), m + 1)
         /\ MemberBegun(c).expects = IF Top(c).named THEN "name" ELSE "value"
<1> DEFINE h == c.heap
           top == Top(c)
           n == Len(c.frames)
           f == MemberFrame(top, m + 1)
           d == MemberBegun(c)
           k == MemberHeap(h, top.last, m + 1)
           F == [c.frames EXCEPT ![n] = f]
<1>1. /\ m \in Nat /\ n \in Nat /\ n > 0 /\ c.frames \in Seq(FrameSet) /\ top = c.frames[n]
      /\ top \in FrameSet /\ ItemsIn(h) \subseteq 1 .. m
      /\ Frames(h, c.item, c.frames, c.expects)
      /\ Open(h, c.item, top.item)
      /\ (Bare(top) /\ top.last = NULL) \/ (Begun(h, top) /\ top.last # NULL)
  BY TopIs
<1>2. /\ IsParser(d) /\ d.item = c.item /\ d.heap = k /\ d.frames = F
      /\ d.expects = IF top.named THEN "name" ELSE "value"
  BY MemberIs
<1>3. /\ Forest(k, m + 1, Roots(c) \cup (IF top.last = NULL THEN {m + 1} ELSE {}))
      /\ KeepsBut(h, k, top.last, NULL) /\ m + 1 \in ItemsIn(k)
      /\ \A s \in Slots : To(k, m + 1, s) = NULL
  BY MemberGrows
<1>4. /\ f \in FrameSet /\ f.item = top.item /\ f.named = top.named /\ f.last = m + 1
      /\ f.head = IF top.head = NULL THEN m + 1 ELSE top.head
  <2> DEFINE head == IF top.head = NULL THEN m + 1 ELSE top.head
  <2> HIDE DEF top
  <2>1. top.head \in Nat /\ m + 1 \in Nat
    BY <1>1 DEF FrameSet
  <2>2. head \in Nat
    BY <2>1
  <2>3. f = [top EXCEPT !.head = head, !.last = m + 1]
    BY DEF MemberFrame
  <2> HIDE DEF head, f
  <2>4. /\ f \in FrameSet /\ f.item = top.item /\ f.named = top.named /\ f.last = m + 1
        /\ f.head = head
    BY <1>1, <2>1, <2>2, <2>3 DEF FrameSet
  <2> QED
    BY <2>4 DEF head
<1> HIDE DEF d, f, k, h, top
<1>5. /\ top.item \in ItemsIn(h) /\ top.item \in Nat /\ top.item < m + 1
      /\ ItemsIn(h) \subseteq ItemsIn(k)
  BY <1>1, <1>3 DEF Open, KeepsBut
<1>6. Begun(k, f)
  <2>1. To(k, f.last, "next") = NULL
    BY <1>3, <1>4 DEF Slots
  <2>2. CASE Bare(top)
    BY <1>1, <1>3, <1>4, <1>5, <2>1, <2>2 DEF Bare, Begun
  <2>3. CASE Begun(h, top)
    <3>1. top.head \in ItemsIn(h) /\ top.item < top.head /\ top.head # NULL
      BY <1>1, <2>3 DEF Begun, NULL
    <3>2. top.head \in Nat /\ top.head <= m + 1
      BY <1>1, <3>1
    <3> QED
      BY <1>3, <1>4, <1>5, <2>1, <3>1, <3>2 DEF Begun
  <2> QED
    BY <1>1, <2>2, <2>3
<1>7. Frames(k, c.item, F, d.expects)
  <2>1. d.expects # "member"
    BY <1>2
  <2> QED
    BY <1>1, <1>3, <1>4, <1>6, <2>1, TopReplaced
<1>8. Heads(F) = Heads(c.frames) \cup ({f.head} \ {NULL})
  <2>1. c.frames[n].head \in {NULL, f.head}
    BY <1>1, <1>4
  <2> QED
    BY <1>1, <1>4, <2>1, HeadsReplaced
<1>9. Len(F) = n /\ F # <<>> /\ F[n] = f
  <2>1. n \in 1 .. n
    BY <1>1
  <2>2. F \in Seq(FrameSet) /\ Len(F) = n /\ \A i \in 1 .. n : F[i] = IF i = n THEN f ELSE c.frames[i]
    BY <1>1, <1>4, <2>1, ExceptSeq
  <2> QED
    BY <1>1, <2>1, <2>2, EmptySeq
<1>10. Roots(d) = Roots(c) \cup (IF top.last = NULL THEN {m + 1} ELSE {})
  <2>1. CASE Bare(top)
    <3>1. {f.head} \ {NULL} = {m + 1} /\ top.last = NULL
      BY <1>1, <1>4, <2>1 DEF Bare, NULL
    <3> QED
      BY <1>2, <1>8, <3>1 DEF Roots
  <2>2. CASE Begun(h, top)
    <3>1. top.head # NULL /\ top.last # NULL
      BY <1>1, <2>2 DEF Begun, NULL
    <3>2. top.head \in Heads(c.frames)
      <4>1. n \in 1 .. n
        BY <1>1
      <4> QED
        BY <1>1, <3>1, <4>1 DEF Heads
    <3>3. Heads(F) = Heads(c.frames)
      BY <1>4, <1>8, <3>1, <3>2
    <3> QED
      BY <1>2, <3>1, <3>3 DEF Roots
  <2> QED
    BY <1>1, <2>1, <2>2
<1>11. Current(d) = m + 1
  BY <1>2, <1>4, <1>9 DEF Current, Top
<1>12. Blank(d)
  BY <1>2, <1>3, <1>11 DEF Blank, Slots
<1>13. /\ d.expects # "member" /\ d.expects # "nothing" /\ c.item = 1
  BY <1>2 DEF Standing
<1> HIDE DEF F
<1>14. Frames(d.heap, d.item, d.frames, d.expects)
  BY <1>2, <1>7, <1>13
<1>15. Forest(d.heap, m + 1, Roots(d)) /\ Len(d.frames) > 0
  BY <1>1, <1>2, <1>3, <1>9, <1>10
<1>16. Standing(d, m + 1)
  BY <1>2, <1>12, <1>13, <1>14, <1>15 DEF Standing
<1> QED
  BY <1>2, <1>16 DEF d, top

\* The list hung on its item, and its first member told of the last.
ListHeap(h, top) ==
  [Closed(h, top) EXCEPT !.blocks[top.item].type = IF top.named THEN "Object" ELSE "Array",
                         !.blocks[top.item].child = top.head]

\* A list that ends is one write of its item.
LEMMA ListWrites ==
  ASSUME NEW h, NEW m, Dense(h, m), NEW top, top.item \in 1 .. m
  PROVE  Changed(h, [h EXCEPT !.blocks[top.item].type = IF top.named THEN "Object" ELSE "Array",
                              !.blocks[top.item].child = top.head],
                 m, top.item, ListItem(h.blocks[top.item], top.named, top.head))
<1> DEFINE x == top.item
           type == IF top.named THEN "Object" ELSE "Array"
           it == [h.blocks[x] EXCEPT !.type = type]
           g  == Rewrite(h, x, it)
           k  == Rewrite(g, x, ListItem(h.blocks[x], top.named, top.head))
<1>1. Changed(h, g, m, x, it)
  BY Rewritten
<1>2. Dense(g, m) /\ g.blocks[x] = it
  BY <1>1 DEF Changed
<1> HIDE DEF g
<1>3. [h EXCEPT !.blocks[x].type = type] = g
  BY DEF Rewrite, g
<1>4. [it EXCEPT !.child = top.head] = ListItem(h.blocks[x], top.named, top.head)
  BY DEF ListItem
<1> HIDE DEF it
<1>5. [h EXCEPT !.blocks[x].type = type, !.blocks[x].child = top.head]
        = [g EXCEPT !.blocks[x].child = top.head]
  BY <1>3
<1>6. [g EXCEPT !.blocks[x].child = top.head] = k
  BY <1>2, <1>4 DEF Rewrite
<1>7. Changed(g, k, m, x, ListItem(h.blocks[x], top.named, top.head))
  BY <1>2, Rewritten
<1> HIDE DEF k
<1>8. Changed(h, k, m, x, ListItem(h.blocks[x], top.named, top.head))
  BY <1>1, <1>7, ChangedTwice
<1> QED
  BY <1>5, <1>6, <1>8

\* The heap in between, with the same pointers.
LEMMA ClosedKeeps ==
  ASSUME NEW c, NEW m, Standing(c, m), c.expects \in {"member", "comma"}
  PROVE  LET g == Closed(c.heap, Top(c))
         IN /\ Forest(g, m, Roots(c)) /\ ItemsIn(g) = ItemsIn(c.heap)
            /\ \A p \in ItemsIn(c.heap) : SamePointers(c.heap, g, p)
            /\ Top(c).head # NULL =>
                 Changed(c.heap, g, m, Top(c).head,
                         WithPrev(c.heap.blocks[Top(c).head], Top(c).last))
            /\ Top(c).head = NULL => g = c.heap
<1> DEFINE h == c.heap
           top == Top(c)
           g == Closed(h, top)
           it == WithPrev(h.blocks[top.head], top.last)
<1>1. /\ m \in Nat /\ Dense(h, m) /\ Typed(h) /\ ItemsIn(h) \subseteq 1 .. m
      /\ Forest(h, m, Roots(c))
  BY TopIs DEF Standing
<1>2. Bare(top) \/ Begun(h, top)
  BY TopIs
<1>3. CASE top.head = NULL
  BY <1>1, <1>3 DEF Closed, SamePointers
<1>4. CASE top.head # NULL
  <2>1. top.head \in ItemsIn(h) /\ top.last \in ItemsIn(h)
    BY <1>2, <1>4 DEF Begun, Bare
  <2>2. top.head \in 1 .. m /\ top.last \in Nat /\ IsItem(h.blocks[top.head])
        /\ h.blocks[top.head].reference = FALSE
    BY <1>1, <2>1 DEF Typed
  <2>3. Alike(h.blocks[top.head], it)
    BY <2>2, PointersMade
  <2>4. g = Rewrite(h, top.head, it)
    BY <1>4 DEF Closed, Rewrite, WithPrev
  <2> HIDE DEF h, top
  <2>5. Changed(h, Rewrite(h, top.head, it), m, top.head, it)
    BY <1>1, <2>2, Rewritten
  <2> HIDE DEF g, it
  <2>6. Changed(h, g, m, top.head, it)
    BY <2>4, <2>5
  <2>7. Forest(g, m, Roots(c)) /\ ItemsIn(g) = ItemsIn(h)
        /\ \A p \in ItemsIn(h) : SamePointers(h, g, p)
    BY <1>1, <2>1, <2>3, <2>6, ItemWritten
  <2> QED
    BY <1>4, <2>6, <2>7 DEF h, g, it, top
<1> QED
  BY <1>3, <1>4

\* The members of a list that ends hang on its item, and are no tree of their own.
LEMMA ListGrows ==
  ASSUME NEW c, NEW m, Standing(c, m), c.expects \in {"member", "comma"},
         NEW k, k = ListHeap(c.heap, Top(c))
  PROVE  /\ Forest(k, m, {c.item} \cup Heads(Front(c.frames)))
         /\ KeepsBut(c.heap, k, NULL, Top(c).item)
<1> DEFINE h == c.heap
           top == Top(c)
           g == Closed(h, top)
           x == top.item
           n == Len(c.frames)
           it == ListItem(g.blocks[x], top.named, top.head)
           rest == {c.item} \cup Heads(Front(c.frames))
<1>1. /\ m \in Nat /\ Dense(h, m) /\ Typed(h) /\ ItemsIn(h) \subseteq 1 .. m
      /\ Bare(top) \/ Begun(h, top)
      /\ Open(h, c.item, x) /\ Frames(h, c.item, c.frames, c.expects)
      /\ n \in Nat /\ n > 0 /\ top = c.frames[n]
  BY TopIs
<1>2. /\ Forest(g, m, Roots(c)) /\ ItemsIn(g) = ItemsIn(h)
      /\ \A p \in ItemsIn(h) : SamePointers(h, g, p)
  BY ClosedKeeps
<1>3. /\ Heads(c.frames) = Heads(Front(c.frames)) \cup ({top.head} \ {NULL})
      /\ \A r \in rest : r <= x
  <2> HIDE DEF h, n
  <2>1. Frames(h, c.item, c.frames, c.expects) /\ n > 0
    BY <1>1
  <2>2. /\ Heads(c.frames) = Heads(Front(c.frames)) \cup ({c.frames[n].head} \ {NULL})
        /\ \A r \in {c.item} \cup Heads(Front(c.frames)) : r <= c.frames[n].item
    BY <2>1, FrontRoots DEF n
  <2> QED
    BY <1>1, <2>2
<1> HIDE DEF h, g, x, top, rest
<1>4. Dense(g, m) /\ Typed(g) /\ x \in ItemsIn(g) /\ To(g, x, "child") = NULL
  BY <1>1, <1>2 DEF Forest, Open, SamePointers, Slots
<1>5. x \in 1 .. m /\ IsItem(g.blocks[x]) /\ g.blocks[x].reference = FALSE
  BY <1>1, <1>2, <1>4 DEF Typed
<1>6. Changed(g, k, m, x, it)
  BY <1>4, <1>5, ListWrites DEF ListHeap, g, h, x, top
<1> HIDE DEF it
<1>7. Dense(k, m) /\ ItemsIn(k) \subseteq Nat \ {NULL}
  BY <1>6 DEF Changed, Dense, ItemsIn, NULL
<1>8. Roots(c) = rest \cup ({top.head} \ {NULL})
  BY <1>3 DEF Roots, rest
<1>9. CASE Bare(top)
  <2>1. Hooked(g.blocks[x], it, "child", NULL) /\ top.head = NULL
    BY <1>5, <1>9, PointersMade DEF Bare, it, NULL
  <2>2. Alike(g.blocks[x], it)
    BY <1>4, <2>1 DEF Alike, Hooked, To
  <2>3. Forest(k, m, Roots(c)) /\ ItemsIn(k) = ItemsIn(g)
        /\ \A p \in ItemsIn(g) : SamePointers(g, k, p)
    BY <1>2, <1>4, <1>6, <2>2, ItemWritten
  <2>4. Forest(k, m, rest)
    BY <1>8, <2>1, <2>3
  <2>5. KeepsBut(h, k, NULL, x)
    BY <1>2, <1>7, <2>3 DEF KeepsBut, SamePointers, Slots
  <2> QED
    BY <2>4, <2>5 DEF rest, h, x, top
<1>10. CASE Begun(h, top)
  <2>1. top.head \in ItemsIn(h) /\ x < top.head /\ top.head # NULL /\ top.head \in Nat
    BY <1>1, <1>10 DEF Begun, x, NULL
  <2>2. Hooked(g.blocks[x], it, "child", top.head)
    BY <1>5, <2>1, PointersMade DEF it
  <2>3. top.head \in Roots(c) /\ Roots(c) \ {top.head} = rest
    <3>1. \A r \in rest : r # top.head
      <4>1. x \in Nat /\ rest \subseteq Nat
        BY <1>1, <1>5, <1>8, <1>2 DEF Forest
      <4> QED
        BY <1>3, <2>1, <4>1
    <3> QED
      BY <1>8, <2>1, <3>1
  <2>4. \A r \in Roots(c) \ {top.head} : r <= x
    BY <1>3, <2>3
  <2>5. Forest(k, m, Roots(c) \ {top.head}) /\ ItemsIn(k) = ItemsIn(g)
        /\ Points(g, k, x, "child", top.head)
    BY <1>2, <1>4, <1>6, <2>1, <2>2, <2>3, <2>4, RootHung
  <2>6. \A p \in ItemsIn(h) : p # x => To(k, p, "child") = To(h, p, "child")
    BY <1>2, <2>5 DEF Points, SamePointers, Slots
  <2>7. \A p \in ItemsIn(h) : To(k, p, "next") = To(h, p, "next")
    BY <1>2, <2>5 DEF Points, SamePointers, Slots
  <2>8. KeepsBut(h, k, NULL, x)
    BY <1>2, <1>7, <2>5, <2>6, <2>7 DEF KeepsBut
  <2>9. Forest(k, m, rest)
    BY <2>3, <2>5
  <2> QED
    BY <2>8, <2>9 DEF rest, h, x, top
<1> QED
  BY <1>1, <1>9, <1>10

\* The parser behind the end of a list.
LEMMA ListEndIs ==
  ASSUME NEW c, IsParser(c)
  PROVE  /\ IsParser(ListEnd(c)) /\ ListEnd(c).item = c.item
         /\ ListEnd(c).heap = ListHeap(c.heap, Top(c)) /\ ListEnd(c).frames = Front(c.frames)
         /\ ListEnd(c).expects = IF Front(c.frames) = <<>> THEN "nothing" ELSE "comma"
         /\ ListEnd(c).read = c.read
<1> DEFINE F == Front(c.frames)
           d == [c EXCEPT !.frames = F]
           k == ListHeap(c.heap, Top(c))
           next == IF F = <<>> THEN "nothing" ELSE "comma"
           e == ListEnd(c)
<1> HIDE DEF F
<1>1. d = [heap |-> c.heap, item |-> c.item, frames |-> F, expects |-> c.expects, read |-> c.read]
  BY DEF IsParser
<1>2. d.frames = F /\ ListEnd(c) = Returned(d, k)
  BY <1>1 DEF ListEnd, ListHeap, F
<1>3. e = [d EXCEPT !.heap = k, !.expects = next]
  BY <1>2 DEF Returned
<1> HIDE DEF d, k, next, e
<1>4. e = [heap |-> k, item |-> c.item, frames |-> F, expects |-> next, read |-> c.read]
  BY <1>1, <1>3
<1>5. /\ IsParser(e) /\ e.item = c.item /\ e.heap = k /\ e.frames = F
      /\ e.expects = next /\ e.read = c.read
  BY <1>4 DEF IsParser
<1> QED
  BY <1>5 DEF e, k, F, next

\* A list that ends leaves the forest and the lists below it.
LEMMA ListEndStands ==
  ASSUME NEW c, NEW m, Standing(c, m), c.expects \in {"member", "comma"}
  PROVE  Standing(ListEnd(c), m)
<1> DEFINE d == ListEnd(c)
           k == ListHeap(c.heap, Top(c))
           F == Front(c.frames)
<1>1. IsParser(c) /\ c.item = 1
  BY DEF Standing
<1>2. /\ IsParser(d) /\ d.item = c.item /\ d.heap = k /\ d.frames = F
      /\ d.expects = IF F = <<>> THEN "nothing" ELSE "comma"
  BY <1>1, ListEndIs
<1>0. d.expects # "member"
  BY <1>2
<1>3. Forest(k, m, {c.item} \cup Heads(F)) /\ KeepsBut(c.heap, k, NULL, Top(c).item)
  BY ListGrows
<1> HIDE DEF d, k
<1>4. Frames(k, c.item, F, d.expects)
  <2>1. /\ Len(c.frames) > 0 /\ Top(c) = c.frames[Len(c.frames)]
        /\ Frames(c.heap, c.item, c.frames, c.expects)
    BY TopIs
  <2>2. KeepsBut(c.heap, k, NULL, c.frames[Len(c.frames)].item)
    BY <1>3, <2>1
  <2> QED
    BY <1>0, <2>1, <2>2, FramePopped
<1> HIDE DEF F
<1>5. F \in Seq(FrameSet) /\ Len(F) \in Nat
  BY <1>4, LenProperties DEF Frames
<1>6. (d.expects = "comma" => Len(d.frames) > 0) /\ (d.expects = "nothing" => Len(d.frames) = 0)
  BY <1>2, <1>5, EmptySeq
<1>7. d.expects \notin {"member", "value", "name", "colon"} /\ Roots(d) = {c.item} \cup Heads(F)
  BY <1>2 DEF Roots
<1>8. Frames(d.heap, d.item, d.frames, d.expects)
  BY <1>2, <1>4, <1>7
<1> QED
  BY <1>1, <1>2, <1>3, <1>6, <1>7, <1>8 DEF Standing, Pending, d
-----------------------------------------------------------------------------
(* The heap of the parser, from token to token.                            *)

\* A parser that has refused a token, with its lists as they were.
Left(c, m) ==
  /\ IsParser(c) /\ c.item = 1
  /\ Forest(c.heap, m, Roots(c))
  /\ Frames(c.heap, c.item, c.frames, "refused")

Expected == {"value", "name", "colon", "member", "comma", "nothing"}

Reads(c) ==
  \/ c.expects = "refused" /\ \E m : Left(c, m)
  \/ c.expects \in Expected /\ \E m : Standing(c, m)

\* A refusal leaves the heap and the frames.
LEMMA RefusedReads ==
  ASSUME NEW c, NEW m, Standing(c, m), c.expects # "member"
  PROVE  Reads(Refused(c)) /\ Refused(c).expects = "refused"
<1> DEFINE d == Refused(c)
<1>1. IsParser(c) /\ c.item = 1 /\ Forest(c.heap, m, Roots(c))
      /\ Frames(c.heap, c.item, c.frames, c.expects)
  BY DEF Standing
<1>2. /\ IsParser(d) /\ d.item = c.item /\ d.heap = c.heap /\ d.frames = c.frames
      /\ d.expects = "refused"
  BY <1>1 DEF IsParser, Refused
<1> HIDE DEF d
<1>3. ItemsIn(c.heap) \subseteq Nat \ {NULL}
  BY <1>1 DEF Frames
<1>4. Keeps(c.heap, c.heap)
  BY <1>3 DEF Keeps
<1>5. "refused" # "member"
  OBVIOUS
<1>6. Frames(c.heap, c.item, c.frames, "refused")
  BY <1>1, <1>4, <1>5, FramesKept
<1>7. Roots(d) = Roots(c)
  BY <1>2 DEF Roots
<1>8. Left(d, m)
  BY <1>1, <1>2, <1>6, <1>7 DEF Left
<1> QED
  BY <1>2, <1>8 DEF Reads, d

\* Behind a value, a comma or nothing is expected.
LEMMA ReturnedExpects ==
  ASSUME NEW c, IsParser(c), NEW heap
  PROVE  Returned(c, heap).expects \in {"nothing", "comma"}
<1> DEFINE next == IF c.frames = <<>> THEN "nothing" ELSE "comma"
<1>1. Returned(c, heap) = [c EXCEPT !.heap = heap, !.expects = next]
  BY DEF Returned
<1>2. next \in {"nothing", "comma"}
  OBVIOUS
<1> HIDE DEF next
<1>3. Returned(c, heap).expects = next
  BY <1>1 DEF IsParser
<1> QED
  BY <1>2, <1>3

\* No value begins with the end of the text.
LEMMA ValueReads ==
  ASSUME NEW c, NEW m, Standing(c, m), c.expects = "value", NEW token
  PROVE  /\ Reads(ParseValue(c, token))
         /\ token.kind = "end" => ParseValue(c, token).expects = "refused"
<1> DEFINE x == Current(c)
           h == c.heap
<1>1. IsParser(c) /\ c.expects # "member"
  BY DEF Standing
<1>2. ASSUME NEW heap, NEW n, Standing(Returned(c, heap), n) PROVE Reads(Returned(c, heap))
  BY <1>1, <1>2, ReturnedExpects DEF Reads, Expected
<1>3. CASE token.kind \in {"null", "false", "true"}
  <2>1. ParseValue(c, token) = Returned(c, ParseLiteral(h, token, x))
    BY <1>3 DEF ParseValue
  <2>2. Standing(Returned(c, ParseLiteral(h, token, x)), m)
    BY LiteralStands
  <2> QED
    BY <1>2, <1>3, <2>1, <2>2
<1>4. CASE token.kind = "string"
  <2>1. ParseValue(c, token) = Returned(c, ParseString(h, token, x))
    BY <1>4 DEF ParseValue
  <2>2. Standing(Returned(c, ParseString(h, token, x)), m + 1)
    BY StringStands
  <2> QED
    BY <1>2, <1>4, <2>1, <2>2
<1>5. CASE token.kind = "number"
  <2>1. ParseValue(c, token) = Returned(c, ParseNumber(h, token, x))
    BY <1>5 DEF ParseValue
  <2>2. Standing(Returned(c, ParseNumber(h, token, x)), m)
    BY LiteralStands
  <2> QED
    BY <1>2, <1>5, <2>1, <2>2
<1>6. ASSUME NEW named \in BOOLEAN PROVE Reads(ListBegun(c, named))
  <2>1. CASE Len(c.frames) >= NestingLimit
    <3>1. ListBegun(c, named) = Refused(c)
      BY <2>1 DEF ListBegun
    <3> QED
      BY <1>1, <3>1, RefusedReads
  <2>2. CASE ~(Len(c.frames) >= NestingLimit)
    <3>1. Len(c.frames) \in Nat /\ NestingLimit \in Nat
      BY LenProperties, CJSONParseAssumption DEF Standing, Frames
    <3>2. Len(c.frames) < NestingLimit
      BY <2>2, <3>1
    <3>3. Standing(ListBegun(c, named), m)
      BY <3>2, ListBegunStands
    <3>4. ListBegun(c, named).expects = "member"
      <4>1. ListBegun(c, named) =
              [c EXCEPT !.frames = Append(@, Frame(Current(c), named)), !.expects = "member"]
        BY <2>2 DEF ListBegun
      <4> QED
        BY <1>1, <4>1 DEF IsParser
    <3> QED
      BY <3>3, <3>4 DEF Reads, Expected
  <2> QED
    BY <2>1, <2>2
<1>7. CASE token.kind \in {"[", "{"}
  <2>1. ParseValue(c, token) \in {ListBegun(c, FALSE), ListBegun(c, TRUE)}
    BY <1>7 DEF ParseValue, ParseArray, ParseObject
  <2> QED
    BY <1>6, <1>7, <2>1
<1>8. CASE token.kind \notin {"null", "false", "true", "string", "number", "[", "{"}
  <2>1. ParseValue(c, token) = Refused(c)
    BY <1>8 DEF ParseValue
  <2> QED
    BY <1>1, <2>1, RefusedReads
<1> QED
  BY <1>3, <1>4, <1>5, <1>7, <1>8

\* A name is a string, or is refused.
LEMMA NameReads ==
  ASSUME NEW c, NEW m, Standing(c, m), c.expects = "name", NEW token
  PROVE  /\ Reads(ParseName(c, token))
         /\ token.kind = "end" => ParseName(c, token).expects = "refused"
<1>1. IsParser(c)
  BY DEF Standing
<1>2. CASE token.kind = "string"
  <2>1. Standing(ParseName(c, token), m + 1)
    BY <1>2, NameStands
  <2>2. ParseName(c, token).expects = "colon"
    BY <1>1, <1>2 DEF ParseName, IsParser
  <2> QED
    BY <1>2, <2>1, <2>2 DEF Reads, Expected
<1>3. CASE token.kind # "string"
  <2>1. ParseName(c, token) = Refused(c)
    BY <1>3 DEF ParseName
  <2> QED
    BY <2>1, RefusedReads
<1> QED
  BY <1>2, <1>3

\* A colon is read, and the value of the member is next.
LEMMA ColonReads ==
  ASSUME NEW c, NEW m, Standing(c, m), c.expects = "colon"
  PROVE  Reads([c EXCEPT !.expects = "value"])
<1> DEFINE d == [c EXCEPT !.expects = "value"]
<1>1. IsParser(c)
  BY DEF Standing
<1>2. /\ IsParser(d) /\ d.item = c.item /\ d.heap = c.heap /\ d.frames = c.frames
      /\ d.expects = "value"
  BY <1>1 DEF IsParser
<1> HIDE DEF d
<1>3. Frames(c.heap, c.item, c.frames, c.expects) /\ ItemsIn(c.heap) \subseteq Nat \ {NULL}
      /\ c.expects # "member"
  BY DEF Standing, Frames
<1>4. Keeps(c.heap, c.heap)
  BY <1>3 DEF Keeps
<1>5. d.expects # "member"
  BY <1>2
<1>6. Frames(c.heap, c.item, c.frames, d.expects)
  BY <1>3, <1>4, <1>5, FramesKept
<1>7. Roots(d) = Roots(c) /\ Current(d) = Current(c)
  BY <1>2 DEF Roots, Current, Top
<1>8. Blank(d)
  BY <1>2, <1>7 DEF Standing, Blank, Pending
<1>9. Standing(d, m)
  BY <1>2, <1>6, <1>7, <1>8 DEF Standing
<1> QED
  BY <1>2, <1>9 DEF Reads, Expected, d

\* Every token leaves a parser that stands or has refused it.
LEMMA TokenReads ==
  ASSUME NEW c, NEW m, Standing(c, m), c.expects \in Expected \ {"nothing"}, NEW token
  PROVE  /\ Reads(ReadToken(c, token))
         /\ token.kind = "end" => ReadToken(c, token).expects = "refused"
<1>1. CASE c.expects = "value"
  <2>1. ReadToken(c, token) = ParseValue(c, token)
    BY <1>1 DEF ReadToken
  <2> QED
    BY <1>1, <2>1, ValueReads
<1>2. CASE c.expects = "name"
  <2>1. ReadToken(c, token) = ParseName(c, token)
    BY <1>2 DEF ReadToken
  <2> QED
    BY <1>2, <2>1, NameReads
<1>3. CASE c.expects = "colon"
  <2>1. ReadToken(c, token) =
          IF token.kind = ":" THEN [c EXCEPT !.expects = "value"] ELSE Refused(c)
    BY <1>3 DEF ReadToken
  <2>2. CASE token.kind = ":"
    BY <1>3, <2>1, <2>2, ColonReads
  <2>3. CASE token.kind # ":"
    <3>1. ReadToken(c, token) = Refused(c) /\ c.expects # "member"
      BY <1>3, <2>1, <2>3
    <3> QED
      BY <3>1, RefusedReads
  <2> QED
    BY <2>2, <2>3
<1>4. ASSUME c.expects \in {"member", "comma"}
      PROVE  Reads(ListEnd(c)) /\ Close(c) # "end"
  <2>1. Standing(ListEnd(c), m)
    BY <1>4, ListEndStands
  <2>2. ListEnd(c).expects \in {"nothing", "comma"}
    <3>1. IsParser(c)
      BY DEF Standing
    <3> QED
      BY <3>1, ListEndIs
  <2>3. Close(c) \in {"}", "]"}
    BY DEF Close
  <2> QED
    BY <2>1, <2>2, <2>3 DEF Reads, Expected
<1>5. CASE c.expects = "member"
  <2> DEFINE d == MemberBegun(c)
  <2>1. ReadToken(c, token) = IF token.kind = Close(c) THEN ListEnd(c)
                              ELSE IF Top(c).named THEN ParseName(d, token)
                              ELSE ParseValue(d, token)
    BY <1>5 DEF ReadToken
  <2>2. Standing(d, m + 1) /\ d.expects = IF Top(c).named THEN "name" ELSE "value"
    BY <1>5, MemberStands
  <2> HIDE DEF d
  <2>3. CASE token.kind = Close(c)
    BY <1>4, <1>5, <2>1, <2>3
  <2>4. CASE token.kind # Close(c) /\ Top(c).named
    BY <2>1, <2>2, <2>4, NameReads
  <2>5. CASE token.kind # Close(c) /\ ~Top(c).named
    BY <2>1, <2>2, <2>5, ValueReads
  <2> QED
    BY <2>3, <2>4, <2>5
<1>6. CASE c.expects = "comma"
  <2> DEFINE d == MemberBegun(c)
  <2>1. ReadToken(c, token) = IF token.kind = "," THEN d
                              ELSE IF token.kind = Close(c) THEN ListEnd(c)
                              ELSE Refused(c)
    BY <1>6 DEF ReadToken
  <2>2. Standing(d, m + 1) /\ d.expects = IF Top(c).named THEN "name" ELSE "value"
    BY <1>6, MemberStands
  <2> HIDE DEF d
  <2>3. CASE token.kind = ","
    BY <2>1, <2>2, <2>3 DEF Reads, Expected
  <2>4. CASE token.kind # "," /\ token.kind = Close(c)
    BY <1>4, <1>6, <2>1, <2>4
  <2>5. CASE token.kind # "," /\ token.kind # Close(c)
    <3>1. ReadToken(c, token) = Refused(c) /\ c.expects # "member"
      BY <1>6, <2>1, <2>5
    <3> QED
      BY <3>1, RefusedReads
  <2> QED
    BY <2>3, <2>4, <2>5
<1> QED
  BY <1>1, <1>2, <1>3, <1>5, <1>6 DEF Expected
-----------------------------------------------------------------------------
(* The whole text: what the parser builds, and what it leaves.             *)

\* The count of the tokens is in no one's way.
Counted(c) == [c EXCEPT !.read = @ + 1]

\* To count a token changes neither.
LEMMA CountedReads ==
  ASSUME NEW c, Reads(c)
  PROVE  Reads(Counted(c)) /\ Counted(c).expects = c.expects
<1> DEFINE d == Counted(c)
<1>1. IsParser(c)
  BY DEF Reads, Left, Standing
<1> DEFINE count == c.read + 1
<1>2. d = [c EXCEPT !.read = count]
  BY DEF Counted
<1> HIDE DEF count, d
<1>3. /\ IsParser(d) /\ d.item = c.item /\ d.heap = c.heap /\ d.frames = c.frames
      /\ d.expects = c.expects
  BY <1>1, <1>2 DEF IsParser
<1>4. Roots(d) = Roots(c) /\ Current(d) = Current(c)
  BY <1>3 DEF Roots, Current, Top
<1>5. ASSUME NEW m, Left(c, m) PROVE Left(d, m)
  BY <1>3, <1>4, <1>5 DEF Left
<1>6. ASSUME NEW m, Standing(c, m) PROVE Standing(d, m)
  <2>1. Blank(d) <=> Blank(c)
    BY <1>3, <1>4 DEF Blank
  <2>2. Pending(d) <=> Pending(c)
    BY <1>3 DEF Pending
  <2> QED
    BY <1>3, <1>4, <1>6, <2>1, <2>2 DEF Standing
<1>7. Reads(d)
  BY <1>3, <1>5, <1>6 DEF Reads
<1> QED
  BY <1>3, <1>7 DEF d

Ended(c) == c.expects \in {"nothing", "refused"}

\* Nor does a token that is not read.
LEMMA AdvancedReads ==
  ASSUME NEW c, Reads(c), NEW token
  PROVE  /\ Reads(Advanced(c, token))
         /\ token.kind = "end" => Ended(Advanced(c, token))
<1>1. CASE Ended(c)
  BY <1>1 DEF Advanced, Ended
<1>2. CASE ~Ended(c)
  <2> DEFINE d == ReadToken(c, token)
  <2>1. PICK m : Standing(c, m)
    BY <1>2 DEF Ended, Reads
  <2>2. c.expects \in Expected \ {"nothing"}
    BY <1>2 DEF Ended, Reads
  <2>3. Reads(d) /\ (token.kind = "end" => d.expects = "refused")
    BY <2>1, <2>2, TokenReads
  <2>4. Advanced(c, token) = Counted(d)
    BY <1>2 DEF Advanced, Ended, Counted
  <2> HIDE DEF d
  <2> QED
    BY <2>3, <2>4, CountedReads DEF Ended
<1> QED
  BY <1>1, <1>2

\* The root is made in an empty heap.
LEMMA RootStands ==
  LET root == NewItem(EmptyHeap, EmptyItem)
  IN  /\ Standing(Parser(root.heap, root.item), 1) /\ root.item = 1
      /\ ItemsIn(root.heap) = {1} /\ root.heap.blocks[1] = EmptyItem
<1> DEFINE h == Allocate(EmptyHeap, EmptyItem)
           c == Parser(h, 1)
<1>1. DOMAIN EmptyHeap.blocks = {} /\ 1 .. 0 = {} /\ EmptyHeap.sound = TRUE
  BY DEF EmptyHeap
<1>2. IsHeap(EmptyHeap)
  <2>1. EmptyHeap = [blocks |-> EmptyHeap.blocks, sound |-> EmptyHeap.sound]
    BY DEF EmptyHeap
  <2>2. EmptyHeap.blocks = [p \in DOMAIN EmptyHeap.blocks |-> EmptyHeap.blocks[p]]
    BY DEF EmptyHeap
  <2>3. IsFiniteSet(DOMAIN EmptyHeap.blocks)
    BY <1>1, FS_EmptySet
  <2> QED
    BY <1>1, <2>1, <2>2, <2>3 DEF IsHeap
<1>3. Dense(EmptyHeap, 0) /\ ItemsIn(EmptyHeap) = {}
  BY <1>1, <1>2 DEF Dense, ItemsIn
<1>4. Forest(EmptyHeap, 0, {})
  <2>1. Typed(EmptyHeap) /\ OneOwner(EmptyHeap)
    BY <1>3 DEF Typed, OneOwner
  <2>2. Forward(EmptyHeap, 0, {})
    BY <1>3 DEF Forward
  <2>3. Hangs(EmptyHeap, 0, {})
    BY <1>1 DEF Hangs
  <2> QED
    BY <1>3, <2>1, <2>2, <2>3 DEF Forest
<1>5. IsBare(EmptyItem) /\ 0 + 1 = 1 /\ {} \cup {1} = {1}
  BY EmptyIsBare
<1>6. Forest(h, 1, {1}) /\ ItemsIn(h) = {1}
  <2>1. Forest(h, 0 + 1, {} \cup {0 + 1}) /\ ItemsIn(h) = ItemsIn(EmptyHeap) \cup {0 + 1}
    BY <1>4, <1>5, BlockRooted
  <2> QED
    BY <1>3, <2>1
<1>7. NewItem(EmptyHeap, EmptyItem).heap = h /\ NewItem(EmptyHeap, EmptyItem).item = 1
  BY <1>3, <1>5, NextBlock DEF NewItem
<1>8. h.blocks[1] = EmptyItem
  BY <1>3, <1>5, NextBlock
<1> HIDE DEF h
<1>9. /\ IsParser(c) /\ c.item = 1 /\ c.heap = h /\ c.frames = <<>> /\ c.expects = "value"
  BY DEF Parser, IsParser
<1> HIDE DEF c
<1>10. Len(<<>>) = 0 /\ <<>> \in Seq(FrameSet)
  BY EmptySeq
<1>11. Heads(<<>>) = {}
  BY <1>10 DEF Heads
<1>12. Frames(h, 1, <<>>, "value")
  BY <1>6, <1>10 DEF Frames, NULL
<1>13. \A s \in Slots : To(h, 1, s) = NULL
  BY <1>5, <1>8 DEF To, IsBare
<1>14. Blank(c)
  BY <1>9, <1>13 DEF Blank, Current, Slots
<1>15. Roots(c) = {1}
  BY <1>9, <1>11 DEF Roots
<1>16. Standing(c, 1)
  BY <1>6, <1>9, <1>12, <1>14, <1>15 DEF Standing
<1> QED
  BY <1>6, <1>7, <1>8, <1>16 DEF c

\* What n tokens leave of a parser exists.
ReadOn(r, token) == [r EXCEPT !.parser = Advanced(@, token)]

IsReading(c, text, n, after) ==
  after = [j \in 0 .. n |-> IF j = 0 THEN [parser |-> c]
                            ELSE ReadOn(after[j - 1], TokenAt(text, j))]

IsParse(c, text, part) ==
  /\ part[0] = c
  /\ \A n \in 0 .. Len(text) : part[n + 1] = Advanced(part[n], TokenAt(text, n + 1))

\* The parser behind a text is the last of the parsers behind its tokens.
LEMMA ReadSteps ==
  ASSUME NEW c, NEW Tokens, NEW text \in Seq(Tokens)
  PROVE  \E part : IsParse(c, text, part) /\ Read(c, text) = part[Len(text) + 1]
<1> DEFINE P == {n \in Nat : \E after : IsReading(c, text, n, after)}
           size == Len(text) + 1
<1>1. Len(text) \in Nat /\ size \in Nat /\ size > 0
  BY LenProperties
<1>2. 0 \in P
  <2>1. IsReading(c, text, 0, [j \in 0 .. 0 |-> [parser |-> c]])
    BY DEF IsReading
  <2> QED
    BY <2>1
<1>3. ASSUME NEW n \in Nat, n \in P PROVE n + 1 \in P
  <2>1. PICK after : IsReading(c, text, n, after)
    BY <1>3
  <2> DEFINE next == [j \in 0 .. n + 1 |->
                        IF j = n + 1
                        THEN ReadOn(after[n], TokenAt(text, n + 1))
                        ELSE after[j]]
  <2>2. IsReading(c, text, n + 1, next)
    BY <2>1 DEF IsReading
  <2> QED
    BY <2>2
<1> HIDE DEF P
<1>4. size \in P
  BY <1>1, <1>2, <1>3, Inductive
<1>5. PICK after : IsReading(c, text, size, after) /\ Read(c, text) = after[size].parser
  <2> DEFINE all == CHOOSE after : IsReading(c, text, size, after)
  <2>1. IsReading(c, text, size, all)
    BY <1>4 DEF P
  <2>2. Read(c, text) = all[size].parser
    BY DEF Read, IsReading, ReadOn
  <2> QED
    BY <2>1, <2>2
<1> DEFINE part == [n \in Nat |-> after[n].parser]
<1>6. after[0] = [parser |-> c]
  BY <1>1, <1>5 DEF IsReading
<1>7. ASSUME NEW n \in Nat, n + 1 <= size
      PROVE  after[n + 1] = ReadOn(after[n], TokenAt(text, n + 1))
  BY <1>5, <1>7 DEF IsReading
<1>8. \A n \in Nat : part[n] = after[n].parser
  OBVIOUS
<1> HIDE DEF part
<1> DEFINE Q == {n \in Nat : n <= size => after[n] = [parser |-> part[n]]}
<1>9. 0 \in Q
  BY <1>6, <1>8
<1>10. ASSUME NEW n \in Nat, n + 1 <= size, after[n] = [parser |-> part[n]]
       PROVE  /\ after[n + 1] = [parser |-> part[n + 1]]
              /\ part[n + 1] = Advanced(part[n], TokenAt(text, n + 1))
  <2> DEFINE d == Advanced(part[n], TokenAt(text, n + 1))
  <2>1. after[n + 1] = [after[n] EXCEPT !.parser = d]
    BY <1>7, <1>10 DEF ReadOn
  <2> HIDE DEF d
  <2>2. after[n + 1] = [parser |-> d]
    BY <1>10, <2>1
  <2>3. part[n + 1] = d
    BY <1>8, <2>2
  <2> QED
    BY <2>2, <2>3 DEF d
<1> HIDE DEF Q
<1>11. \A n \in Nat : n \in Q => n + 1 \in Q
  <2> SUFFICES ASSUME NEW n \in Nat, n \in Q PROVE n + 1 \in Q
    OBVIOUS
  <2>1. n + 1 \in Nat /\ (n + 1 <= size => n <= size)
    BY <1>1
  <2> QED
    BY <1>10, <2>1 DEF Q
<1>12. Nat \subseteq Q
  BY <1>9, <1>11, Inductive
<1>13. ASSUME NEW n \in 0 .. Len(text)
       PROVE  part[n + 1] = Advanced(part[n], TokenAt(text, n + 1))
  <2>1. n \in Nat /\ n + 1 <= size /\ n <= size
    BY <1>1
  <2>2. after[n] = [parser |-> part[n]]
    BY <1>12, <2>1 DEF Q
  <2> QED
    BY <1>10, <2>1, <2>2
<1>14. part[0] = c /\ part[size] = Read(c, text)
  BY <1>1, <1>5, <1>6, <1>8
<1>15. IsParse(c, text, part)
  BY <1>13, <1>14 DEF IsParse
<1> QED
  BY <1>14, <1>15

\* The parser ends with the text, with the value or with a refusal.
LEMMA ReadEnds ==
  ASSUME NEW c, Reads(c), NEW Tokens, NEW text \in Seq(Tokens)
  PROVE  Reads(Read(c, text)) /\ Ended(Read(c, text))
<1> DEFINE size == Len(text)
<1>1. size \in Nat /\ size + 1 \in Nat /\ size + 1 \notin DOMAIN text
  BY LenProperties
<1>2. PICK part : IsParse(c, text, part) /\ Read(c, text) = part[size + 1]
  BY ReadSteps
<1> DEFINE Q == {n \in Nat : n <= size + 1 => Reads(part[n])}
<1>3. 0 \in Q
  BY <1>2 DEF IsParse
<1>4. ASSUME NEW n \in Nat, n \in Q PROVE n + 1 \in Q
  <2> SUFFICES ASSUME n + 1 <= size + 1 PROVE Reads(part[n + 1])
    OBVIOUS
  <2>1. n \in 0 .. size /\ n <= size + 1
    BY <1>1
  <2>2. part[n + 1] = Advanced(part[n], TokenAt(text, n + 1))
    BY <1>2, <2>1 DEF IsParse
  <2>3. Reads(part[n])
    BY <1>4, <2>1
  <2> QED
    BY <2>2, <2>3, AdvancedReads
<1> HIDE DEF Q
<1>5. size + 1 \in Q /\ size \in Q
  BY <1>1, <1>3, <1>4, Inductive
<1>6. Reads(part[size + 1]) /\ Reads(part[size])
  BY <1>1, <1>5 DEF Q
<1>7. TokenAt(text, size + 1).kind = "end"
  BY <1>1 DEF TokenAt, Token
<1>8. part[size + 1] = Advanced(part[size], TokenAt(text, size + 1))
  BY <1>1, <1>2 DEF IsParse
<1>9. Ended(part[size + 1])
  BY <1>6, <1>7, <1>8, AdvancedReads
<1> QED
  BY <1>2, <1>6, <1>9
-----------------------------------------------------------------------------
(* A text that is refused leaves nothing behind.                           *)

\* A heap without a root is empty.
LEMMA NoForest ==
  ASSUME NEW h, Forest(h, 0, {})
  PROVE  h = EmptyHeap
<1>1. h = [blocks |-> h.blocks, sound |-> TRUE] /\ DOMAIN h.blocks = 1 .. 0
      /\ h.blocks = [p \in DOMAIN h.blocks |-> h.blocks[p]]
  BY DEF Forest, Dense, IsHeap
<1>2. h.blocks = <<>>
  BY <1>1
<1> QED
  BY <1>1, <1>2 DEF EmptyHeap

\* A heap with the root alone is emptied by its deletion.
LEMMA RootCut ==
  ASSUME NEW h, NEW m, Forest(h, m, {1})
  PROVE  Delete(h, 1) = EmptyHeap
<1>1. Forest(Delete(h, 1), 1 - 1, {1} \ {1})
  BY ForestCut
<1>2. 1 - 1 = 0 /\ {1} \ {1} = {}
  OBVIOUS
<1> QED
  BY <1>1, <1>2, NoForest

\* The roots while the frames behind the first n are unwound.
RootsTo(F, n) == {1} \cup {F[k].head : k \in 1 .. n}

\* The items of a frame lie behind the roots below it.
LEMMA HeadIsLast ==
  ASSUME NEW h, NEW F, Frames(h, 1, F, "refused"), NEW n \in 1 .. Len(F)
  PROVE  /\ F[n].head \in RootsTo(F, n) /\ RootsTo(F, n) \ {F[n].head} = RootsTo(F, n - 1)
         /\ \A r \in RootsTo(F, n) : r <= F[n].head
<1> DEFINE a == F[n].head
<1>1. F \in Seq(FrameSet) /\ Len(F) \in Nat /\ n \in Nat
  BY LenProperties DEF Frames
<1>2. ASSUME NEW k \in 1 .. Len(F)
      PROVE  /\ F[k].item \in Nat /\ F[k].head \in Nat /\ F[k].last \in Nat
             /\ F[k].item < F[k].head /\ F[k].head <= F[k].last /\ 1 <= F[k].item
  <2>1. Begun(h, F[k]) /\ Open(h, 1, F[k].item)
    BY DEF Frames
  <2> QED
    BY <1>1, <2>1, FrameIs DEF Begun, Open
<1>3. 1 < a /\ a \in Nat
  BY <1>2
<1>4. ASSUME NEW k \in 1 .. (n - 1) PROVE F[k].head < a
  <2>1. k \in 1 .. Len(F)
    BY <1>1
  <2>2. F[k].last <= F[n].item
    BY DEF Frames
  <2> QED
    BY <1>2, <2>1, <2>2
<1> HIDE DEF a
<1>5. 1 .. n = (1 .. (n - 1)) \cup {n}
  BY <1>1
<1>6. RootsTo(F, n) = RootsTo(F, n - 1) \cup {a}
  BY <1>5 DEF RootsTo, a
<1>7. \A r \in RootsTo(F, n - 1) : r < a
  BY <1>3, <1>4 DEF RootsTo
<1>8. \A k \in 1 .. (n - 1) : F[k].head \in Nat
  BY <1>1, <1>2
<1>9. \A r \in RootsTo(F, n - 1) : r \in Nat
  BY <1>8 DEF RootsTo
<1>10. a \notin RootsTo(F, n - 1) /\ \A r \in RootsTo(F, n) : r <= a
  BY <1>3, <1>6, <1>7, <1>9
<1> QED
  BY <1>6, <1>10 DEF a

\* What is left when n frames are unwound exists.
IsUnwinding(c, open, n, from) ==
  from = [j \in 0 .. n |-> IF j = 0 THEN c.heap
                           ELSE Discard(from[j - 1], c.frames[open + 1 - j].head)]

\* From list to list, the members that were read are deleted.
LEMMA UnwoundToRoot ==
  ASSUME NEW c, NEW m, Left(c, m)
  PROVE  \E n : Forest(Unwound(c), n, {1})
<1> DEFINE F == c.frames
           open == Len(c.frames)
<1>1. F \in Seq(FrameSet) /\ open \in Nat /\ Frames(c.heap, 1, F, "refused")
  BY LenProperties DEF Left, Frames
<1> DEFINE P == {n \in Nat : \E from : IsUnwinding(c, open, n, from)}
<1>2. 0 \in P
  <2>1. IsUnwinding(c, open, 0, [j \in 0 .. 0 |-> c.heap])
    BY DEF IsUnwinding
  <2> QED
    BY <2>1
<1>3. ASSUME NEW n \in Nat, n \in P PROVE n + 1 \in P
  <2>1. PICK from : IsUnwinding(c, open, n, from)
    BY <1>3
  <2> DEFINE next == [j \in 0 .. n + 1 |->
                        IF j = n + 1 THEN Discard(from[n], c.frames[open + 1 - (n + 1)].head)
                        ELSE from[j]]
  <2> HIDE DEF open
  <2>2. IsUnwinding(c, open, n + 1, next)
    BY <2>1 DEF IsUnwinding
  <2> QED
    BY <2>2
<1> HIDE DEF P
<1>4. open \in P
  BY <1>1, <1>2, <1>3, Inductive
<1>5. PICK from : IsUnwinding(c, open, open, from) /\ Unwound(c) = from[open]
  <2> DEFINE all == CHOOSE from : IsUnwinding(c, open, open, from)
  <2>1. IsUnwinding(c, open, open, all)
    BY <1>4 DEF P
  <2>2. Unwound(c) = all[open]
    BY DEF Unwound, IsUnwinding
  <2> QED
    BY <2>1, <2>2
<1>6. from[0] = c.heap
  BY <1>1, <1>5 DEF IsUnwinding
<1>7. ASSUME NEW n \in Nat, n + 1 <= open
      PROVE  from[n + 1] = Delete(from[n], F[open - n].head)
  <2>1. from[n + 1] = Discard(from[n], F[open + 1 - (n + 1)].head)
    <3>1. open \in Nat
      BY <1>1
    <3> HIDE DEF open
    <3> QED
      BY <1>5, <1>7, <3>1 DEF IsUnwinding
  <2>2. open + 1 - (n + 1) = open - n
    <3>1. open \in Nat
      BY <1>1
    <3> HIDE DEF open
    <3> QED
      BY <3>1
  <2> QED
    BY <2>1, <2>2 DEF Discard
<1> HIDE DEF open, F
<1> DEFINE Q == {n \in Nat : n <= open => \E j : Forest(from[n], j, RootsTo(F, open - n))}
<1>8. 0 \in Q
  <2>1. RootsTo(F, open) = Roots(c)
    <3>1. ItemsIn(c.heap) \subseteq Nat \ {NULL}
      BY <1>1 DEF Frames
    <3>2. \A k \in 1 .. open : F[k].head # NULL
      BY <1>1, <3>1 DEF Frames, Begun, F, open
    <3>3. c.item = 1
      BY DEF Left
    <3> QED
      BY <3>2, <3>3 DEF RootsTo, Roots, Heads, F, open
  <2>2. open - 0 = open
    BY <1>1
  <2>3. Forest(from[0], m, RootsTo(F, open - 0))
    BY <1>6, <2>1, <2>2 DEF Left
  <2> QED
    BY <2>3
<1>9. ASSUME NEW n \in Nat, n + 1 <= open, NEW j, Forest(from[n], j, RootsTo(F, open - n))
      PROVE  Forest(from[n + 1], F[open - n].head - 1, RootsTo(F, open - (n + 1)))
  <2>1. open - n \in 1 .. Len(F) /\ open - (n + 1) = open - n - 1
    BY <1>1, <1>9 DEF open, F
  <2> DEFINE k == open - n
  <2> HIDE DEF k
  <2>2. /\ F[k].head \in RootsTo(F, k) /\ RootsTo(F, k) \ {F[k].head} = RootsTo(F, k - 1)
        /\ \A r \in RootsTo(F, k) : r <= F[k].head
    BY <1>1, <2>1, HeadIsLast DEF k
  <2>3. Forest(from[n], j, RootsTo(F, k))
    BY <1>9 DEF k
  <2>4. Forest(Delete(from[n], F[k].head), F[k].head - 1, RootsTo(F, k) \ {F[k].head})
    BY <2>2, <2>3, ForestCut
  <2> QED
    BY <1>7, <1>9, <2>1, <2>2, <2>4 DEF k
<1> HIDE DEF Q
<1>10. \A n \in Nat : n \in Q => n + 1 \in Q
  <2> SUFFICES ASSUME NEW n \in Nat, n \in Q PROVE n + 1 \in Q
    OBVIOUS
  <2>1. n + 1 \in Nat /\ (n + 1 <= open => n <= open)
    BY <1>1 DEF open
  <2> QED
    BY <1>9, <2>1 DEF Q
<1>11. Nat \subseteq Q
  BY <1>8, <1>10, Inductive
<1>12. open \in Nat /\ open - open = 0
  BY <1>1 DEF open
<1>13. \E j : Forest(from[open], j, RootsTo(F, 0))
  BY <1>11, <1>12 DEF Q
<1>14. RootsTo(F, 0) = {1}
  BY DEF RootsTo
<1> QED
  BY <1>5, <1>13, <1>14 DEF open

\* A text is refused or built, and no block of it is lost, freed twice or left
\* behind: not when the parser unwinds, and not when what it built is deleted.
THEOREM ParsedIsFreed ==
  ASSUME NEW Tokens, NEW text \in Seq(Tokens)
  PROVE  LET result == Parse(EmptyHeap, text)
         IN IF result.item = NULL THEN result.heap = EmptyHeap
            ELSE Delete(result.heap, result.item) = EmptyHeap
<1> DEFINE root == NewItem(EmptyHeap, EmptyItem)
           b == Parser(root.heap, root.item)
           c == Read(b, text)
           result == Parse(EmptyHeap, text)
<1>1. Reads(b)
  <2>1. Standing(b, 1)
    BY RootStands
  <2>2. b.expects = "value"
    BY DEF Parser
  <2> QED
    BY <2>1, <2>2 DEF Reads, Expected
<1> HIDE DEF b
<1>2. Reads(c) /\ Ended(c)
  BY <1>1, ReadEnds
<1>3. result = IF c.expects = "nothing"
               THEN [heap |-> c.heap, item |-> c.item, end |-> c.read + 1]
               ELSE [heap |-> Delete(Unwound(c), c.item), item |-> NULL, end |-> c.read]
  BY DEF Parse, b
<1> HIDE DEF c, result
<1>4. CASE c.expects = "nothing"
  <2>1. PICK m : Standing(c, m)
    BY <1>2, <1>4 DEF Reads
  <2>2. c.item = 1 /\ Forest(c.heap, m, Roots(c)) /\ Len(c.frames) = 0
    BY <1>4, <2>1 DEF Standing
  <2>3. Roots(c) = {1}
    BY <2>2 DEF Roots, Heads
  <2>4. Delete(c.heap, 1) = EmptyHeap
    BY <2>2, <2>3, RootCut
  <2>5. result.heap = c.heap /\ result.item = 1 /\ 1 # NULL
    BY <1>3, <1>4, <2>2 DEF NULL
  <2>6. result.item # NULL /\ Delete(result.heap, result.item) = EmptyHeap
    BY <2>4, <2>5
  <2> QED
    BY <2>6 DEF result
<1>5. CASE c.expects # "nothing"
  <2>1. PICK m : Left(c, m)
    BY <1>2, <1>5 DEF Reads, Ended, Expected
  <2>2. PICK n : Forest(Unwound(c), n, {1})
    BY <2>1, UnwoundToRoot
  <2>3. Delete(Unwound(c), 1) = EmptyHeap
    BY <2>2, RootCut
  <2>4. result.item = NULL /\ result.heap = EmptyHeap
    BY <1>3, <1>5, <2>1, <2>3 DEF Left
  <2> QED
    BY <2>4 DEF result
<1> QED
  BY <1>4, <1>5
-----------------------------------------------------------------------------
(* What has been read of a text prints as the text.  Every item has a place     *)
(* in it, which nothing in the program keeps: the list it is a member of, where *)
(* it starts (with its name), where its value begins, and where it ends.        *)

Lists == {"Array", "Object"}
Leaves == {"NULL", "False", "True", "Number", "String"}

IsPlace(r) ==
  /\ r.up \in Nat /\ r.list \in Lists /\ r.start \in Nat /\ r.begin \in Nat /\ r.end \in Nat

Opening(list) == IF list = "Object" THEN Token("{") ELSE Token("[")
Closing(list) == IF list = "Object" THEN Token("}") ELSE Token("]")

\* What a value that is no list prints.
Leaf(h, it) ==
  CASE it.type = "NULL"   -> Token("null")
    [] it.type = "False"  -> Token("false")
    [] it.type = "True"   -> Token("true")
    [] it.type = "Number" -> Tenths(it.valuedouble)
    [] OTHER              -> String(h.blocks[it.valuestring].text)

\* The value of an item that has been read stands in its place.
LeafSpelled(h, it, r, text) ==
  /\ it.type \in Leaves /\ r.end = r.begin + 1
  /\ it.type = "String" => it.valuestring \in DOMAIN h.blocks \ ItemsIn(h)
  /\ TokenAt(text, r.end) = Leaf(h, it)

ListSpelled(g, it, x, text) ==
  /\ it.type \in Lists
  /\ TokenAt(text, g[x].begin + 1) = Opening(it.type)
  /\ TokenAt(text, g[x].end) = Closing(it.type)
  /\ IF it.child = NULL THEN g[x].end = g[x].begin + 2
     ELSE /\ g[it.child].start = g[x].begin + 1
          /\ g[it.child].up = x /\ g[it.child].list = it.type

Spelled(h, g, x, text) ==
  LeafSpelled(h, h.blocks[x], g[x], text) \/ ListSpelled(g, h.blocks[x], x, text)

\* Behind it is a comma, and the item that is linked to it.
Followed(g, x, y, text) ==
  /\ TokenAt(text, g[x].end + 1) = Token(",") /\ g[y].start = g[x].end + 1
  /\ g[y].up = g[x].up /\ g[y].list = g[x].list

\* Its name is in front of the value; nameless items have not read theirs yet,
\* and those without a colon have not read that.
Titled(h, g, x, text, nameless, bare) ==
  IF g[x].list = "Object"
  THEN /\ g[x].begin = g[x].start + 2
       /\ x \notin nameless =>
            /\ h.blocks[x].string \in DOMAIN h.blocks \ ItemsIn(h)
            /\ TokenAt(text, g[x].start + 1) = String(h.blocks[h.blocks[x].string].text)
       /\ x \notin bare => TokenAt(text, g[x].start + 2) = Token(":")
  ELSE g[x].begin = g[x].start

\* The last item of a list that has been read is the end of the list.
Enclosed(h, g, x, open) ==
  /\ g[x].up \in ItemsIn(h) /\ g[x].up < x
  /\ h.blocks[x].next = NULL /\ g[x].up \notin open => g[g[x].up].end = g[x].end + 1

\* The places of a heap: open items have not been read yet.
Places(h, g, text, open, nameless, bare) ==
  /\ \A x \in ItemsIn(h) : IsPlace(g[x])
  /\ g[1].begin = 0
  /\ \A x \in ItemsIn(h) \ open : Spelled(h, g, x, text)
  /\ \A x \in ItemsIn(h) : h.blocks[x].next # NULL => Followed(g, x, h.blocks[x].next, text)
  /\ \A x \in ItemsIn(h) \ {1} : Titled(h, g, x, text, nameless, bare)
  /\ \A x \in ItemsIn(h) \ {1} : Enclosed(h, g, x, open)
  /\ open \subseteq ItemsIn(h) /\ \A x \in open : h.blocks[x].next = NULL

\* What a list that is open has read.
ListOf(named) == IF named THEN "Object" ELSE "Array"

Member(g, x, f) == g[x].up = f.item /\ g[x].list = ListOf(f.named)

FramePlaced(h, g, text, f) ==
  /\ TokenAt(text, g[f.item].begin + 1) = Opening(ListOf(f.named))
  /\ f.head # NULL => /\ g[f.head].start = g[f.item].begin + 1
                      /\ Member(g, f.head, f) /\ Member(g, f.last, f)
  /\ \A x \in ItemsIn(h) \ {1} : g[x].up = f.item /\ h.blocks[x].next = NULL => x = f.last

FramesPlaced(h, g, text, F) == \A k \in 1 .. Len(F) : FramePlaced(h, g, text, F[k])

\* Where the parser is.
StandsAt(c, g, n) ==
  CASE c.expects = "value"  -> g[Current(c)].begin = n
    [] c.expects = "name"   -> g[Current(c)].start = n /\ g[Current(c)].list = "Object"
    [] c.expects = "colon"  -> g[Current(c)].start + 1 = n /\ g[Current(c)].list = "Object"
    [] c.expects = "member" -> g[Top(c).item].begin + 1 = n
    [] c.expects = "comma"  -> g[Top(c).last].end = n
    [] OTHER                -> g[1].end = n

FrameItems(F) == {F[k].item : k \in 1 .. Len(F)}

OpenItems(c) == FrameItems(c.frames) \cup (IF Pending(c) THEN {Current(c)} ELSE {})
Nameless(c)  == IF c.expects = "name" THEN {Current(c)} ELSE {}
Colonless(c) == IF c.expects \in {"name", "colon"} THEN {Current(c)} ELSE {}

\* The parser has read n tokens of the text, and kept what they say.
Placed(c, g, text, n) ==
  /\ Places(c.heap, g, text, OpenItems(c), Nameless(c), Colonless(c))
  /\ FramesPlaced(c.heap, g, text, c.frames)
  /\ Pending(c) => \A x \in ItemsIn(c.heap) \ {1} : g[x].up # Current(c)
  /\ n \in Nat /\ StandsAt(c, g, n)
-----------------------------------------------------------------------------
(* A whole text: what stands in its places is what is printed.             *)

\* What stands in a text behind a, up to b.
Span(text, a, b, s) ==
  /\ a \in Nat /\ b \in Nat /\ a <= b /\ b <= Len(text) /\ s = SubSeq(text, a + 1, b)

\* Nothing stands in front of the first token.
LEMMA SpanEmpty ==
  ASSUME NEW Tokens, NEW text \in Seq(Tokens), NEW a \in 0 .. Len(text)
  PROVE  Span(text, a, a, <<>>)
<1>1. Len(text) \in Nat
  BY LenProperties
<1>2. a \in Nat /\ a <= Len(text) /\ a + 1 \in Int /\ a \in Int /\ a < a + 1
  BY <1>1
<1>3. SubSeq(text, a + 1, a) = <<>>
  BY <1>2, SubSeqEmpty
<1> QED
  BY <1>2, <1>3 DEF Span

\* A token that is not the end stands in the text.
LEMMA SpanToken ==
  ASSUME NEW Tokens, NEW text \in Seq(Tokens), NEW a \in Nat, NEW token,
         TokenAt(text, a + 1) = token, token.kind # "end"
  PROVE  Span(text, a, a + 1, <<token>>) /\ a \in 0 .. Len(text)
<1>1. Len(text) \in Nat /\ DOMAIN text = 1 .. Len(text)
  BY LenProperties
<1>2. Token("end").kind = "end"
  BY DEF Token
<1>3. a + 1 \in 1 .. Len(text) /\ text[a + 1] = token
  BY <1>1, <1>2 DEF TokenAt
<1>4. /\ a + 1 \in (a + 1) .. Len(text) /\ a + 1 \in Int /\ a + 1 + 1 \in Int
      /\ a + 1 < a + 1 + 1 /\ a \in Nat /\ a + 1 \in Nat /\ a <= a + 1 /\ a + 1 <= Len(text)
      /\ a \in 0 .. Len(text)
  BY <1>1, <1>3
<1>5. SubSeq(text, a + 1, a + 1) = <<text[a + 1]>> \o SubSeq(text, a + 1 + 1, a + 1)
  BY <1>3, <1>4, SubSeqRecursiveFirst
<1>6. SubSeq(text, a + 1 + 1, a + 1) = <<>>
  BY <1>4, SubSeqEmpty
<1>7. <<token>> \in Seq({token}) /\ <<token>> \o <<>> = <<token>>
  <2>1. <<token>> \in Seq({token})
    OBVIOUS
  <2> QED
    BY <2>1, ConcatEmptySeq
<1>8. <<token>> = SubSeq(text, a + 1, a + 1)
  BY <1>3, <1>5, <1>6, <1>7
<1> QED
  BY <1>4, <1>8 DEF Span

\* What stands behind what.
LEMMA SpanJoined ==
  ASSUME NEW Tokens, NEW text \in Seq(Tokens), NEW a, NEW b, NEW c, NEW s, NEW r,
         Span(text, a, b, s), Span(text, b, c, r)
  PROVE  Span(text, a, c, s \o r)
<1>1. Len(text) \in Nat
  BY LenProperties
<1>2. /\ a \in Nat /\ b \in Nat /\ c \in Nat /\ a <= b /\ b <= c /\ c <= Len(text)
      /\ s = SubSeq(text, a + 1, b) /\ r = SubSeq(text, b + 1, c)
  BY DEF Span
<1>3. /\ a + 1 \in 1 .. Len(text) + 1 /\ b \in (a + 1) - 1 .. Len(text) /\ c \in b .. Len(text)
      /\ a <= c
  BY <1>1, <1>2
<1>4. SubSeq(text, a + 1, b) \o SubSeq(text, b + 1, c) = SubSeq(text, a + 1, c)
  BY <1>3, ConcatAdjacentSubSeq
<1>5. s \o r = SubSeq(text, a + 1, c)
  BY <1>2, <1>4
<1> QED
  BY <1>2, <1>3, <1>5 DEF Span

\* A value that is no list prints as one token.
LEMMA LeafPrints ==
  ASSUME NEW h, NEW it, it.type \in Leaves, it.type = "String" => it.valuestring # NULL, NEW members
  PROVE  PrintValue(h, it, members) = <<Leaf(h, it)>> /\ Leaf(h, it).kind # "end"
<1>1. CASE it.type = "NULL"
  BY <1>1 DEF PrintValue, Leaf, Token
<1>2. CASE it.type = "False"
  BY <1>2 DEF PrintValue, Leaf, Token
<1>3. CASE it.type = "True"
  BY <1>3 DEF PrintValue, Leaf, Token
<1>4. CASE it.type = "Number"
  BY <1>4 DEF PrintValue, PrintNumber, Leaf, Tenths
<1>5. CASE it.type = "String"
  BY <1>5 DEF PrintValue, PrintString, Leaf, String
<1> QED
  BY <1>1, <1>2, <1>3, <1>4, <1>5 DEF Leaves

\* The places of a heap that has been read.
Settled(h, g, text) == Places(h, g, text, {}, {}, {})

\* The pointers of an item lead onward.
LEMMA Links ==
  ASSUME NEW h, NEW m, Forest(h, m, {1}), NEW x \in ItemsIn(h)
  PROVE  /\ x \in 1 .. m /\ m \in Nat /\ IsItem(h.blocks[x]) /\ NULL \notin DOMAIN h.blocks
         /\ DOMAIN h.blocks = 1 .. m
         /\ h.blocks[x].next # NULL =>
              h.blocks[x].next \in ItemsIn(h) \ {1} /\ h.blocks[x].next \in (x + 1) .. m
         /\ h.blocks[x].child # NULL =>
              h.blocks[x].child \in ItemsIn(h) \ {1} /\ h.blocks[x].child \in (x + 1) .. m
<1>1. /\ m \in Nat /\ DOMAIN h.blocks = 1 .. m /\ Typed(h) /\ ItemsIn(h) \subseteq 1 .. m
      /\ NULL \notin DOMAIN h.blocks
  BY DEF Forest, Dense, ItemsIn, NULL
<1>2. IsItem(h.blocks[x]) /\ h.blocks[x].reference = FALSE
  BY <1>1 DEF Typed
<1>3. To(h, x, "next") = h.blocks[x].next /\ To(h, x, "child") = h.blocks[x].child
  BY <1>2 DEF To, Owned
<1>4. \A s \in {"next", "child"} : To(h, x, s) # NULL =>
        To(h, x, s) \in (x + 1) .. m /\ To(h, x, s) \notin {1} /\ To(h, x, s) \in ItemsIn(h)
  BY DEF Forest, Forward, Slots
<1>5. /\ h.blocks[x].next # NULL =>
              h.blocks[x].next \in ItemsIn(h) \ {1} /\ h.blocks[x].next \in (x + 1) .. m
      /\ h.blocks[x].child # NULL =>
              h.blocks[x].child \in ItemsIn(h) \ {1} /\ h.blocks[x].child \in (x + 1) .. m
  BY <1>3, <1>4
<1> QED
  BY <1>1, <1>2, <1>5

\* The lists from items behind x on print as they stand in the text.
Prints(h, g, text, members, x) ==
  /\ \A list \in Lists : members[list][NULL] = <<>>
  /\ \A y \in ItemsIn(h) \ {1} : y > x =>
       Span(text, g[y].start, g[g[y].up].end - 1, members[g[y].list][y])

\* print_value prints an item as the tokens of its place.
LEMMA ValuePrints ==
  ASSUME NEW h, NEW m, Forest(h, m, {1}), NEW g, NEW Tokens, NEW text \in Seq(Tokens),
         Settled(h, g, text), NEW x \in ItemsIn(h), NEW members, Prints(h, g, text, members, x)
  PROVE  Span(text, g[x].begin, g[x].end, PrintValue(h, h.blocks[x], members))
<1> DEFINE it == h.blocks[x]
           b  == g[x].begin
           e  == g[x].end
<1>1. /\ IsItem(it) /\ NULL \notin DOMAIN h.blocks /\ x \in Nat
      /\ it.child # NULL => it.child \in ItemsIn(h) \ {1} /\ it.child > x
  BY Links
<1>2. IsPlace(g[x]) /\ Spelled(h, g, x, text)
  BY DEF Settled, Places
<1>3. b \in Nat /\ e \in Nat
  BY <1>2 DEF IsPlace
<1>4. CASE LeafSpelled(h, it, g[x], text)
  <2>1. /\ it.type \in Leaves /\ e = b + 1 /\ (it.type = "String" => it.valuestring # NULL)
        /\ TokenAt(text, b + 1) = Leaf(h, it)
    BY <1>1, <1>4 DEF LeafSpelled
  <2>2. PrintValue(h, it, members) = <<Leaf(h, it)>> /\ Leaf(h, it).kind # "end"
    BY <2>1, LeafPrints
  <2> DEFINE leaf == Leaf(h, it)
             value == PrintValue(h, it, members)
  <2>3. /\ TokenAt(text, b + 1) = leaf /\ leaf.kind # "end" /\ value = <<leaf>>
    BY <2>1, <2>2
  <2> HIDE DEF leaf, value, b, e
  <2>4. Span(text, b, b + 1, <<leaf>>)
    BY <1>3, <2>3, SpanToken
  <2> QED
    BY <2>1, <2>3, <2>4 DEF value, b, e
<1>5. CASE ListSpelled(g, it, x, text)
  <2> DEFINE inner == members[it.type][it.child]
             opening == Opening(it.type)
             closing == Closing(it.type)
             value == PrintValue(h, it, members)
             whole == (<<opening>> \o inner) \o <<closing>>
  <2>1. /\ it.type \in Lists
        /\ TokenAt(text, b + 1) = opening /\ TokenAt(text, e) = closing
    BY <1>5 DEF ListSpelled
  <2>2. opening.kind # "end" /\ closing.kind # "end"
    BY <2>1 DEF Opening, Closing, Token
  <2>3. value = whole
    <3>1. CASE it.type = "Array"
      BY <3>1 DEF PrintValue, PrintArray, Opening, Closing
    <3>2. CASE it.type = "Object"
      BY <3>2 DEF PrintValue, PrintObject, Opening, Closing
    <3>3. it.type \in {"Array", "Object"}
      BY <2>1 DEF Lists
    <3> HIDE DEF value, whole, it
    <3> QED
      BY ONLY <3>1, <3>2, <3>3
  <2>4. Span(text, b + 1, e - 1, inner) /\ b + 1 <= e - 1
    <3>1. CASE it.child = NULL
      <4>1. inner = <<>>
        BY <2>1, <3>1 DEF Prints
      <4>2. e = b + 2
        BY <1>5, <3>1 DEF ListSpelled
      <4> HIDE DEF inner, b, e, closing
      <4>3. b + 1 \in Nat /\ b + 1 + 1 = e /\ e - 1 = b + 1 /\ b + 1 <= b + 1
        BY <1>3, <4>2
      <4>4. TokenAt(text, (b + 1) + 1) = closing
        BY <2>1, <4>3
      <4>5. b + 1 \in 0 .. Len(text)
        BY <2>2, <4>3, <4>4, SpanToken
      <4>6. Span(text, b + 1, b + 1, <<>>)
        BY <4>5, SpanEmpty
      <4> QED
        BY <4>1, <4>3, <4>6
    <3>2. CASE it.child # NULL
      <4>1. /\ g[it.child].start = b + 1 /\ g[it.child].up = x /\ g[it.child].list = it.type
        BY <1>5, <3>2 DEF ListSpelled
      <4>2. Span(text, g[it.child].start, g[g[it.child].up].end - 1,
                 members[g[it.child].list][it.child])
        BY <1>1, <3>2 DEF Prints
      <4>3. Span(text, b + 1, e - 1, inner)
        BY <4>1, <4>2
      <4> QED
        BY <4>3 DEF Span
    <3> QED
      BY <3>1, <3>2
  <2> HIDE DEF inner, opening, closing, value, b, e
  <2>5. Span(text, b, b + 1, <<opening>>)
    BY <1>3, <2>1, <2>2, SpanToken
  <2>6. e - 1 \in Nat /\ (e - 1) + 1 = e
    BY <1>3, <2>4
  <2>7. TokenAt(text, (e - 1) + 1) = closing
    BY <2>1, <2>6
  <2>8. Span(text, e - 1, (e - 1) + 1, <<closing>>)
    BY <2>2, <2>6, <2>7, SpanToken
  <2>9. Span(text, e - 1, e, <<closing>>)
    BY <2>6, <2>8
  <2>10. Span(text, b, e - 1, <<opening>> \o inner)
    BY <2>4, <2>5, SpanJoined
  <2>11. Span(text, b, e, whole)
    BY <2>9, <2>10, SpanJoined
  <2>12. Span(text, b, e, value)
    BY <2>3, <2>11
  <2> QED
    BY <2>12 DEF value, b, e
<1> QED
  BY <1>2, <1>4, <1>5 DEF Spelled

\* The text of an item with a name, a value and what follows it.
LEMMA MemberPrints ==
  ASSUME NEW h, NEW m, Forest(h, m, {1}), NEW g, NEW Tokens, NEW text \in Seq(Tokens),
         Settled(h, g, text), NEW x \in ItemsIn(h) \ {1}, NEW members,
         Prints(h, g, text, members, x)
  PROVE  Span(text, g[x].start, g[g[x].up].end - 1,
              PrintMembers(h, h.blocks[x], g[x].list, members))
<1> DEFINE it    == h.blocks[x]
           list  == g[x].list
           a     == g[x].start
           b     == g[x].begin
           e     == g[x].end
           last  == g[g[x].up].end - 1
           title == PrintString(h, it.string)
           name  == IF list = "Object" THEN title \o <<Token(":")>> ELSE <<>>
           value == PrintValue(h, it, members)
           rest  == IF it.next = NULL THEN <<>> ELSE <<Token(",")>> \o members[list][it.next]
<1>1. x \in ItemsIn(h) /\ Settled(h, g, text)
  OBVIOUS
<1>2. /\ NULL \notin DOMAIN h.blocks /\ x \in Nat
      /\ it.next # NULL => it.next \in ItemsIn(h) \ {1} /\ it.next > x
  <2>1. /\ x \in 1 .. m /\ m \in Nat /\ NULL \notin DOMAIN h.blocks
        /\ h.blocks[x].next # NULL =>
             h.blocks[x].next \in ItemsIn(h) \ {1} /\ h.blocks[x].next \in (x + 1) .. m
    BY <1>1, Links
  <2> QED
    BY <2>1
<1>3. /\ IsPlace(g[x]) /\ Titled(h, g, x, text, {}, {}) /\ Enclosed(h, g, x, {})
      /\ it.next # NULL => Followed(g, x, it.next, text)
  <2>1. Places(h, g, text, {}, {}, {})
    BY DEF Settled
  <2>2. IsPlace(g[x]) /\ (it.next # NULL => Followed(g, x, it.next, text))
    BY <2>1 DEF Places
  <2>3. Titled(h, g, x, text, {}, {}) /\ Enclosed(h, g, x, {})
    BY <2>1 DEF Places
  <2> QED
    BY <2>2, <2>3
<1>4. a \in Nat /\ b \in Nat /\ e \in Nat /\ list \in Lists
  BY <1>3 DEF IsPlace
<1>5. Span(text, b, e, value)
  BY <1>1, ValuePrints
<1>6. b \in 0 .. Len(text) /\ e \in 0 .. Len(text)
  <2>1. Len(text) \in Nat
    BY LenProperties
  <2> HIDE DEF value
  <2> QED
    BY <1>5, <2>1 DEF Span
<1>7. Token(":").kind # "end" /\ Token(",").kind # "end"
  BY DEF Token
<1>8. Span(text, a, b, name)
  <2>1. CASE list = "Object"
    <3> DEFINE token == String(h.blocks[it.string].text)
    <3>1. /\ b = a + 2 /\ it.string # NULL
          /\ TokenAt(text, a + 1) = token /\ TokenAt(text, a + 2) = Token(":")
      BY <1>2, <1>3, <2>1 DEF Titled
    <3>2. title = <<token>> /\ token.kind # "end"
      BY <3>1 DEF PrintString, String
    <3> HIDE DEF token, title, a, b
    <3>3. Span(text, a, a + 1, <<token>>)
      BY <1>4, <3>1, <3>2, SpanToken
    <3>4. a + 1 \in Nat /\ (a + 1) + 1 = a + 2
      BY <1>4
    <3>5. TokenAt(text, (a + 1) + 1) = Token(":")
      BY <3>1, <3>4
    <3>6. Span(text, a + 1, (a + 1) + 1, <<Token(":")>>)
      BY <1>7, <3>4, <3>5, SpanToken
    <3>7. Span(text, a + 1, b, <<Token(":")>>)
      BY <3>1, <3>4, <3>6
    <3>8. Span(text, a, b, <<token>> \o <<Token(":")>>)
      BY <3>3, <3>7, SpanJoined
    <3> QED
      BY <2>1, <3>2, <3>8
  <2>2. CASE list # "Object"
    <3>1. a = b /\ name = <<>>
      BY <1>3, <2>2 DEF Titled
    <3> HIDE DEF name, a, b
    <3>2. Span(text, b, b, <<>>)
      BY <1>6, SpanEmpty
    <3> QED
      BY <3>1, <3>2
  <2> QED
    BY <2>1, <2>2
<1>9. Span(text, e, last, rest)
  <2>1. CASE it.next = NULL
    <3>1. g[g[x].up].end = e + 1 /\ rest = <<>>
      BY <1>3, <2>1 DEF Enclosed
    <3> HIDE DEF e, rest
    <3>2. last = e
      BY <1>4, <3>1
    <3>3. Span(text, e, e, <<>>)
      BY <1>6, SpanEmpty
    <3> QED
      BY <3>1, <3>2, <3>3
  <2>2. CASE it.next # NULL
    <3> DEFINE y == it.next
               behind == members[list][y]
    <3>1. /\ TokenAt(text, e + 1) = Token(",") /\ g[y].start = e + 1
          /\ g[y].up = g[x].up /\ g[y].list = list
      BY <1>3, <2>2 DEF Followed
    <3>2. Span(text, g[y].start, g[g[y].up].end - 1, members[g[y].list][y])
      BY <1>2, <2>2 DEF Prints
    <3>3. Span(text, e + 1, last, behind)
      BY <3>1, <3>2
    <3>4. rest = <<Token(",")>> \o behind
      BY <2>2
    <3> HIDE DEF e, rest, behind, last
    <3>5. Span(text, e, e + 1, <<Token(",")>>)
      BY <1>4, <1>7, <3>1, SpanToken
    <3>6. Span(text, e, last, <<Token(",")>> \o behind)
      BY <3>3, <3>5, SpanJoined
    <3> QED
      BY <3>4, <3>6
  <2> QED
    BY <2>1, <2>2
<1>10. PrintMembers(h, it, list, members) = (name \o value) \o rest
  BY DEF PrintMembers
<1> HIDE DEF a, b, e, last, name, value, rest, it, list
<1>11. Span(text, a, e, name \o value)
  BY <1>5, <1>8, SpanJoined
<1>12. Span(text, a, last, (name \o value) \o rest)
  BY <1>9, <1>11, SpanJoined
<1>13. Span(text, a, last, PrintMembers(h, it, list, members))
  BY <1>10, <1>12
<1> QED
  BY <1>13 DEF a, last, it, list

\* A recursive function over the number of members, and members, exists.
Members(h, n, rest) ==
  [list \in {"Array", "Object"} |->
     [p \in DOMAIN h.blocks \cup {NULL} |->
        IF n = 0 \/ p = NULL THEN <<>> ELSE PrintMembers(h, h.blocks[p], list, rest)]]

\* Of no item nothing is printed; of an item what PrintMembers does.
LEMMA MembersAre ==
  ASSUME NEW h, NEW n, NEW rest, NEW list \in Lists
  PROVE  /\ Members(h, n, rest)[list][NULL] = <<>>
         /\ \A p \in DOMAIN h.blocks : n # 0 /\ p # NULL =>
              Members(h, n, rest)[list][p] = PrintMembers(h, h.blocks[p], list, rest)
  BY DEF Members, Lists

IsPrinting(h, n, members) == members = [j \in 0 .. n |-> Members(h, j, members[j - 1])]

\* What is printed is the last of these tables.
LEMMA PrintingSteps ==
  ASSUME NEW h, NEW item, Cardinality(DOMAIN h.blocks) \in Nat
  PROVE  \E members :
           /\ IsPrinting(h, Cardinality(DOMAIN h.blocks), members)
           /\ Printed(h, item) =
                PrintValue(h, h.blocks[item], members[Cardinality(DOMAIN h.blocks)])
<1> DEFINE size == Cardinality(DOMAIN h.blocks)
           P == {n \in Nat : \E members : IsPrinting(h, n, members)}
<1>1. 0 \in P
  <2> DEFINE first == [j \in 0 .. 0 |->
                         [list \in {"Array", "Object"} |->
                            [p \in DOMAIN h.blocks \cup {NULL} |-> <<>>]]]
  <2>1. \A j \in 0 .. 0 : first[j] = Members(h, j, first[j - 1])
    BY DEF Members
  <2>2. IsPrinting(h, 0, first)
    BY <2>1 DEF IsPrinting
  <2> QED
    BY <2>2
<1>2. ASSUME NEW n \in Nat, n \in P PROVE n + 1 \in P
  <2>1. PICK members : IsPrinting(h, n, members)
    BY <1>2
  <2> DEFINE next == [j \in 0 .. n + 1 |->
                        IF j = n + 1 THEN Members(h, j, members[n]) ELSE members[j]]
  <2>2. \A j \in 0 .. n : members[j] = Members(h, j, members[j - 1])
    BY <2>1 DEF IsPrinting
  <2>3. ASSUME NEW j \in 0 .. n + 1 PROVE next[j] = Members(h, j, next[j - 1])
    <3>1. CASE j = n + 1
      <4>1. next[j] = Members(h, j, members[n]) /\ j - 1 = n /\ n \in 0 .. n + 1 /\ n # n + 1
        BY <3>1
      <4>2. next[n] = members[n]
        BY <4>1
      <4> QED
        BY <4>1, <4>2
    <3>2. CASE j = 0
      <4>1. next[j] = Members(h, 0, members[j - 1])
        BY <2>2, <3>2
      <4>2. Members(h, 0, members[j - 1]) = Members(h, 0, next[j - 1])
        BY DEF Members
      <4> QED
        BY <3>2, <4>1, <4>2
    <3>3. CASE j \in 1 .. n
      <4>1. next[j] = members[j] /\ j - 1 \in 0 .. n + 1 /\ j - 1 # n + 1 /\ j \in 0 .. n
        BY <3>3
      <4>2. next[j - 1] = members[j - 1]
        BY <4>1
      <4> QED
        BY <2>2, <4>1, <4>2
    <3> QED
      BY <3>1, <3>2, <3>3
  <2> DEFINE same == [j \in 0 .. n + 1 |-> Members(h, j, next[j - 1])]
  <2>4. next = same
    BY <2>3
  <2> HIDE DEF next
  <2>5. IsPrinting(h, n + 1, next)
    BY <2>4 DEF IsPrinting
  <2> QED
    BY <2>5
<1> HIDE DEF P
<1>3. size \in P
  BY <1>1, <1>2, Inductive
<1> DEFINE all == CHOOSE members : IsPrinting(h, size, members)
<1>4. IsPrinting(h, size, all)
  BY <1>3 DEF P
<1>5. Printed(h, item) = PrintValue(h, h.blocks[item], all[size])
  BY DEF Printed, IsPrinting, Members
<1> QED
  BY <1>4, <1>5

\* The members behind all but the last j blocks print.
PrintLast(h, g, text, m, members, j) ==
  \A x \in 1 .. m : m - x <= j => Prints(h, g, text, members, x)

\* The whole text is printed: with every member that may be printed behind it,
\* one more item prints as it stands.
LEMMA SettledPrints ==
  ASSUME NEW h, NEW m, Forest(h, m, {1}), NEW g, NEW Tokens, NEW text \in Seq(Tokens),
         Settled(h, g, text)
  PROVE  Printed(h, 1) = SubSeq(text, 1, g[1].end) /\ g[1].end \in 0 .. Len(text)
<1>1. m \in Nat /\ DOMAIN h.blocks = 1 .. m /\ NULL \notin DOMAIN h.blocks
      /\ ItemsIn(h) \subseteq 1 .. m /\ 1 \in ItemsIn(h)
  BY DEF Forest, Dense, ItemsIn, NULL
<1>2. Cardinality(DOMAIN h.blocks) = m
  BY <1>1, FS_Interval
<1>3. PICK members : IsPrinting(h, m, members)
                     /\ Printed(h, 1) = PrintValue(h, h.blocks[1], members[m])
  BY <1>1, <1>2, PrintingSteps
<1>4. \A j \in 0 .. m : members[j] = Members(h, j, members[j - 1])
  BY <1>3 DEF IsPrinting
<1>5. ASSUME NEW j \in 0 .. m, NEW list \in Lists PROVE members[j][list][NULL] = <<>>
  <2>1. members[j] = Members(h, j, members[j - 1])
    BY <1>4
  <2> QED
    BY <2>1, MembersAre
<1>6. ASSUME NEW j \in 1 .. m, NEW x \in ItemsIn(h), NEW list \in Lists
      PROVE  members[j][list][x] = PrintMembers(h, h.blocks[x], list, members[j - 1])
  <2>1. j \in 0 .. m /\ j # 0 /\ x # NULL /\ x \in DOMAIN h.blocks
    BY <1>1
  <2>2. members[j] = Members(h, j, members[j - 1])
    BY <1>4, <2>1
  <2> QED
    BY <2>1, <2>2, MembersAre
<1> DEFINE Q == {j \in Nat : j <= m => PrintLast(h, g, text, m, members[j], j)}
<1>7. 0 \in Q
  <2> SUFFICES ASSUME NEW x \in 1 .. m, m - x <= 0 PROVE Prints(h, g, text, members[0], x)
    BY DEF PrintLast
  <2>1. \A y \in ItemsIn(h) : ~(y > x)
    BY <1>1
  <2>2. 0 \in 0 .. m
    BY <1>1
  <2> QED
    BY <1>5, <2>1, <2>2 DEF Prints
<1>8. ASSUME NEW j \in Nat, j \in Q PROVE j + 1 \in Q
  <2> SUFFICES ASSUME j + 1 <= m, NEW x \in 1 .. m, m - x <= j + 1
               PROVE  Prints(h, g, text, members[j + 1], x)
    BY <1>8 DEF PrintLast
  <2>1. j + 1 \in 1 .. m /\ j + 1 \in 0 .. m /\ (j + 1) - 1 = j /\ j <= m
    BY <1>1
  <2>2. ASSUME NEW y \in ItemsIn(h) \ {1}, y > x
        PROVE  Span(text, g[y].start, g[g[y].up].end - 1, members[j + 1][g[y].list][y])
    <3>1. y \in 1 .. m /\ m - y <= j
      BY <1>1, <2>2
    <3>2. Prints(h, g, text, members[j], y)
      BY <1>8, <2>1, <3>1 DEF PrintLast
    <3>3. Span(text, g[y].start, g[g[y].up].end - 1,
               PrintMembers(h, h.blocks[y], g[y].list, members[j]))
      BY <3>2, MemberPrints
    <3>4. g[y].list \in Lists
      BY DEF Settled, Places, IsPlace
    <3>5. members[j + 1][g[y].list][y] = PrintMembers(h, h.blocks[y], g[y].list, members[j])
      BY <1>6, <2>1, <3>4
    <3> QED
      BY <3>3, <3>5
  <2> QED
    BY <1>5, <2>1, <2>2 DEF Prints
<1> HIDE DEF Q
<1>9. m \in Q
  BY <1>1, <1>7, <1>8, Inductive
<1>10. Prints(h, g, text, members[m], 1)
  <2>1. 1 \in 1 .. m /\ m - 1 <= m
    BY <1>1
  <2> QED
    BY <1>1, <1>9, <2>1 DEF Q, PrintLast
<1>11. Span(text, g[1].begin, g[1].end, Printed(h, 1))
  BY <1>1, <1>3, <1>10, ValuePrints
<1>12. g[1].begin = 0
  BY DEF Settled, Places
<1>13. Len(text) \in Nat
  BY LenProperties
<1> QED
  BY <1>11, <1>12, <1>13 DEF Span
-----------------------------------------------------------------------------
(* What a step of the parser leaves of the places.                         *)

\* An item that prints the same, but for what is linked behind it.
SameValue(it, new) ==
  /\ new.type = it.type /\ new.child = it.child /\ new.string = it.string
  /\ new.valuestring = it.valuestring /\ new.valuedouble = it.valuedouble

KeepsTexts(h, k) ==
  \A p \in DOMAIN h.blocks \ ItemsIn(h) :
    p \in DOMAIN k.blocks \ ItemsIn(k) /\ k.blocks[p] = h.blocks[p]

\* An item in the same place, but for its end.
SamePlace(r, q) == q.up = r.up /\ q.list = r.list /\ q.start = r.start /\ q.begin = r.begin

Stays(h, g, d) == \A y \in ItemsIn(h) : SamePlace(g[y], d[y])

WithEnd(r, e) == [up |-> r.up, list |-> r.list, start |-> r.start, begin |-> r.begin, end |-> e]

PlaceAt(g, x, r) == [y \in Nat |-> IF y = x THEN r ELSE g[y]]

\* The items are linked to items.
LinksIn(h) ==
  /\ ItemsIn(h) \subseteq Nat \ {NULL}
  /\ \A y \in ItemsIn(h) : /\ h.blocks[y].next # NULL => h.blocks[y].next \in ItemsIn(h)
                           /\ h.blocks[y].child # NULL => h.blocks[y].child \in ItemsIn(h)

\* The links of a forest lead to its items.
LEMMA ForestLinks ==
  ASSUME NEW h, NEW m, NEW roots, Forest(h, m, roots)
  PROVE  LinksIn(h)
<1>1. /\ Typed(h) /\ ItemsIn(h) \subseteq Nat \ {NULL}
  BY DEF Forest, Dense, ItemsIn, NULL
<1>2. ASSUME NEW y \in ItemsIn(h)
      PROVE  /\ h.blocks[y].next # NULL => h.blocks[y].next \in ItemsIn(h)
             /\ h.blocks[y].child # NULL => h.blocks[y].child \in ItemsIn(h)
  <2>1. h.blocks[y].reference = FALSE
    BY <1>1 DEF Typed
  <2>2. To(h, y, "next") = h.blocks[y].next /\ To(h, y, "child") = h.blocks[y].child
    BY <2>1 DEF To, Owned
  <2>3. \A s \in {"next", "child"} : To(h, y, s) # NULL => To(h, y, s) \in ItemsIn(h)
    BY DEF Forest, Forward, Slots
  <2> QED
    BY <2>2, <2>3
<1> QED
  BY <1>1, <1>2 DEF LinksIn

\* One place is written.
LEMMA PlacesAt ==
  ASSUME NEW g, NEW x \in Nat, NEW r
  PROVE  PlaceAt(g, x, r)[x] = r /\ \A y \in Nat : y # x => PlaceAt(g, x, r)[y] = g[y]
  BY DEF PlaceAt

\* A place that is given its end is the same place.
LEMMA EndedPlace ==
  ASSUME NEW r, IsPlace(r), NEW e \in Nat
  PROVE  IsPlace(WithEnd(r, e)) /\ SamePlace(r, WithEnd(r, e)) /\ WithEnd(r, e).end = e
  BY DEF IsPlace, WithEnd, SamePlace

\* What is read stays in its place.
LEMMA SpelledKept ==
  ASSUME NEW h, NEW k, NEW g, NEW d, NEW text, NEW y, Spelled(h, g, y, text),
         SameValue(h.blocks[y], k.blocks[y]), KeepsTexts(h, k), d[y] = g[y],
         h.blocks[y].child # NULL => SamePlace(g[h.blocks[y].child], d[h.blocks[y].child])
  PROVE  Spelled(k, d, y, text)
<1> DEFINE it  == h.blocks[y]
           new == k.blocks[y]
<1>1. CASE LeafSpelled(h, it, g[y], text)
  <2>1. new.type = "String" =>
          /\ new.valuestring \in DOMAIN k.blocks \ ItemsIn(k)
          /\ k.blocks[new.valuestring] = h.blocks[it.valuestring]
    BY <1>1 DEF LeafSpelled, SameValue, KeepsTexts
  <2>2. new.type \in Leaves /\ new.type = it.type
    BY <1>1 DEF LeafSpelled, SameValue
  <2>3. Leaf(k, new) = Leaf(h, it)
    BY <2>1, <2>2 DEF Leaf, SameValue, Leaves
  <2>4. LeafSpelled(k, new, d[y], text)
    BY <1>1, <2>1, <2>2, <2>3 DEF LeafSpelled
  <2> QED
    BY <2>4 DEF Spelled
<1>2. CASE ListSpelled(g, it, y, text)
  <2>1. ListSpelled(d, new, y, text)
    BY <1>2 DEF ListSpelled, SameValue, SamePlace
  <2> QED
    BY <2>1 DEF Spelled
<1> QED
  BY <1>1, <1>2 DEF Spelled

\* So does what is in front of it.
LEMMA TitledKept ==
  ASSUME NEW h, NEW k, NEW g, NEW d, NEW text, NEW y, NEW nameless, NEW bare,
         Titled(h, g, y, text, nameless, bare), k.blocks[y].string = h.blocks[y].string,
         KeepsTexts(h, k), SamePlace(g[y], d[y]), NEW N, NEW B,
         y \notin N => y \notin nameless, y \notin B => y \notin bare
  PROVE  Titled(k, d, y, text, N, B)
<1>1. d[y].list = g[y].list /\ d[y].begin = g[y].begin /\ d[y].start = g[y].start
  BY DEF SamePlace
<1>2. CASE g[y].list = "Object"
  <2>1. ASSUME y \notin N
        PROVE  /\ k.blocks[y].string \in DOMAIN k.blocks \ ItemsIn(k)
               /\ TokenAt(text, d[y].start + 1) = String(k.blocks[k.blocks[y].string].text)
    <3>1. /\ h.blocks[y].string \in DOMAIN h.blocks \ ItemsIn(h)
          /\ TokenAt(text, g[y].start + 1) = String(h.blocks[h.blocks[y].string].text)
      BY <1>2, <2>1 DEF Titled
    <3> QED
      BY <1>1, <3>1 DEF KeepsTexts
  <2>2. y \notin B => TokenAt(text, d[y].start + 2) = Token(":")
    BY <1>1, <1>2 DEF Titled
  <2>3. d[y].begin = d[y].start + 2
    BY <1>1, <1>2 DEF Titled
  <2> QED
    BY <1>1, <1>2, <2>1, <2>2, <2>3 DEF Titled
<1>3. CASE g[y].list # "Object"
  BY <1>1, <1>3 DEF Titled
<1> QED
  BY <1>2, <1>3

\* An open item is read to its end, and its place is known.
Completes(h, k, g, text, open, x, e) ==
  /\ ItemsIn(k) = ItemsIn(h) /\ KeepsTexts(h, k)
  /\ \A y \in ItemsIn(h) : k.blocks[y].next = h.blocks[y].next
  /\ \A y \in ItemsIn(h) \ {x} : SameValue(h.blocks[y], k.blocks[y])
  /\ k.blocks[x].string = h.blocks[x].string
  /\ Spelled(k, PlaceAt(g, x, WithEnd(g[x], e)), x, text)
  /\ x # 1 => g[x].up \in open \ {x}
  /\ \A y \in ItemsIn(h) \ {1} : g[y].up = x /\ h.blocks[y].next = NULL => e = g[y].end + 1

CompletedAt(h, k, g, text, open, x, e) ==
  LET d == PlaceAt(g, x, WithEnd(g[x], e)) IN
  Places(k, d, text, open \ {x}, {}, {}) /\ Stays(h, g, d) /\ d[x].end = e

\* The places of a heap whose names and colons have been read.
OpenPlaces(h, g, text, open) == Places(h, g, text, open, {}, {})

\* When a value has been read, its item is no longer open.
LEMMA Completed ==
  ASSUME NEW h, NEW k, NEW g, NEW text, NEW open, OpenPlaces(h, g, text, open), LinksIn(h),
         NEW x \in open, NEW e \in Nat, Completes(h, k, g, text, open, x, e)
  PROVE  CompletedAt(h, k, g, text, open, x, e)
<1> USE DEF OpenPlaces
<1> DEFINE r == WithEnd(g[x], e)
           d == PlaceAt(g, x, r)
           I == ItemsIn(h)
<1>0. /\ ItemsIn(k) = I /\ KeepsTexts(h, k) /\ I \subseteq Nat
      /\ open \subseteq I /\ x \in I
  BY DEF Completes, LinksIn, Places
<1>1. IsPlace(r) /\ SamePlace(g[x], r) /\ r.end = e
  <2>1. IsPlace(g[x])
    BY DEF Places
  <2> QED
    BY <2>1, EndedPlace
<1> HIDE DEF r
<1>2. d[x] = r /\ \A y \in I : y # x => d[y] = g[y]
  BY <1>0, PlacesAt
<1> HIDE DEF d
<1>3. \A y \in I : IsPlace(d[y]) /\ SamePlace(g[y], d[y])
  <2> SUFFICES ASSUME NEW y \in I PROVE IsPlace(d[y]) /\ SamePlace(g[y], d[y])
    OBVIOUS
  <2>1. IsPlace(g[y])
    BY DEF Places
  <2>2. CASE y = x
    BY <1>1, <1>2, <2>2
  <2>3. CASE y # x
    BY <1>2, <2>1, <2>3 DEF SamePlace
  <2> QED
    BY <2>2, <2>3
<1>4. ASSUME NEW y \in I \ (open \ {x}) PROVE Spelled(k, d, y, text)
  <2>1. CASE y = x
    BY <2>1 DEF Completes, d, r
  <2>2. CASE y # x
    <3>1. Spelled(h, g, y, text)
      BY <2>2 DEF Places
    <3>2. SameValue(h.blocks[y], k.blocks[y]) /\ d[y] = g[y]
      BY <1>2, <2>2 DEF Completes
    <3>3. h.blocks[y].child # NULL => SamePlace(g[h.blocks[y].child], d[h.blocks[y].child])
      BY <1>3 DEF LinksIn
    <3> QED
      BY <1>0, <3>1, <3>2, <3>3, SpelledKept
  <2> QED
    BY <2>1, <2>2
<1>5. ASSUME NEW y \in I, k.blocks[y].next # NULL PROVE Followed(d, y, k.blocks[y].next, text)
  <2>1. h.blocks[y].next = k.blocks[y].next /\ k.blocks[y].next \in I
    BY <1>5 DEF Completes, LinksIn
  <2>2. y # x
    BY <1>5, <2>1 DEF Places
  <2>3. Followed(g, y, k.blocks[y].next, text)
    BY <1>5, <2>1 DEF Places
  <2>4. d[y] = g[y] /\ SamePlace(g[k.blocks[y].next], d[k.blocks[y].next])
    BY <1>2, <1>3, <2>1, <2>2
  <2> QED
    BY <2>3, <2>4 DEF Followed, SamePlace
<1>6. ASSUME NEW y \in I \ {1} PROVE Titled(k, d, y, text, {}, {})
  <2> DEFINE none == {}
  <2>1. Titled(h, g, y, text, none, none)
    BY DEF Places
  <2>2. k.blocks[y].string = h.blocks[y].string
    BY DEF Completes, SameValue
  <2>3. SamePlace(g[y], d[y])
    BY <1>3
  <2> HIDE DEF none
  <2>4. Titled(k, d, y, text, none, none)
    BY <1>0, <2>1, <2>2, <2>3, TitledKept
  <2> QED
    BY <2>4 DEF none
<1>7. ASSUME NEW y \in I \ {1} PROVE Enclosed(k, d, y, open \ {x})
  <2>1. Enclosed(h, g, y, open) /\ d[y].up = g[y].up /\ k.blocks[y].next = h.blocks[y].next
    BY <1>3 DEF Places, Completes, SamePlace
  <2>2. d[y].up \in I /\ d[y].up < y
    BY <2>1 DEF Enclosed
  <2>3. ASSUME k.blocks[y].next = NULL, g[y].up \notin open \ {x}
        PROVE  d[g[y].up].end = d[y].end + 1
    <3>1. y # x
      BY <2>3 DEF Completes
    <3>2. d[y].end = g[y].end
      BY <1>2, <3>1
    <3>3. CASE g[y].up = x
      <4>1. e = g[y].end + 1
        BY <2>1, <2>3, <3>3 DEF Completes
      <4> QED
        BY <1>1, <1>2, <3>2, <3>3, <4>1
    <3>4. CASE g[y].up # x
      <4>1. d[g[y].up] = g[g[y].up]
        BY <1>2, <2>1, <2>2, <3>4
      <4>2. g[g[y].up].end = g[y].end + 1
        BY <2>1, <2>3, <3>4 DEF Enclosed
      <4> QED
        BY <3>2, <4>1, <4>2
    <3> QED
      BY <3>3, <3>4
  <2> QED
    BY <1>0, <2>1, <2>2, <2>3 DEF Enclosed
<1>8. d[1].begin = 0
  <2>1. g[1].begin = 0
    BY DEF Places
  <2>2. 1 = x \/ d[1] = g[1]
    BY DEF d, PlaceAt
  <2>3. 1 = x => d[1].begin = g[1].begin
    BY <1>1, <1>2 DEF SamePlace
  <2> QED
    BY <2>1, <2>2, <2>3
<1>9. \A y \in open \ {x} : k.blocks[y].next = NULL
  <2>1. \A y \in open : h.blocks[y].next = NULL
    BY DEF Places
  <2> QED
    BY <1>0, <2>1 DEF Completes
<1>10. Places(k, d, text, open \ {x}, {}, {})
  BY <1>0, <1>3, <1>4, <1>5, <1>6, <1>7, <1>8, <1>9 DEF Places
<1> QED
  BY <1>1, <1>2, <1>3, <1>10 DEF d, r, Stays, CompletedAt

\* A name is read: its item is the only one that is written.
Names(h, k, x) ==
  /\ ItemsIn(k) = ItemsIn(h) /\ KeepsTexts(h, k)
  /\ \A y \in ItemsIn(h) : k.blocks[y].next = h.blocks[y].next
  /\ \A y \in ItemsIn(h) \ {x} : SameValue(h.blocks[y], k.blocks[y])

\* The places while the name of x is read, and while its colon is.
NamelessPlaces(h, g, text, open, x)  == Places(h, g, text, open, {x}, {x})
ColonlessPlaces(h, g, text, open, x) == Places(h, g, text, open, {}, {x})

NameRead(k, g, x, text) == Titled(k, g, x, text, {}, {x})

\* When a name has been read, its item awaits the colon.
LEMMA NamePlaces ==
  ASSUME NEW h, NEW k, NEW g, NEW text, NEW open, NEW x \in open,
         NamelessPlaces(h, g, text, open, x), LinksIn(h), Names(h, k, x), NameRead(k, g, x, text)
  PROVE  ColonlessPlaces(k, g, text, open, x)
<1> USE DEF NamelessPlaces, ColonlessPlaces, NameRead
<1> DEFINE I == ItemsIn(h)
           none == {}
<1>1. ItemsIn(k) = I /\ KeepsTexts(h, k) /\ open \subseteq I
  BY DEF Names, Places
<1>2. ASSUME NEW y \in I \ open PROVE Spelled(k, g, y, text)
  <2>1. Spelled(h, g, y, text) /\ SameValue(h.blocks[y], k.blocks[y])
    BY DEF Places, Names
  <2>2. h.blocks[y].child # NULL => SamePlace(g[h.blocks[y].child], g[h.blocks[y].child])
    BY DEF SamePlace
  <2>3. g[y] = g[y]
    OBVIOUS
  <2> QED
    BY <1>1, <2>1, <2>2, <2>3, SpelledKept
<1>3. ASSUME NEW y \in I \ {1} PROVE Titled(k, g, y, text, none, {x})
  <2>1. CASE y = x
    BY <2>1
  <2>2. CASE y # x
    <3>1. Titled(h, g, y, text, {x}, {x})
      BY DEF Places
    <3>2. k.blocks[y].string = h.blocks[y].string
      BY <2>2 DEF Names, SameValue
    <3>3. SamePlace(g[y], g[y])
      BY DEF SamePlace
    <3>4. (y \notin none => y \notin {x}) /\ (y \notin {x} => y \notin {x})
      BY <2>2
    <3> HIDE DEF none
    <3> QED
      BY <1>1, <3>1, <3>2, <3>3, <3>4, TitledKept
  <2> QED
    BY <2>1, <2>2
<1>4. ASSUME NEW y \in I \ {1} PROVE Enclosed(k, g, y, open)
  <2>1. Enclosed(h, g, y, open) /\ k.blocks[y].next = h.blocks[y].next
    BY DEF Places, Names
  <2> QED
    BY <1>1, <2>1 DEF Enclosed
<1>5. ASSUME NEW y \in I, k.blocks[y].next # NULL PROVE Followed(g, y, k.blocks[y].next, text)
  <2>1. h.blocks[y].next = k.blocks[y].next
    BY DEF Names
  <2> QED
    BY <1>5, <2>1 DEF Places
<1>6. \A y \in open : k.blocks[y].next = NULL
  <2>1. \A y \in open : h.blocks[y].next = NULL
    BY DEF Places
  <2> QED
    BY <1>1, <2>1 DEF Names
<1>7. g[1].begin = 0 /\ \A y \in I : IsPlace(g[y])
  BY DEF Places
<1> QED
  BY <1>1, <1>2, <1>3, <1>4, <1>5, <1>6, <1>7 DEF Places

\* Its colon is.
LEMMA ColonPlaces ==
  ASSUME NEW h, NEW g, NEW text, NEW open, NEW x, ColonlessPlaces(h, g, text, open, x),
         TokenAt(text, g[x].start + 2) = Token(":")
  PROVE  OpenPlaces(h, g, text, open)
<1> USE DEF ColonlessPlaces, OpenPlaces
<1> DEFINE none == {}
<1>1. ASSUME NEW y \in ItemsIn(h) \ {1} PROVE Titled(h, g, y, text, none, none)
  <2>1. Titled(h, g, y, text, none, {x})
    BY DEF Places
  <2>2. y \notin {x} \/ y = x
    OBVIOUS
  <2> HIDE DEF none
  <2> QED
    BY <2>1, <2>2 DEF Titled
<1> QED
  BY <1>1 DEF Places

\* A member begins behind x, the last one, or is the first one.
Begins(h, k, g, text, open, x, n, r) ==
  /\ ItemsIn(k) = ItemsIn(h) \cup {n} /\ n \in Nat /\ n \notin ItemsIn(h) /\ KeepsTexts(h, k)
  /\ \A y \in ItemsIn(h) : SameValue(h.blocks[y], k.blocks[y])
  /\ \A y \in ItemsIn(h) \ {x} : k.blocks[y].next = h.blocks[y].next
  /\ k.blocks[n].next = NULL
  /\ IsPlace(r) /\ r.up \in open /\ r.up < n
  /\ r.begin = IF r.list = "Object" THEN r.start + 2 ELSE r.start
  /\ x # NULL => /\ x \in ItemsIn(h) /\ x \notin open /\ k.blocks[x].next = n
                 /\ TokenAt(text, g[x].end + 1) = Token(",") /\ r.start = g[x].end + 1
                 /\ r.up = g[x].up /\ r.list = g[x].list

MemberAt(h, k, g, text, open, n, r, N, B) ==
  LET d == PlaceAt(g, n, r) IN
  /\ Places(k, d, text, open \cup {n}, N, B) /\ d[n] = r
  /\ \A y \in ItemsIn(h) : d[y] = g[y]

\* A member that is begun gets a place; all others keep theirs.
LEMMA MemberPlaces ==
  ASSUME NEW h, NEW k, NEW g, NEW text, NEW open, OpenPlaces(h, g, text, open), LinksIn(h),
         NEW x, NEW n, NEW r, Begins(h, k, g, text, open, x, n, r), 1 \in ItemsIn(h),
         NEW N, NEW B, r.list = "Object" => n \in N /\ n \in B
  PROVE  MemberAt(h, k, g, text, open, n, r, N, B)
<1> USE DEF OpenPlaces
<1> DEFINE I == ItemsIn(h)
           d == PlaceAt(g, n, r)
<1>1. /\ ItemsIn(k) = I \cup {n} /\ n \in Nat /\ n \notin I /\ KeepsTexts(h, k)
      /\ I \subseteq Nat \ {NULL} /\ open \subseteq I /\ 1 # n
  BY DEF Begins, LinksIn, Places
<1>2. d[n] = r /\ \A y \in I : d[y] = g[y]
  BY <1>1, PlacesAt
<1> HIDE DEF d
<1>3. IsPlace(r) /\ \A y \in I : IsPlace(d[y])
  <2>1. \A y \in I : IsPlace(g[y])
    BY DEF Places
  <2> QED
    BY <1>2, <2>1 DEF Begins
<1>4. d[1].begin = 0
  <2>1. g[1].begin = 0
    BY DEF Places
  <2> QED
    BY <1>2, <2>1
<1>5. ASSUME NEW y \in I \ open PROVE Spelled(k, d, y, text)
  <2>1. Spelled(h, g, y, text) /\ SameValue(h.blocks[y], k.blocks[y]) /\ d[y] = g[y]
    BY <1>2 DEF Places, Begins
  <2>2. h.blocks[y].child # NULL => SamePlace(g[h.blocks[y].child], d[h.blocks[y].child])
    <3>1. h.blocks[y].child # NULL => h.blocks[y].child \in I
      BY DEF LinksIn
    <3> QED
      BY <1>2, <3>1 DEF SamePlace
  <2> QED
    BY <1>1, <2>1, <2>2, SpelledKept
<1>6. ASSUME NEW y \in I, k.blocks[y].next # NULL PROVE Followed(d, y, k.blocks[y].next, text)
  <2>1. CASE y = x
    <3>1. /\ k.blocks[y].next = n /\ TokenAt(text, g[y].end + 1) = Token(",")
          /\ r.start = g[y].end + 1 /\ r.up = g[y].up /\ r.list = g[y].list
      BY <1>1, <2>1 DEF Begins
    <3> QED
      BY <1>2, <3>1 DEF Followed
  <2>2. CASE y # x
    <3>1. h.blocks[y].next = k.blocks[y].next
      BY <2>2 DEF Begins
    <3>2. Followed(g, y, k.blocks[y].next, text) /\ k.blocks[y].next \in I
      BY <1>6, <3>1 DEF Places, LinksIn
    <3> QED
      BY <1>2, <3>2 DEF Followed
  <2> QED
    BY <2>1, <2>2
<1>7. ASSUME NEW y \in I \ {1} PROVE Titled(k, d, y, text, N, B)
  <2> DEFINE none == {}
  <2>1. Titled(h, g, y, text, none, none) /\ k.blocks[y].string = h.blocks[y].string
    BY DEF Places, Begins, SameValue
  <2>2. SamePlace(g[y], d[y]) /\ (y \notin N => y \notin none) /\ (y \notin B => y \notin none)
    BY <1>2 DEF SamePlace
  <2> HIDE DEF none
  <2> QED
    BY <1>1, <2>1, <2>2, TitledKept
<1>8. Titled(k, d, n, text, N, B)
  <2>1. r.begin = IF r.list = "Object" THEN r.start + 2 ELSE r.start
    BY DEF Begins
  <2> QED
    BY <1>2, <2>1 DEF Titled
<1>9. ASSUME NEW y \in I \ {1} PROVE Enclosed(k, d, y, open \cup {n})
  <2>1. Enclosed(h, g, y, open) /\ d[y] = g[y]
    BY <1>2 DEF Places
  <2>2. d[y].up \in I /\ d[y].up < y /\ d[d[y].up] = g[g[y].up]
    BY <1>2, <2>1 DEF Enclosed
  <2>3. ASSUME k.blocks[y].next = NULL, g[y].up \notin open \cup {n}
        PROVE  g[g[y].up].end = g[y].end + 1
    <3>1. y # x
      BY <1>1, <2>3 DEF Begins
    <3>2. h.blocks[y].next = NULL
      BY <2>3, <3>1 DEF Begins
    <3> QED
      BY <2>1, <2>3, <3>2 DEF Enclosed
  <2> QED
    BY <1>1, <2>1, <2>2, <2>3 DEF Enclosed
<1>10. Enclosed(k, d, n, open \cup {n})
  <2>1. r.up \in open /\ r.up < n
    BY DEF Begins
  <2> QED
    BY <1>1, <1>2, <2>1 DEF Enclosed
<1>11. \A y \in open \cup {n} : k.blocks[y].next = NULL
  <2>1. \A y \in open : h.blocks[y].next = NULL /\ y # x
    BY <1>1 DEF Places, Begins
  <2> QED
    BY <1>1, <2>1 DEF Begins
<1>12. k.blocks[n].next = NULL
  BY DEF Begins
<1>13. Places(k, d, text, open \cup {n}, N, B)
  <2>1. \A y \in ItemsIn(k) : IsPlace(d[y])
    BY <1>1, <1>2, <1>3
  <2>2. \A y \in ItemsIn(k) \ (open \cup {n}) : Spelled(k, d, y, text)
    BY <1>1, <1>5
  <2>3. \A y \in ItemsIn(k) : k.blocks[y].next # NULL => Followed(d, y, k.blocks[y].next, text)
    BY <1>1, <1>6, <1>12
  <2>4. \A y \in ItemsIn(k) \ {1} : Titled(k, d, y, text, N, B)
    BY <1>1, <1>7, <1>8
  <2>5. \A y \in ItemsIn(k) \ {1} : Enclosed(k, d, y, open \cup {n})
    BY <1>1, <1>9, <1>10
  <2>6. open \cup {n} \subseteq ItemsIn(k)
    BY <1>1
  <2> QED
    BY <1>4, <1>11, <2>1, <2>2, <2>3, <2>4, <2>5, <2>6 DEF Places
<1> QED
  BY <1>2, <1>13 DEF d, MemberAt

\* The items of a frame are items of the heap.
FrameIn(h, f) ==
  f.item \in ItemsIn(h) /\ (f.head # NULL => f.head \in ItemsIn(h) /\ f.last \in ItemsIn(h))

\* The items that frames keep are in the heap.
LEMMA FramesIn ==
  ASSUME NEW h, NEW item, NEW F, NEW expects, Frames(h, item, F, expects)
  PROVE  F \in Seq(FrameSet) /\ Len(F) \in Nat /\ \A i \in 1 .. Len(F) : FrameIn(h, F[i])
<1>1. F \in Seq(FrameSet) /\ Len(F) \in Nat
  BY LenProperties DEF Frames
<1>2. ASSUME NEW i \in 1 .. Len(F) PROVE FrameIn(h, F[i])
  <2>1. Open(h, item, F[i].item) /\ (Bare(F[i]) \/ Begun(h, F[i]))
    BY DEF Frames
  <2> QED
    BY <2>1 DEF FrameIn, Open, Bare, Begun
<1> QED
  BY <1>1, <1>2

\* A frame stays in its place with its items.
LEMMA FrameKept ==
  ASSUME NEW h, NEW k, NEW g, NEW d, NEW text, NEW f, FramePlaced(h, g, text, f), FrameIn(h, f),
         Stays(h, g, d),
         \A y \in ItemsIn(k) \ {1} : d[y].up = f.item /\ k.blocks[y].next = NULL =>
            y \in ItemsIn(h) /\ h.blocks[y].next = NULL
  PROVE  FramePlaced(k, d, text, f)
<1>1. SamePlace(g[f.item], d[f.item])
  BY DEF FrameIn, Stays
<1>2. TokenAt(text, d[f.item].begin + 1) = Opening(ListOf(f.named))
  BY <1>1 DEF FramePlaced, SamePlace
<1>3. ASSUME f.head # NULL
      PROVE  /\ d[f.head].start = d[f.item].begin + 1
             /\ Member(d, f.head, f) /\ Member(d, f.last, f)
  <2>1. SamePlace(g[f.head], d[f.head]) /\ SamePlace(g[f.last], d[f.last])
    BY <1>3 DEF FrameIn, Stays
  <2>2. /\ g[f.head].start = g[f.item].begin + 1
        /\ Member(g, f.head, f) /\ Member(g, f.last, f)
    BY <1>3 DEF FramePlaced
  <2> QED
    BY <1>1, <2>1, <2>2 DEF Member, SamePlace
<1>4. ASSUME NEW y \in ItemsIn(k) \ {1}, d[y].up = f.item, k.blocks[y].next = NULL
      PROVE  y = f.last
  <2>1. y \in ItemsIn(h) /\ h.blocks[y].next = NULL
    BY <1>4
  <2>2. g[y].up = f.item
    BY <1>4, <2>1 DEF SamePlace, Stays
  <2> QED
    BY <2>1, <2>2 DEF FramePlaced
<1> QED
  BY <1>2, <1>3, <1>4 DEF FramePlaced

\* So do all the frames, when nothing is linked.
LEMMA FramesPlacedKept ==
  ASSUME NEW h, NEW k, NEW g, NEW d, NEW text, NEW item, NEW F, NEW expects,
         Frames(h, item, F, expects), FramesPlaced(h, g, text, F), ItemsIn(k) = ItemsIn(h),
         \A y \in ItemsIn(h) : k.blocks[y].next = h.blocks[y].next,
         Stays(h, g, d)
  PROVE  FramesPlaced(k, d, text, F)
<1> SUFFICES ASSUME NEW i \in 1 .. Len(F) PROVE FramePlaced(k, d, text, F[i])
  BY DEF FramesPlaced
<1>1. FrameIn(h, F[i]) /\ FramePlaced(h, g, text, F[i])
  BY FramesIn DEF FramesPlaced
<1>2. \A y \in ItemsIn(k) \ {1} : d[y].up = F[i].item /\ k.blocks[y].next = NULL =>
        y \in ItemsIn(h) /\ h.blocks[y].next = NULL
  OBVIOUS
<1> QED
  BY <1>1, <1>2, FrameKept

\* A list that is opened has no member yet.
LEMMA FramePlacedPushed ==
  ASSUME NEW h, NEW g, NEW text, NEW F \in Seq(FrameSet), FramesPlaced(h, g, text, F),
         NEW f \in FrameSet, FramePlaced(h, g, text, f)
  PROVE  FramesPlaced(h, g, text, Append(F, f)) /\ FrameItems(Append(F, f)) = FrameItems(F) \cup {f.item}
<1> DEFINE G == Append(F, f)
           n == Len(F)
<1>1. n \in Nat /\ Len(G) = n + 1 /\ G[n + 1] = f /\ \A i \in 1 .. n : G[i] = F[i]
  BY LenProperties, AppendProperties
<1> HIDE DEF G
<1>2. 1 .. (n + 1) = (1 .. n) \cup {n + 1}
  BY <1>1
<1>3. FramesPlaced(h, g, text, G)
  BY <1>1, <1>2 DEF FramesPlaced
<1>4. FrameItems(G) = FrameItems(F) \cup {f.item}
  BY <1>1, <1>2 DEF FrameItems
<1> QED
  BY <1>3, <1>4 DEF G

\* A member that begins is the last one of the top list, and of no other.
JoinsFrames(h, k, g, d, text, F, n, new, f) ==
  /\ FramesPlaced(h, g, text, F) /\ n = Len(F) /\ n > 0
  /\ ItemsIn(k) = ItemsIn(h) \cup {new} /\ d[new].up = F[n].item
  /\ \A y \in ItemsIn(h) \ {F[n].last} : k.blocks[y].next = h.blocks[y].next
  /\ F[n].last \in ItemsIn(h) => k.blocks[F[n].last].next # NULL
  /\ Stays(h, g, d) /\ f.item = F[n].item /\ FramePlaced(k, d, text, f)

\* The frame of the innermost list is told of its new member.
LEMMA FramePlacedReplaced ==
  ASSUME NEW h, NEW k, NEW g, NEW d, NEW text, NEW item, NEW F, NEW expects,
         Frames(h, item, F, expects), NEW n, NEW new, NEW f, JoinsFrames(h, k, g, d, text, F, n, new, f)
  PROVE  /\ FramesPlaced(k, d, text, [F EXCEPT ![n] = f])
         /\ FrameItems([F EXCEPT ![n] = f]) = FrameItems(F)
<1> USE DEF JoinsFrames
<1> DEFINE G == [F EXCEPT ![n] = f]
<1>1. F \in Seq(FrameSet) /\ n \in Nat /\ n \in 1 .. n /\ \A i \in 1 .. n : FrameIn(h, F[i])
  BY FramesIn
<1>2. DOMAIN F = 1 .. n /\ F = [i \in 1 .. n |-> F[i]]
  BY <1>1, LenProperties
<1>3. DOMAIN G = 1 .. n /\ G[n] = f /\ \A i \in 1 .. n : i # n => G[i] = F[i]
  BY <1>1, <1>2
<1>4. Len(G) = n
  <2>1. G = [i \in 1 .. n |-> IF i = n THEN f ELSE F[i]]
    BY <1>2
  <2> QED
    BY <1>1, <2>1
<1> HIDE DEF G
<1>5. ASSUME NEW i \in 1 .. n, i # n PROVE FramePlaced(k, d, text, F[i])
  <2>1. FramePlaced(h, g, text, F[i]) /\ FrameIn(h, F[i])
    BY <1>1 DEF FramesPlaced
  <2>2. F[i].item # F[n].item
    <3>1. i \in 1 .. (n - 1)
      BY <1>1, <1>5
    <3> QED
      BY <3>1, BelowTop
  <2>3. \A y \in ItemsIn(k) \ {1} : d[y].up = F[i].item /\ k.blocks[y].next = NULL =>
          y \in ItemsIn(h) /\ h.blocks[y].next = NULL
    BY <2>2
  <2> QED
    BY <2>1, <2>3, FrameKept
<1>6. FramesPlaced(k, d, text, G)
  BY <1>3, <1>4, <1>5 DEF FramesPlaced
<1>7. \A i \in 1 .. n : G[i].item = F[i].item
  BY <1>3
<1>8. FrameItems(G) = FrameItems(F)
  BY <1>4, <1>7 DEF FrameItems
<1> QED
  BY <1>6, <1>8 DEF G

\* A list that ends leaves the frames below its own.
LEMMA FramePlacedPopped ==
  ASSUME NEW h, NEW item, NEW F, NEW expects, Frames(h, item, F, expects), NEW k, NEW g, NEW text,
         FramesPlaced(k, g, text, F), NEW n, n = Len(F), n > 0
  PROVE  /\ FramesPlaced(k, g, text, Front(F)) /\ FrameItems(Front(F)) = FrameItems(F) \ {F[n].item}
         /\ Len(Front(F)) = n - 1 /\ \A i \in 1 .. (n - 1) : Front(F)[i] = F[i]
<1> DEFINE G == Front(F)
<1>1. F \in Seq(FrameSet) /\ n \in Nat
  BY FramesIn
<1>2. Len(G) = n - 1 /\ \A i \in 1 .. (n - 1) : G[i] = F[i]
  BY <1>1 DEF Front
<1> HIDE DEF G
<1>3. 1 .. n = (1 .. (n - 1)) \cup {n}
  BY <1>1
<1>4. FramesPlaced(k, g, text, G)
  BY <1>2, <1>3 DEF FramesPlaced
<1>5. \A i \in 1 .. (n - 1) : F[i].item # F[n].item
  BY BelowTop
<1>6. FrameItems(G) = {F[i].item : i \in 1 .. (n - 1)}
  BY <1>2 DEF FrameItems
<1>7. FrameItems(F) = {F[i].item : i \in 1 .. (n - 1)} \cup {F[n].item}
  BY <1>3 DEF FrameItems
<1>8. F[n].item \notin {F[i].item : i \in 1 .. (n - 1)}
  BY <1>5
<1>9. FrameItems(G) = FrameItems(F) \ {F[n].item}
  BY <1>6, <1>7, <1>8
<1> QED
  BY <1>2, <1>4, <1>9 DEF G

\* The fields that the writes of the parser leave, and those they make.
LEMMA FieldsMade ==
  ASSUME NEW it, IsItem(it), NEW token, NEW p, NEW named
  PROVE  /\ LiteralItem(it, token).next = it.next /\ LiteralItem(it, token).string = it.string
         /\ LiteralItem(it, token).type = CASE token.kind = "null"  -> "NULL"
                                            [] token.kind = "false" -> "False"
                                            [] OTHER                -> "True"
         /\ NumberItem(it, token).next = it.next /\ NumberItem(it, token).string = it.string
         /\ NumberItem(it, token).type = "Number"
         /\ NumberItem(it, token).valuedouble = token.number
         /\ StringItem(it, p).next = it.next /\ StringItem(it, p).string = it.string
         /\ StringItem(it, p).type = "String" /\ StringItem(it, p).valuestring = p
         /\ NamedItem(it, p).next = it.next /\ NamedItem(it, p).string = p
         /\ ListItem(it, named, p).next = it.next /\ ListItem(it, named, p).string = it.string
         /\ ListItem(it, named, p).type = IF named THEN "Object" ELSE "Array"
         /\ ListItem(it, named, p).child = p
         /\ SameValue(it, WithNext(it, p)) /\ WithNext(it, p).next = p
         /\ SameValue(it, WithPrev(it, p)) /\ WithPrev(it, p).next = it.next
<1>1. /\ LiteralItem(it, token).next = it.next /\ LiteralItem(it, token).string = it.string
      /\ LiteralItem(it, token).type = CASE token.kind = "null"  -> "NULL"
                                         [] token.kind = "false" -> "False"
                                         [] OTHER                -> "True"
  BY DEF IsItem, LiteralItem
<1>2. /\ NumberItem(it, token).next = it.next /\ NumberItem(it, token).string = it.string
      /\ NumberItem(it, token).type = "Number"
      /\ NumberItem(it, token).valuedouble = token.number
  BY DEF IsItem, NumberItem
<1>3. /\ StringItem(it, p).next = it.next /\ StringItem(it, p).string = it.string
      /\ StringItem(it, p).type = "String" /\ StringItem(it, p).valuestring = p
  BY DEF IsItem, StringItem
<1>4. NamedItem(it, p).next = it.next /\ NamedItem(it, p).string = p
  BY DEF IsItem, NamedItem
<1>5. /\ ListItem(it, named, p).next = it.next /\ ListItem(it, named, p).string = it.string
      /\ ListItem(it, named, p).type = IF named THEN "Object" ELSE "Array"
      /\ ListItem(it, named, p).child = p
  BY DEF IsItem, ListItem
<1>6. SameValue(it, WithNext(it, p)) /\ WithNext(it, p).next = p
  BY DEF IsItem, WithNext, SameValue
<1>7. SameValue(it, WithPrev(it, p)) /\ WithPrev(it, p).next = it.next
  BY DEF IsItem, WithPrev, SameValue
<1> QED
  BY <1>1, <1>2, <1>3, <1>4, <1>5, <1>6, <1>7

\* Where a block is written, and one is allocated.
IsOne(block) == DOMAIN block # {"text"}

\* The items of a heap are the blocks that are no text.
LEMMA ItemsAre ==
  ASSUME NEW h
  PROVE  ItemsIn(h) = {p \in DOMAIN h.blocks : IsOne(h.blocks[p])}
  BY DEF ItemsIn, IsOne

\* An item that is rewritten leaves all other items and texts as they were.
LEMMA ItemsChanged ==
  ASSUME NEW h, NEW m, Dense(h, m), NEW x \in ItemsIn(h), NEW k, NEW block,
         Changed(h, k, m, x, block), IsItem(block)
  PROVE  /\ DOMAIN k.blocks = 1 .. m /\ ItemsIn(k) = ItemsIn(h) /\ KeepsTexts(h, k)
         /\ k.blocks[x] = block /\ \A y \in ItemsIn(h) \ {x} : k.blocks[y] = h.blocks[y]
<1>1. /\ DOMAIN h.blocks = 1 .. m /\ DOMAIN k.blocks = 1 .. m /\ k.blocks[x] = block
      /\ \A p \in (1 .. m) \ {x} : k.blocks[p] = h.blocks[p]
  BY DEF Dense, Changed
<1>2. IsOne(block)
  BY NoString DEF IsOne
<1>3. ItemsIn(k) = ItemsIn(h)
  <2>1. IsOne(h.blocks[x]) /\ x \in 1 .. m
    BY <1>1, ItemsAre
  <2>2. \A p \in 1 .. m : IsOne(k.blocks[p]) <=> IsOne(h.blocks[p])
    BY <1>1, <1>2, <2>1
  <2>3. /\ ItemsIn(h) = {p \in 1 .. m : IsOne(h.blocks[p])}
        /\ ItemsIn(k) = {p \in 1 .. m : IsOne(k.blocks[p])}
    BY <1>1, ItemsAre
  <2> QED
    BY <2>2, <2>3
<1>4. KeepsTexts(h, k)
  BY <1>1, <1>3 DEF KeepsTexts
<1>5. \A y \in ItemsIn(h) \ {x} : k.blocks[y] = h.blocks[y]
  BY <1>1, ItemsAre
<1> QED
  BY <1>1, <1>3, <1>4, <1>5

\* A text that is allocated leaves all other items and the texts as they were.
LEMMA TextGrew ==
  ASSUME NEW h, NEW m, Dense(h, m), NEW x \in ItemsIn(h), NEW k, NEW block, NEW new,
         Grew(h, k, m, x, block, new), IsItem(block), IsText(new)
  PROVE  /\ ItemsIn(k) = ItemsIn(h) /\ KeepsTexts(h, k)
         /\ k.blocks[x] = block /\ \A y \in ItemsIn(h) \ {x} : k.blocks[y] = h.blocks[y]
         /\ m + 1 \in DOMAIN k.blocks \ ItemsIn(k) /\ k.blocks[m + 1] = new
<1>1. /\ m \in Nat /\ DOMAIN h.blocks = 1 .. m /\ DOMAIN k.blocks = 1 .. (m + 1)
      /\ k.blocks[x] = block /\ k.blocks[m + 1] = new
      /\ \A p \in (1 .. m) \ {x} : k.blocks[p] = h.blocks[p]
  BY DEF Dense, Grew
<1>2. IsOne(block) /\ ~IsOne(new)
  BY NoString DEF IsText, IsOne
<1>3. 1 .. (m + 1) = (1 .. m) \cup {m + 1} /\ m + 1 \notin 1 .. m
  BY <1>1
<1>4. ItemsIn(k) = ItemsIn(h)
  BY <1>1, <1>2, <1>3, ItemsAre
<1>5. KeepsTexts(h, k)
  BY <1>1, <1>3, <1>4 DEF KeepsTexts
<1>6. \A y \in ItemsIn(h) \ {x} : k.blocks[y] = h.blocks[y]
  BY <1>1, ItemsAre
<1>7. m + 1 \in DOMAIN k.blocks \ ItemsIn(k)
  BY <1>1, <1>2, <1>3, ItemsAre
<1> QED
  BY <1>1, <1>4, <1>5, <1>6, <1>7

\* So does an item that is allocated.
LEMMA ItemGrew ==
  ASSUME NEW h, NEW m, Dense(h, m), NEW x \in ItemsIn(h), NEW k, NEW block, NEW new,
         Grew(h, k, m, x, block, new), IsItem(block), IsItem(new)
  PROVE  /\ ItemsIn(k) = ItemsIn(h) \cup {m + 1} /\ KeepsTexts(h, k)
         /\ k.blocks[x] = block /\ \A y \in ItemsIn(h) \ {x} : k.blocks[y] = h.blocks[y]
         /\ m + 1 \notin ItemsIn(h) /\ k.blocks[m + 1] = new
<1>1. /\ m \in Nat /\ DOMAIN h.blocks = 1 .. m /\ DOMAIN k.blocks = 1 .. (m + 1)
      /\ k.blocks[x] = block /\ k.blocks[m + 1] = new
      /\ \A p \in (1 .. m) \ {x} : k.blocks[p] = h.blocks[p]
  BY DEF Dense, Grew
<1>2. IsOne(block) /\ IsOne(new)
  BY NoString DEF IsOne
<1>3. 1 .. (m + 1) = (1 .. m) \cup {m + 1} /\ m + 1 \notin 1 .. m
  BY <1>1
<1>4. ItemsIn(k) = ItemsIn(h) \cup {m + 1}
  BY <1>1, <1>2, <1>3, ItemsAre
<1>5. KeepsTexts(h, k)
  BY <1>1, <1>3, <1>4 DEF KeepsTexts
<1>6. m + 1 \notin ItemsIn(h) /\ \A y \in ItemsIn(h) \ {x} : k.blocks[y] = h.blocks[y]
  BY <1>1, <1>3, ItemsAre
<1> QED
  BY <1>1, <1>4, <1>5, <1>6

\* cJSON_New_Item adds one empty item.
LEMMA ItemAllocated ==
  ASSUME NEW h, NEW m, Dense(h, m), NEW new, IsItem(new), NEW k, k = Allocate(h, new)
  PROVE  /\ ItemsIn(k) = ItemsIn(h) \cup {m + 1} /\ KeepsTexts(h, k)
         /\ \A y \in ItemsIn(h) : k.blocks[y] = h.blocks[y]
         /\ m + 1 \notin ItemsIn(h) /\ k.blocks[m + 1] = new
<1>0. m \in Nat /\ DOMAIN h.blocks = 1 .. m
  BY DEF Dense
<1>1. /\ m \in Nat /\ DOMAIN h.blocks = 1 .. m /\ DOMAIN k.blocks = 1 .. (m + 1)
      /\ k.blocks[m + 1] = new /\ \A p \in 1 .. m : k.blocks[p] = h.blocks[p]
  <2>1. /\ Dense(Allocate(h, new), m + 1) /\ Allocate(h, new).blocks[m + 1] = new
        /\ \A p \in 1 .. m : Allocate(h, new).blocks[p] = h.blocks[p]
    BY NextBlock
  <2>2. Dense(k, m + 1) => DOMAIN k.blocks = 1 .. (m + 1)
    BY DEF Dense
  <2> QED
    BY <1>0, <2>1, <2>2
<1>2. IsOne(new)
  BY NoString DEF IsOne
<1>3. 1 .. (m + 1) = (1 .. m) \cup {m + 1} /\ m + 1 \notin 1 .. m
  BY <1>1
<1>4. ItemsIn(k) = ItemsIn(h) \cup {m + 1}
  BY <1>1, <1>2, <1>3, ItemsAre
<1>5. KeepsTexts(h, k)
  BY <1>1, <1>3, <1>4 DEF KeepsTexts
<1>6. m + 1 \notin ItemsIn(h) /\ \A y \in ItemsIn(h) : k.blocks[y] = h.blocks[y]
  BY <1>1, <1>3, ItemsAre
<1> QED
  BY <1>1, <1>4, <1>5, <1>6

\* An item written alone is a name or a value read.
LEMMA WrittenAlone ==
  ASSUME NEW h, NEW k, NEW x \in ItemsIn(h), ItemsIn(k) = ItemsIn(h), KeepsTexts(h, k),
         \A y \in ItemsIn(h) \ {x} : k.blocks[y] = h.blocks[y],
         k.blocks[x].next = h.blocks[x].next
  PROVE  Names(h, k, x)
  BY DEF Names, SameValue

\* The kinds of tokens.
LEMMA TokenIs ==
  ASSUME NEW token, IsToken(token)
  PROVE  /\ token.kind = "string" => token = String(token.text)
         /\ token.kind = "number" => token = Tenths(token.number)
         /\ token.kind \notin {"string", "number"} => token = Token(token.kind)
<1>1. /\ String(token.text).kind = "string" /\ Tenths(token.number).kind = "number"
      /\ Token("string") = String("") /\ Token("number") = Tenths(0)
  BY DEF String, Tenths, Token
<1>2. CASE token = Token(token.kind)
  <2>0. \A kind : Token(kind).text = "" /\ Token(kind).number = 0
    BY DEF Token
  <2>1. token.text = "" /\ token.number = 0
    BY <1>2, <2>0
  <2>2. CASE token.kind = "string"
    <3>1. token = Token("string") /\ token.kind # "number"
      BY <1>2, <2>2
    <3> QED
      BY <1>1, <2>1, <2>2, <3>1
  <2>3. CASE token.kind = "number"
    <3>1. token = Token("number") /\ token.kind # "string"
      BY <1>2, <2>3
    <3> QED
      BY <1>1, <2>1, <2>3, <3>1
  <2>4. CASE token.kind \notin {"string", "number"}
    BY <1>2, <2>4
  <2> QED
    BY <2>2, <2>3, <2>4
<1>3. CASE token = String(token.text)
  BY <1>1, <1>3
<1>4. CASE token = Tenths(token.number)
  BY <1>1, <1>4
<1> QED
  BY <1>2, <1>3, <1>4 DEF IsToken

\* What a value that is no list writes.
Valued(h, k, x, r, text) ==
  /\ Names(h, k, x) /\ k.blocks[x].string = h.blocks[x].string
  /\ LeafSpelled(k, k.blocks[x], r, text)

\* parse_value gives an item the value of a token.
LEMMA LeafValued ==
  ASSUME NEW h, NEW m, Dense(h, m), NEW x \in ItemsIn(h), x \in 1 .. m, IsItem(h.blocks[x]),
         h.blocks[x].reference = FALSE, NEW r, NEW text, NEW token, IsToken(token),
         TokenAt(text, r.end) = token, r.end = r.begin + 1
  PROVE  /\ token.kind \in {"null", "false", "true"} => Valued(h, ParseLiteral(h, token, x), x, r, text)
         /\ token.kind = "number" => Valued(h, ParseNumber(h, token, x), x, r, text)
         /\ token.kind = "string" => Valued(h, ParseString(h, token, x), x, r, text)
<1> DEFINE it == h.blocks[x]
<1>1. m \in Nat /\ m + 1 \in Nat
  BY DEF Dense
<1>2. ASSUME token.kind \in {"null", "false", "true"}
      PROVE  Valued(h, ParseLiteral(h, token, x), x, r, text)
  <2> DEFINE k == ParseLiteral(h, token, x)
             new == LiteralItem(it, token)
  <2>1. Changed(h, k, m, x, new)
    BY LiteralWrites
  <2>2. IsItem(new)
    BY <1>1, PointersMade DEF Alike
  <2>3. /\ new.next = it.next /\ new.string = it.string
        /\ new.type = CASE token.kind = "null" -> "NULL" [] token.kind = "false" -> "False"
                        [] OTHER -> "True"
    BY FieldsMade
  <2>4. token = Token(token.kind)
    BY <1>2, TokenIs
  <2> HIDE DEF k, new
  <2>5. /\ DOMAIN k.blocks = 1 .. m /\ ItemsIn(k) = ItemsIn(h) /\ KeepsTexts(h, k)
        /\ k.blocks[x] = new /\ \A y \in ItemsIn(h) \ {x} : k.blocks[y] = h.blocks[y]
    BY <2>1, <2>2, ItemsChanged
  <2>6. k.blocks[x].next = h.blocks[x].next
    BY <2>3, <2>5
  <2>7. Names(h, k, x)
    BY <2>5, <2>6, WrittenAlone
  <2>8. Leaf(k, new) = token /\ new.type \in Leaves /\ new.type # "String"
    BY <1>2, <2>3, <2>4 DEF Leaf, Leaves
  <2>9. LeafSpelled(k, new, r, text)
    BY <2>8 DEF LeafSpelled
  <2> QED
    BY <2>3, <2>5, <2>7, <2>9 DEF Valued, k
<1>3. ASSUME token.kind = "number"
      PROVE  Valued(h, ParseNumber(h, token, x), x, r, text)
  <2> DEFINE k == ParseNumber(h, token, x)
             new == NumberItem(it, token)
  <2>1. Changed(h, k, m, x, new)
    BY NumberWrites
  <2>2. IsItem(new)
    BY <1>1, PointersMade DEF Alike
  <2>3. /\ new.next = it.next /\ new.string = it.string /\ new.type = "Number"
        /\ new.valuedouble = token.number
    BY FieldsMade
  <2>4. token = Tenths(token.number)
    BY <1>3, TokenIs
  <2> HIDE DEF k, new
  <2>5. /\ DOMAIN k.blocks = 1 .. m /\ ItemsIn(k) = ItemsIn(h) /\ KeepsTexts(h, k)
        /\ k.blocks[x] = new /\ \A y \in ItemsIn(h) \ {x} : k.blocks[y] = h.blocks[y]
    BY <2>1, <2>2, ItemsChanged
  <2>6. k.blocks[x].next = h.blocks[x].next
    BY <2>3, <2>5
  <2>7. Names(h, k, x)
    BY <2>5, <2>6, WrittenAlone
  <2>8. Leaf(k, new) = token /\ new.type \in Leaves /\ new.type # "String"
    BY <2>3, <2>4 DEF Leaf, Leaves
  <2>9. LeafSpelled(k, new, r, text)
    BY <2>8 DEF LeafSpelled
  <2> QED
    BY <2>3, <2>5, <2>7, <2>9 DEF Valued, k
<1>4. ASSUME token.kind = "string"
      PROVE  Valued(h, ParseString(h, token, x), x, r, text)
  <2> DEFINE k == ParseString(h, token, x)
             new == StringItem(it, m + 1)
  <2>1. Grew(h, k, m, x, new, Text(token))
    BY StringWrites
  <2>2. IsItem(new)
    BY <1>1, PointersMade DEF Hooked
  <2>3. /\ new.next = it.next /\ new.string = it.string /\ new.type = "String"
        /\ new.valuestring = m + 1
    BY FieldsMade
  <2>4. token = String(token.text)
    BY <1>4, TokenIs
  <2>5. IsText(Text(token)) /\ Text(token).text = token.text
    BY DEF IsText, Text
  <2> HIDE DEF k, new
  <2>6. /\ ItemsIn(k) = ItemsIn(h) /\ KeepsTexts(h, k) /\ k.blocks[x] = new
        /\ \A y \in ItemsIn(h) \ {x} : k.blocks[y] = h.blocks[y]
        /\ m + 1 \in DOMAIN k.blocks \ ItemsIn(k) /\ k.blocks[m + 1] = Text(token)
    BY <2>1, <2>2, <2>5, TextGrew
  <2>7. k.blocks[x].next = h.blocks[x].next
    BY <2>3, <2>6
  <2>8. Names(h, k, x)
    BY <2>6, <2>7, WrittenAlone
  <2>9. Leaf(k, new) = token /\ new.type \in Leaves
    BY <2>3, <2>4, <2>5, <2>6 DEF Leaf, Leaves
  <2>10. LeafSpelled(k, new, r, text)
    BY <2>3, <2>6, <2>9 DEF LeafSpelled
  <2> QED
    BY <2>3, <2>6, <2>8, <2>10 DEF Valued, k
<1> QED
  BY <1>2, <1>3, <1>4
-----------------------------------------------------------------------------
(* The places of the parser, from token to token.                          *)

\* The lists that are open lie in front of the last member of the top one.
LEMMA FrameItemsBelow ==
  ASSUME NEW h, NEW item, NEW F, NEW expects, Frames(h, item, F, expects), expects # "member",
         NEW n, n = Len(F), NEW i \in 1 .. n
  PROVE  F[i].item < F[n].last
<1>1. F \in Seq(FrameSet) /\ n \in Nat
  BY FramesIn
<1>2. n \in 1 .. n
  BY <1>1
<1>3. /\ F[i].item < F[i].head /\ F[i].head <= F[i].last
      /\ F[n].item < F[n].head /\ F[n].head <= F[n].last
  BY <1>2 DEF Frames, Begun
<1>4. /\ F[i].item \in Nat /\ F[i].head \in Nat /\ F[i].last \in Nat
      /\ F[n].item \in Nat /\ F[n].head \in Nat /\ F[n].last \in Nat
  BY <1>1, <1>2, FrameIs
<1>5. CASE i = n
  BY <1>3, <1>4, <1>5
<1>6. CASE i # n
  <2>1. i \in 1 .. (n - 1)
    BY <1>1, <1>6
  <2>2. F[i].last <= F[n].item
    BY <1>2, <2>1 DEF Frames
  <2> QED
    BY <1>3, <1>4, <2>2
<1> QED
  BY <1>5, <1>6

\* The item that is read is none of them, and a member of the top one.
LEMMA CurrentOpen ==
  ASSUME NEW c, NEW m, Standing(c, m), Pending(c), NEW g, NEW text, NEW n, Placed(c, g, text, n)
  PROVE  /\ Current(c) \in OpenItems(c) /\ OpenItems(c) \ {Current(c)} = FrameItems(c.frames)
         /\ Current(c) # 1 => g[Current(c)].up \in OpenItems(c) \ {Current(c)}
         /\ (c.frames = <<>>) <=> (Current(c) = 1)
         /\ LinksIn(c.heap) /\ Frames(c.heap, c.item, c.frames, c.expects)
         /\ c.frames \in Seq(FrameSet) /\ Len(c.frames) \in Nat
<1> DEFINE F == c.frames
           x == Current(c)
           size == Len(F)
<1>1. c.expects # "member" /\ c.item = 1 /\ Frames(c.heap, c.item, F, c.expects)
      /\ Forest(c.heap, m, Roots(c))
  BY DEF Pending, Standing
<1>2. /\ F \in Seq(FrameSet) /\ size \in Nat /\ LinksIn(c.heap)
      /\ \A i \in 1 .. size : FrameIn(c.heap, F[i])
  BY <1>1, FramesIn, ForestLinks
<1>3. OpenItems(c) = FrameItems(F) \cup {x}
  BY DEF OpenItems
<1>4. CASE F = <<>>
  <2>1. x = 1
    BY <1>1, <1>4 DEF Current
  <2>2. FrameItems(F) = {}
    BY <1>4 DEF FrameItems
  <2>3. OpenItems(c) \ {x} = FrameItems(F) /\ x \in OpenItems(c)
    <3> HIDE DEF x
    <3> QED
      BY <1>1, <1>3, <2>1, <2>2
  <2> HIDE DEF F, x
  <2> QED
    BY <1>1, <1>2, <1>4, <2>1, <2>3 DEF F, x
<1>5. CASE F # <<>>
  <2>1. x = F[size].last
    BY <1>5 DEF Current, Top
  <2>2. size \in 1 .. size
    BY <1>2, <1>5, EmptySeq
  <2>3. \A i \in 1 .. size : F[i].item < x /\ F[i].item \in Nat
    BY <1>1, <1>2, <2>1, FrameItemsBelow, FrameIs
  <2>4. x \notin FrameItems(F)
    BY <2>3 DEF FrameItems
  <2>9. x # 1
    <3>1. FrameIn(c.heap, F[size])
      BY <1>2, <2>2
    <3>2. F[size].item \in Nat \ {NULL} /\ F[size].item < x
      BY <1>2, <2>2, <2>3, <3>1 DEF FrameIn, LinksIn
    <3> HIDE DEF F, size, x
    <3> QED
      BY <3>2 DEF NULL
  <2>5. F[size].head # NULL
    BY <1>1, <2>2 DEF Frames, Begun
  <2>6. g[x].up = F[size].item
    BY <2>1, <2>2, <2>5 DEF Placed, FramesPlaced, FramePlaced, Member
  <2>7. g[x].up \in FrameItems(F)
    BY <2>2, <2>6 DEF FrameItems
  <2> HIDE DEF F, x
  <2>8. OpenItems(c) \ {x} = FrameItems(F)
    BY <1>3, <2>4
  <2> QED
    BY <1>1, <1>2, <1>3, <1>5, <2>7, <2>8, <2>9 DEF F, x
<1> QED
  BY <1>4, <1>5

\* A value that is no list is in its place.
LEMMA LeafPlaced ==
  ASSUME NEW c, NEW m, Standing(c, m), c.expects = "value", NEW g, NEW text, NEW n,
         Placed(c, g, text, n), NEW heap,
         Valued(c.heap, heap, Current(c), WithEnd(g[Current(c)], n + 1), text)
  PROVE  \E d : Placed(Returned(c, heap), d, text, n + 1)
<1> DEFINE x == Current(c)
           h == c.heap
           F == c.frames
           open == OpenItems(c)
           r == WithEnd(g[x], n + 1)
           d == PlaceAt(g, x, r)
           e == Returned(c, heap)
<1>1. Pending(c) /\ n \in Nat /\ n + 1 \in Nat /\ c.item = 1
  BY DEF Pending, Placed, Standing
<1>2. /\ x \in open /\ open \ {x} = FrameItems(F)
      /\ x # 1 => g[x].up \in open \ {x}
      /\ (F = <<>>) <=> (x = 1)
      /\ LinksIn(h) /\ Frames(h, c.item, F, c.expects) /\ F \in Seq(FrameSet) /\ Len(F) \in Nat
  BY <1>1, CurrentOpen
<1>3. Places(h, g, text, open, {}, {})
  <2>1. Nameless(c) = {} /\ Colonless(c) = {}
    BY DEF Nameless, Colonless
  <2> QED
    BY <2>1 DEF Placed
<1>4. /\ IsParser(e) /\ e.item = c.item /\ e.heap = heap /\ e.frames = F
      /\ e.expects = IF F = <<>> THEN "nothing" ELSE "comma"
  <2> DEFINE next == IF F = <<>> THEN "nothing" ELSE "comma"
  <2>1. e = [c EXCEPT !.heap = heap, !.expects = next] /\ IsParser(c)
    BY DEF Returned, Standing
  <2> HIDE DEF next, e
  <2>2. e = [heap |-> heap, item |-> c.item, frames |-> F, expects |-> next, read |-> c.read]
    BY <2>1 DEF IsParser
  <2>3. IsParser(e) /\ e.item = c.item /\ e.heap = heap /\ e.frames = F /\ e.expects = next
    BY <2>2 DEF IsParser
  <2> QED
    BY <2>3 DEF next
<1> HIDE DEF e, open
<1>5. /\ Names(h, heap, x) /\ heap.blocks[x].string = h.blocks[x].string
      /\ LeafSpelled(heap, heap.blocks[x], r, text)
  BY DEF Valued
<1> HIDE DEF r
<1>6. x \in Nat /\ x \in ItemsIn(h)
  BY <1>2, <1>3 DEF Places, LinksIn
<1>7. d[x] = r
  BY <1>6, PlacesAt
<1> HIDE DEF d
<1>8. Spelled(heap, d, x, text)
  BY <1>5, <1>7 DEF Spelled
<1>9. \A y \in ItemsIn(h) \ {1} : g[y].up # x
  BY <1>1 DEF Placed
<1>10. Completes(h, heap, g, text, open, x, n + 1)
  BY <1>2, <1>5, <1>8, <1>9 DEF Completes, Names, d, r
<1>11. /\ Places(heap, d, text, open \ {x}, {}, {})
       /\ Stays(h, g, d)
       /\ d[x].end = n + 1
  <2> DEFINE z == n + 1
  <2>1. /\ OpenPlaces(h, g, text, open) /\ LinksIn(h) /\ x \in open /\ z \in Nat
        /\ Completes(h, heap, g, text, open, x, z)
    BY <1>1, <1>2, <1>3, <1>10 DEF OpenPlaces
  <2> HIDE DEF x, h, z
  <2>2. CompletedAt(h, heap, g, text, open, x, z)
    BY <2>1, Completed
  <2> QED
    BY <2>2 DEF CompletedAt, d, r, z
<1>12. FramesPlaced(heap, d, text, F)
  <2>1. FramesPlaced(h, g, text, F)
    BY DEF Placed
  <2>2. ItemsIn(heap) = ItemsIn(h) /\ \A y \in ItemsIn(h) : heap.blocks[y].next = h.blocks[y].next
    BY <1>5 DEF Names
  <2> QED
    BY <1>2, <1>11, <2>1, <2>2, FramesPlacedKept
<1>13. StandsAt(e, d, n + 1)
  <2>1. CASE F = <<>>
    BY <1>2, <1>4, <1>11, <2>1 DEF StandsAt
  <2>2. CASE F # <<>>
    <3>1. Top(e).last = x
      BY <1>4, <2>2 DEF Top, Current
    <3> QED
      BY <1>4, <1>11, <2>2, <3>1 DEF StandsAt
  <2> QED
    BY <2>1, <2>2
<1>14. ~Pending(e) /\ Nameless(e) = {} /\ Colonless(e) = {} /\ OpenItems(e) = FrameItems(F)
  <2>1. e.expects \notin {"value", "name", "colon"}
    BY <1>4
  <2> QED
    BY <1>4, <2>1 DEF Pending, Nameless, Colonless, OpenItems
<1>15. Placed(e, d, text, n + 1)
  BY <1>1, <1>2, <1>4, <1>11, <1>12, <1>13, <1>14 DEF Placed
<1> QED
  BY <1>15 DEF e

\* What has been read when a list is opened.
LEMMA ListBegunPlaced ==
  ASSUME NEW c, NEW m, Standing(c, m), c.expects = "value", NEW g, NEW text, NEW n,
         Placed(c, g, text, n), NEW named \in BOOLEAN,
         ~(Len(c.frames) >= NestingLimit), TokenAt(text, n + 1) = Opening(ListOf(named))
  PROVE  Placed(ListBegun(c, named), g, text, n + 1)
<1> DEFINE x == Current(c)
           h == c.heap
           f == Frame(x, named)
           F == Append(c.frames, f)
           e == ListBegun(c, named)
<1>1. Pending(c) /\ n \in Nat /\ n + 1 \in Nat /\ IsParser(c)
  BY DEF Pending, Placed, Standing
<1>2. /\ OpenItems(c) = FrameItems(c.frames) \cup {x}
      /\ c.frames \in Seq(FrameSet) /\ Len(c.frames) \in Nat
  BY <1>1, CurrentOpen DEF OpenItems
<1>3. e = [c EXCEPT !.frames = F, !.expects = "member"]
  BY DEF ListBegun
<1>4. f.item = x /\ f.named = named /\ f.head = NULL /\ f.last = NULL
  BY DEF Frame
<1>5. f \in FrameSet
  <2>1. x \in 1 .. m /\ m \in Nat
    BY CurrentIs
  <2>2. x \in Nat
    BY <2>1
  <2> QED
    BY <2>2 DEF Frame, FrameSet, NULL
<1> HIDE DEF e, F, f
<1>6. /\ IsParser(e) /\ e.item = c.item /\ e.heap = h /\ e.frames = F
      /\ e.expects = "member"
  BY <1>1, <1>3 DEF IsParser
<1>7. g[x].begin = n
  BY DEF Placed, StandsAt
<1>8. FramePlaced(h, g, text, f)
  <2>1. TokenAt(text, g[f.item].begin + 1) = Opening(ListOf(f.named))
    BY <1>4, <1>7
  <2>2. \A y \in ItemsIn(h) \ {1} : g[y].up # f.item
    BY <1>1, <1>4 DEF Placed
  <2> QED
    BY <1>4, <2>1, <2>2 DEF FramePlaced
<1>9. FramesPlaced(h, g, text, F) /\ FrameItems(F) = FrameItems(c.frames) \cup {f.item}
  <2>1. FramesPlaced(h, g, text, c.frames)
    BY DEF Placed
  <2> QED
    BY <1>2, <1>5, <1>8, <2>1, FramePlacedPushed DEF F
<1>10. Top(e) = f
  <2>1. Len(F) = Len(c.frames) + 1 /\ F[Len(c.frames) + 1] = f
    BY <1>2, AppendProperties DEF F
  <2> QED
    BY <1>6, <2>1 DEF Top
<1>11. StandsAt(e, g, n + 1)
  BY <1>4, <1>6, <1>7, <1>10 DEF StandsAt
<1>12. /\ ~Pending(e) /\ Nameless(e) = {} /\ Colonless(e) = {} /\ OpenItems(e) = OpenItems(c)
       /\ Nameless(c) = {} /\ Colonless(c) = {}
  <2>1. e.expects \notin {"value", "name", "colon"}
    BY <1>6
  <2> QED
    BY <1>2, <1>4, <1>6, <1>9, <2>1 DEF Pending, Nameless, Colonless, OpenItems
<1>13. Places(h, g, text, OpenItems(e), {}, {})
  BY <1>12 DEF Placed
<1>14. Placed(e, g, text, n + 1)
  BY <1>1, <1>6, <1>9, <1>11, <1>12, <1>13 DEF Placed
<1> QED
  BY <1>14 DEF e

\* What is not refused has been kept.
Keeping(c, text, n) == c.expects # "refused" => \E g : Placed(c, g, text, n)

\* A parser that has refused keeps nothing.
LEMMA RefusedKeeps ==
  ASSUME NEW c, IsParser(c), NEW text, NEW n
  PROVE  Keeping(Refused(c), text, n)
<1>1. Refused(c).expects = "refused"
  BY DEF Refused, IsParser
<1> QED
  BY <1>1 DEF Keeping

\* A value that is read is in its place.
LEMMA ValuePlaced ==
  ASSUME NEW c, NEW m, Standing(c, m), c.expects = "value", NEW g, NEW text, NEW n,
         Placed(c, g, text, n), NEW token, IsToken(token), TokenAt(text, n + 1) = token
  PROVE  Keeping(ParseValue(c, token), text, n + 1)
<1> DEFINE x == Current(c)
           h == c.heap
           z == n + 1
           r == WithEnd(g[x], z)
<1>1. /\ Dense(h, m) /\ x \in ItemsIn(h) /\ x \in 1 .. m /\ IsItem(h.blocks[x])
      /\ h.blocks[x].reference = FALSE
  BY CurrentIs
<1>2. g[x].begin = n
  BY DEF Placed, StandsAt
<1>3. r.end = z /\ r.begin = n
  BY <1>2 DEF WithEnd
<1>4. TokenAt(text, r.end) = token /\ r.end = r.begin + 1
  BY <1>3
<1>5. ASSUME NEW heap, Valued(h, heap, x, r, text)
      PROVE  Keeping(Returned(c, heap), text, z)
  BY <1>5, LeafPlaced DEF Keeping
<1> HIDE DEF r, z
<1>6. /\ token.kind \in {"null", "false", "true"} => Valued(h, ParseLiteral(h, token, x), x, r, text)
      /\ token.kind = "number" => Valued(h, ParseNumber(h, token, x), x, r, text)
      /\ token.kind = "string" => Valued(h, ParseString(h, token, x), x, r, text)
  <2> HIDE DEF x, h
  <2> QED
    BY <1>1, <1>4, LeafValued
<1>7. CASE token.kind \in {"null", "false", "true"}
  <2>1. ParseValue(c, token) = Returned(c, ParseLiteral(h, token, x))
    BY <1>7 DEF ParseValue
  <2> QED
    BY <1>5, <1>6, <1>7, <2>1 DEF z
<1>8. CASE token.kind = "string"
  <2>1. ParseValue(c, token) = Returned(c, ParseString(h, token, x))
    BY <1>8 DEF ParseValue
  <2> QED
    BY <1>5, <1>6, <1>8, <2>1 DEF z
<1>9. CASE token.kind = "number"
  <2>1. ParseValue(c, token) = Returned(c, ParseNumber(h, token, x))
    BY <1>9 DEF ParseValue
  <2> QED
    BY <1>5, <1>6, <1>9, <2>1 DEF z
<1>10. IsParser(c)
  BY DEF Standing
<1>11. ASSUME NEW named \in BOOLEAN, TokenAt(text, n + 1) = Opening(ListOf(named))
       PROVE  Keeping(ListBegun(c, named), text, z)
  <2>1. CASE Len(c.frames) >= NestingLimit
    <3>1. ListBegun(c, named) = Refused(c)
      BY <2>1 DEF ListBegun
    <3> QED
      BY <1>10, <3>1, RefusedKeeps
  <2>2. CASE ~(Len(c.frames) >= NestingLimit)
    <3>1. Placed(ListBegun(c, named), g, text, n + 1)
      BY <1>11, <2>2, ListBegunPlaced
    <3> QED
      BY <3>1 DEF Keeping, z
  <2> QED
    BY <2>1, <2>2
<1>12. token.kind \in {"[", "{"} => token = Token(token.kind)
  BY TokenIs
<1>13. CASE token.kind = "["
  <2>1. ParseValue(c, token) = ListBegun(c, FALSE)
    BY <1>13 DEF ParseValue, ParseArray
  <2>2. TokenAt(text, n + 1) = Opening(ListOf(FALSE))
    BY <1>12, <1>13 DEF Opening, ListOf
  <2> QED
    BY <1>11, <2>1, <2>2 DEF z
<1>14. CASE token.kind = "{"
  <2>1. ParseValue(c, token) = ListBegun(c, TRUE)
    BY <1>14 DEF ParseValue, ParseObject
  <2>2. TokenAt(text, n + 1) = Opening(ListOf(TRUE))
    BY <1>12, <1>14 DEF Opening, ListOf
  <2> QED
    BY <1>11, <2>1, <2>2 DEF z
<1>15. CASE token.kind \notin {"null", "false", "true", "string", "number", "[", "{"}
  <2>1. ParseValue(c, token) = Refused(c)
    BY <1>15 DEF ParseValue
  <2> QED
    BY <1>10, <2>1, RefusedKeeps
<1> QED
  BY <1>7, <1>8, <1>9, <1>13, <1>14, <1>15

\* A name that is read is in front of its value.
LEMMA NamePlaced ==
  ASSUME NEW c, NEW m, Standing(c, m), c.expects = "name", NEW g, NEW text, NEW n,
         Placed(c, g, text, n), NEW token, IsToken(token), TokenAt(text, n + 1) = token
  PROVE  Keeping(ParseName(c, token), text, n + 1)
<1> DEFINE x == Current(c)
           h == c.heap
           it == NamedItem(h.blocks[x], m + 1)
           k == NameMoved(ParseString(h, token, x), x)
           e == ParseName(c, token)
<1>1. /\ Dense(h, m) /\ x \in ItemsIn(h) /\ x \in 1 .. m /\ IsItem(h.blocks[x])
      /\ h.blocks[x].reference = FALSE /\ m \in Nat
  BY CurrentIs
<1>2. Pending(c) /\ n \in Nat /\ n + 1 \in Nat /\ c.item = 1 /\ IsParser(c)
      /\ g[x].start = n /\ g[x].list = "Object" /\ Len(c.frames) > 0
  BY DEF Pending, Placed, Standing, StandsAt
<1>3. /\ x \in OpenItems(c) /\ OpenItems(c) \ {x} = FrameItems(c.frames)
      /\ x # 1 => g[x].up \in OpenItems(c) \ {x}
      /\ LinksIn(h) /\ Frames(h, c.item, c.frames, c.expects)
      /\ (c.frames = <<>>) <=> (x = 1)
  BY <1>2, CurrentOpen
<1>4. CASE token.kind # "string"
  <2>1. e = Refused(c)
    BY <1>4 DEF ParseName
  <2> QED
    BY <1>2, <2>1, RefusedKeeps
<1>5. CASE token.kind = "string"
  <2>1. /\ IsParser(e) /\ e.item = c.item /\ e.heap = k /\ e.frames = c.frames
        /\ e.expects = "colon"
    BY <1>2, <1>5 DEF IsParser, ParseName
  <2>2. Grew(h, k, m, x, it, Text(token))
    <3> HIDE DEF h, x
    <3> QED
      BY <1>1, NameWrites
  <2>3. it.next = h.blocks[x].next /\ it.string = m + 1
    BY <1>1, FieldsMade
  <2>4. IsItem(it) /\ IsText(Text(token))
    <3>1. m + 1 \in Nat
      BY <1>1
    <3>2. To(h, x, "valuestring") = NULL
      BY <1>2 DEF Standing, Blank
    <3>3. Hooked(h.blocks[x], it, "string", m + 1)
      BY <1>1, <3>1, <3>2, PointersMade DEF To
    <3> QED
      BY <3>3 DEF Hooked, IsText, Text
  <2> HIDE DEF k, it, e
  <2>5. /\ ItemsIn(k) = ItemsIn(h) /\ KeepsTexts(h, k)
        /\ k.blocks[x] = it /\ \A y \in ItemsIn(h) \ {x} : k.blocks[y] = h.blocks[y]
        /\ m + 1 \in DOMAIN k.blocks \ ItemsIn(k) /\ k.blocks[m + 1] = Text(token)
    <3> HIDE DEF x, h
    <3> QED
      BY <1>1, <2>2, <2>4, TextGrew
  <2>6. Names(h, k, x)
    <3> HIDE DEF x, h
    <3> QED
      BY <1>1, <2>3, <2>5, WrittenAlone
  <2> DEFINE open == OpenItems(c)
  <2>7. NamelessPlaces(h, g, text, open, x)
    <3>1. Nameless(c) = {x} /\ Colonless(c) = {x}
      BY DEF Nameless, Colonless
    <3> QED
      BY <3>1 DEF Placed, NamelessPlaces
  <2>8. x # 1
    <3>1. c.frames # <<>>
      BY <1>2, EmptySeq
    <3> QED
      BY <1>3, <3>1
  <2>9. NameRead(k, g, x, text)
    <3>1. Titled(h, g, x, text, {x}, {x})
      BY <1>1, <2>7, <2>8 DEF NamelessPlaces, Places
    <3>2. token = String(token.text)
      BY <1>5, TokenIs
    <3>3. /\ k.blocks[x].string = m + 1 /\ k.blocks[m + 1].text = token.text
          /\ m + 1 \in DOMAIN k.blocks \ ItemsIn(k)
      BY <2>3, <2>5 DEF Text
    <3>4. TokenAt(text, g[x].start + 1) = String(k.blocks[k.blocks[x].string].text)
      BY <1>2, <3>2, <3>3
    <3>5. k.blocks[x].string \in DOMAIN k.blocks \ ItemsIn(k)
      BY <3>3
    <3>6. g[x].begin = g[x].start + 2
      BY <1>2, <3>1 DEF Titled
    <3> HIDE DEF x
    <3> QED
      BY <1>2, <3>4, <3>5, <3>6 DEF NameRead, Titled
  <2>10. ColonlessPlaces(k, g, text, open, x)
    <3> HIDE DEF x, h, open
    <3> QED
      BY <1>3, <2>6, <2>7, <2>9, NamePlaces DEF open
  <2>11. Current(e) = x /\ Pending(e) /\ OpenItems(e) = open
         /\ Nameless(e) = {} /\ Colonless(e) = {x}
    <3>1. Current(e) = x
      BY <2>1 DEF Current, Top
    <3> QED
      BY <1>2, <2>1, <3>1 DEF Pending, OpenItems, Nameless, Colonless
  <2>12. FramesPlaced(k, g, text, c.frames)
    <3>1. FramesPlaced(h, g, text, c.frames)
      BY DEF Placed
    <3>2. ItemsIn(k) = ItemsIn(h) /\ \A y \in ItemsIn(h) : k.blocks[y].next = h.blocks[y].next
      BY <2>6 DEF Names
    <3>3. Stays(h, g, g)
      BY DEF Stays, SamePlace
    <3> QED
      BY <1>3, <3>1, <3>2, <3>3, FramesPlacedKept
  <2>13. \A y \in ItemsIn(k) \ {1} : g[y].up # x
    BY <1>2, <2>5 DEF Placed
  <2>14. StandsAt(e, g, n + 1)
    BY <1>2, <2>1, <2>11 DEF StandsAt
  <2>15. Placed(e, g, text, n + 1)
    BY <1>2, <2>1, <2>10, <2>11, <2>12, <2>13, <2>14 DEF Placed, ColonlessPlaces
  <2> QED
    BY <2>15 DEF Keeping, e
<1> QED
  BY <1>4, <1>5 DEF e

\* A colon that is read is in front of the value.
LEMMA ColonPlaced ==
  ASSUME NEW c, NEW m, Standing(c, m), c.expects = "colon", NEW g, NEW text, NEW n,
         Placed(c, g, text, n), TokenAt(text, n + 1) = Token(":")
  PROVE  Keeping([c EXCEPT !.expects = "value"], text, n + 1)
<1> DEFINE x == Current(c)
           h == c.heap
           e == [c EXCEPT !.expects = "value"]
           open == OpenItems(c)
<1>1. Pending(c) /\ n \in Nat /\ n + 1 \in Nat /\ c.item = 1 /\ IsParser(c)
      /\ g[x].start + 1 = n /\ g[x].list = "Object" /\ Len(c.frames) > 0
  BY DEF Pending, Placed, Standing, StandsAt
<1>2. x \in open /\ ((c.frames = <<>>) <=> (x = 1))
  BY <1>1, CurrentOpen
<1>3. x # 1 /\ x \in ItemsIn(h)
  <2>1. c.frames # <<>>
    BY <1>1, EmptySeq
  <2> QED
    BY <1>2, <2>1 DEF Placed, Places
<1>4. ColonlessPlaces(h, g, text, open, x)
  <2>1. Nameless(c) = {} /\ Colonless(c) = {x}
    BY DEF Nameless, Colonless
  <2> QED
    BY <2>1 DEF Placed, ColonlessPlaces
<1>5. g[x].start \in Nat /\ g[x].begin = g[x].start + 2
  BY <1>1, <1>3, <1>4 DEF ColonlessPlaces, Places, Titled, IsPlace
<1>6. n + 1 = g[x].start + 2
  BY <1>1, <1>5
<1>7. TokenAt(text, g[x].start + 2) = Token(":")
  BY <1>6
<1>8. OpenPlaces(h, g, text, open)
  <2> HIDE DEF x, h, open
  <2> QED
    BY <1>4, <1>7, ColonPlaces
<1>9. /\ IsParser(e) /\ e.item = c.item /\ e.heap = h /\ e.frames = c.frames
      /\ e.expects = "value"
  BY <1>1 DEF IsParser
<1> HIDE DEF e
<1>10. Current(e) = x /\ Pending(e) /\ OpenItems(e) = open /\ Nameless(e) = {} /\ Colonless(e) = {}
  <2>1. Current(e) = x
    BY <1>9 DEF Current, Top
  <2> QED
    BY <1>1, <1>9, <2>1 DEF Pending, OpenItems, Nameless, Colonless
<1>11. StandsAt(e, g, n + 1)
  BY <1>5, <1>6, <1>9, <1>10 DEF StandsAt
<1>12. FramesPlaced(h, g, text, c.frames) /\ \A y \in ItemsIn(h) \ {1} : g[y].up # x
  BY <1>1 DEF Placed
<1>13. Placed(e, g, text, n + 1)
  BY <1>1, <1>8, <1>9, <1>10, <1>11, <1>12 DEF Placed, OpenPlaces
<1> QED
  BY <1>13 DEF Keeping, e

\* A member that begins is linked to the last one.
LinkedBehind(h, k, x, n) ==
  /\ ItemsIn(k) = ItemsIn(h) \cup {n} /\ n \in Nat /\ n \notin ItemsIn(h) /\ KeepsTexts(h, k)
  /\ \A y \in ItemsIn(h) : SameValue(h.blocks[y], k.blocks[y])
  /\ \A y \in ItemsIn(h) \ {x} : k.blocks[y].next = h.blocks[y].next
  /\ k.blocks[n].next = NULL
  /\ x # NULL => k.blocks[x].next = n

\* parse_array and parse_object link a new member behind the last one.
LEMMA MemberLinked ==
  ASSUME NEW h, NEW m, Dense(h, m), Typed(h), NEW x, x = NULL \/ x \in ItemsIn(h)
  PROVE  LinkedBehind(h, MemberHeap(h, x, m + 1), x, m + 1)
<1> DEFINE k == MemberHeap(h, x, m + 1)
<1>1. /\ m \in Nat /\ m + 1 \in Nat /\ IsItem(EmptyItem) /\ EmptyItem.next = NULL
      /\ ItemsIn(h) \subseteq 1 .. m /\ NULL \notin ItemsIn(h)
  BY DEF Dense, EmptyItem, IsItem, NULL, ItemsIn
<1>2. CASE x = NULL
  <2>1. k = Allocate(h, EmptyItem)
    BY <1>2 DEF MemberHeap
  <2> HIDE DEF k
  <2>2. /\ ItemsIn(k) = ItemsIn(h) \cup {m + 1} /\ KeepsTexts(h, k)
        /\ \A y \in ItemsIn(h) : k.blocks[y] = h.blocks[y]
        /\ m + 1 \notin ItemsIn(h) /\ k.blocks[m + 1] = EmptyItem
    BY <1>1, <2>1, ItemAllocated
  <2>3. \A y \in ItemsIn(h) : SameValue(h.blocks[y], k.blocks[y])
    BY <2>2 DEF SameValue
  <2> QED
    BY <1>1, <1>2, <2>2, <2>3 DEF LinkedBehind, k
<1>3. CASE x \in ItemsIn(h)
  <2> DEFINE it  == WithNext(h.blocks[x], m + 1)
             new == WithPrev(EmptyItem, x)
  <2>1. x \in 1 .. m /\ x \in Nat /\ IsItem(h.blocks[x]) /\ h.blocks[x].reference = FALSE /\ x # NULL
    BY <1>1, <1>3 DEF Typed
  <2>2. Grew(h, k, m, x, it, new)
    BY <2>1, MemberWrites
  <2>3. IsItem(it)
    BY <1>1, <2>1, PointersMade DEF Hooked
  <2>4. IsItem(new)
    BY <2>1, EmptyIsBare DEF IsBare
  <2>5. new.next = NULL
    BY <1>1, FieldsMade
  <2>6. SameValue(h.blocks[x], it) /\ it.next = m + 1
    BY <2>1, FieldsMade
  <2> HIDE DEF k, it, new
  <2>7. /\ ItemsIn(k) = ItemsIn(h) \cup {m + 1} /\ KeepsTexts(h, k)
        /\ k.blocks[x] = it /\ \A y \in ItemsIn(h) \ {x} : k.blocks[y] = h.blocks[y]
        /\ m + 1 \notin ItemsIn(h) /\ k.blocks[m + 1] = new
    BY <1>3, <2>2, <2>3, <2>4, ItemGrew
  <2>8. \A y \in ItemsIn(h) : SameValue(h.blocks[y], k.blocks[y])
    <3>1. \A y \in ItemsIn(h) \ {x} : SameValue(h.blocks[y], k.blocks[y])
      BY <2>7 DEF SameValue
    <3> QED
      BY <2>6, <2>7, <3>1
  <2> QED
    BY <1>1, <2>5, <2>6, <2>7, <2>8 DEF LinkedBehind, k
<1> QED
  BY <1>2, <1>3

\* The frame of the top list knows it as its last one.
LEMMA MemberFrameIs ==
  ASSUME NEW f \in FrameSet, NEW n \in Nat
  PROVE  LET new == MemberFrame(f, n) IN
         /\ new \in FrameSet /\ new.item = f.item /\ new.named = f.named /\ new.last = n
         /\ new.head = IF f.head = NULL THEN n ELSE f.head
<1> DEFINE head == IF f.head = NULL THEN n ELSE f.head
           new == MemberFrame(f, n)
<1>1. f.head \in Nat
  BY DEF FrameSet
<1>2. head \in Nat
  BY <1>1
<1>3. new = [f EXCEPT !.head = head, !.last = n]
  BY DEF MemberFrame
<1> HIDE DEF head, new
<1>4. /\ new \in FrameSet /\ new.item = f.item /\ new.named = f.named /\ new.last = n
      /\ new.head = head
  BY <1>2, <1>3 DEF FrameSet
<1> QED
  BY <1>4 DEF head, new

\* Between two members only the lists are open.
LEMMA ListsOpen ==
  ASSUME NEW c, ~Pending(c), NEW g, NEW text, NEW n, Placed(c, g, text, n)
  PROVE  /\ OpenItems(c) = FrameItems(c.frames)
         /\ OpenPlaces(c.heap, g, text, FrameItems(c.frames))
         /\ FramesPlaced(c.heap, g, text, c.frames) /\ n \in Nat /\ StandsAt(c, g, n)
<1>1. Nameless(c) = {} /\ Colonless(c) = {} /\ OpenItems(c) = FrameItems(c.frames)
  BY DEF Pending, Nameless, Colonless, OpenItems
<1> QED
  BY <1>1 DEF Placed, OpenPlaces

\* The place of a member that begins with token s + 1.
NewPlace(f, s) ==
  [up |-> f.item, list |-> ListOf(f.named), start |-> s,
   begin |-> IF f.named THEN s + 2 ELSE s, end |-> 0]

\* The place of a member that is begun.
LEMMA NewPlaceIs ==
  ASSUME NEW f \in FrameSet, NEW s \in Nat
  PROVE  LET r == NewPlace(f, s) IN
         /\ IsPlace(r) /\ r.up = f.item /\ r.list = ListOf(f.named) /\ r.start = s
         /\ r.begin = IF r.list = "Object" THEN r.start + 2 ELSE r.start
         /\ r.list = "Object" <=> f.named
<1>1. f.item \in Nat /\ f.named \in BOOLEAN /\ s + 2 \in Nat
  BY DEF FrameSet
<1>2. ListOf(f.named) \in Lists /\ (ListOf(f.named) = "Object" <=> f.named)
  BY <1>1 DEF ListOf, Lists
<1> QED
  BY <1>1, <1>2 DEF NewPlace, IsPlace

\* Where a member begins.
BeginsAt(c, text, n, s) ==
  /\ c.expects = "member" => s = n
  /\ c.expects = "comma"  => s = n + 1 /\ TokenAt(text, s) = Token(",")

\* Behind a bracket or a comma a member begins.
LEMMA MemberBegins ==
  ASSUME NEW c, NEW m, Standing(c, m), c.expects \in {"member", "comma"}, NEW g, NEW text, NEW n,
         Placed(c, g, text, n), NEW s \in Nat, BeginsAt(c, text, n, s)
  PROVE  Begins(c.heap, MemberHeap(c.heap, Top(c).last, m + 1), g, text, FrameItems(c.frames),
                Top(c).last, m + 1, NewPlace(Top(c), s))
<1> DEFINE h == c.heap
           top == Top(c)
           x == top.last
           k == MemberHeap(h, x, m + 1)
           r == NewPlace(top, s)
           F == c.frames
           size == Len(F)
           open == FrameItems(F)
<1>1. /\ size \in Nat /\ size > 0 /\ top = F[size] /\ top \in FrameSet
      /\ Frames(h, c.item, F, c.expects)
      /\ (Bare(top) /\ x = NULL) \/ (Begun(h, top) /\ x # NULL)
      /\ m \in Nat /\ Dense(h, m) /\ Typed(h) /\ ItemsIn(h) \subseteq 1 .. m
      /\ Open(h, c.item, top.item)
  BY TopIs
<1>2. ~Pending(c)
  BY DEF Pending
<1>3. FramesPlaced(h, g, text, F) /\ StandsAt(c, g, n) /\ n \in Nat
  BY <1>2, ListsOpen
<1>4. size \in 1 .. size
  BY <1>1
<1> HIDE DEF top
<1>5. LinkedBehind(h, k, x, m + 1)
  <2>1. x = NULL \/ x \in ItemsIn(h)
    BY <1>1 DEF Begun
  <2> HIDE DEF x
  <2> QED
    BY <1>1, <2>1, MemberLinked
<1>6. /\ IsPlace(r) /\ r.up = top.item /\ r.list = ListOf(top.named) /\ r.start = s
      /\ r.begin = IF r.list = "Object" THEN r.start + 2 ELSE r.start
  BY <1>1, NewPlaceIs
<1> HIDE DEF r, k
<1>7. r.up \in open /\ r.up < m + 1
  <2>1. top.item \in open
    BY <1>1, <1>4 DEF FrameItems
  <2>2. top.item \in 1 .. m
    BY <1>1 DEF Open
  <2> QED
    BY <1>1, <1>6, <2>1, <2>2
<1>8. ASSUME x # NULL
      PROVE  /\ x \in ItemsIn(h) /\ x \notin open
             /\ TokenAt(text, g[x].end + 1) = Token(",") /\ r.start = g[x].end + 1
             /\ r.up = g[x].up /\ r.list = g[x].list
  <2>1. Begun(h, top) /\ top.head # NULL
    BY <1>1, <1>8 DEF Begun, Bare, NULL
  <2>2. c.expects # "member"
    BY <1>1, <1>4, <2>1 DEF Frames, Bare, top
  <2>3. \A i \in 1 .. size : F[i].item < x /\ F[i].item \in Nat
    <3>1. x = F[size].last
      BY <1>1
    <3>2. F \in Seq(FrameSet)
      BY <1>1 DEF Frames
    <3> QED
      BY <1>1, <2>2, <3>1, <3>2, FrameItemsBelow, FrameIs
  <2>4. x \notin open
    BY <2>3 DEF FrameItems
  <2>5. c.expects = "comma"
    BY <2>2
  <2>6. g[x].end = n
    BY <1>3, <2>5 DEF StandsAt, top
  <2>7. s = n + 1 /\ TokenAt(text, s) = Token(",")
    BY <2>5 DEF BeginsAt
  <2>8. Member(g, x, top)
    BY <1>1, <1>3, <1>4, <2>1 DEF FramesPlaced, FramePlaced
  <2> QED
    BY <1>6, <2>1, <2>4, <2>6, <2>7, <2>8 DEF Member, Begun
<1> HIDE DEF x, h, open
<1>9. Begins(h, k, g, text, open, x, m + 1, r)
  BY <1>5, <1>6, <1>7, <1>8 DEF Begins, LinkedBehind
<1> QED
  BY <1>9 DEF h, k, open, x, r, top

\* A member that begins has its place in the top list.
LEMMA MemberPlaced ==
  ASSUME NEW c, NEW m, Standing(c, m), c.expects \in {"member", "comma"}, NEW g, NEW text, NEW n,
         Placed(c, g, text, n), NEW s \in Nat, BeginsAt(c, text, n, s)
  PROVE  \E d : Placed(MemberBegun(c), d, text, s)
<1> DEFINE h == c.heap
           top == Top(c)
           x == top.last
           new == m + 1
           k == MemberHeap(h, x, new)
           f == MemberFrame(top, new)
           r == NewPlace(top, s)
           d == PlaceAt(g, new, r)
           e == MemberBegun(c)
           F == c.frames
           size == Len(F)
           G == [F EXCEPT ![size] = f]
           open == FrameItems(F)
<1>1. /\ size \in Nat /\ size > 0 /\ top = F[size] /\ top \in FrameSet /\ F \in Seq(FrameSet)
      /\ Frames(h, c.item, F, c.expects)
      /\ (Bare(top) /\ x = NULL) \/ (Begun(h, top) /\ x # NULL)
      /\ m \in Nat /\ Dense(h, m) /\ Typed(h) /\ ItemsIn(h) \subseteq 1 .. m
      /\ new \in Nat
  BY TopIs
<1>2. ~Pending(c) /\ c.item = 1
  BY DEF Pending, Standing
<1>3. OpenPlaces(h, g, text, open) /\ FramesPlaced(h, g, text, F) /\ StandsAt(c, g, n) /\ n \in Nat
  BY <1>2, ListsOpen
<1>4. size \in 1 .. size /\ 1 \in ItemsIn(h)
  BY <1>1, <1>2 DEF Frames
<1>5. LinksIn(h)
  BY ForestLinks DEF Standing
<1>6. Begins(h, k, g, text, open, x, new, r)
  BY MemberBegins
<1>7. /\ IsParser(e) /\ e.item = 1 /\ e.heap = k /\ e.frames = G
      /\ e.expects = IF top.named THEN "name" ELSE "value"
  BY <1>2, MemberIs
<1>8. /\ f \in FrameSet /\ f.item = top.item /\ f.named = top.named /\ f.last = new
      /\ f.head = IF top.head = NULL THEN new ELSE top.head
  BY <1>1, MemberFrameIs
<1>9. /\ r.up = top.item /\ r.list = ListOf(top.named) /\ r.start = s
      /\ r.begin = IF r.list = "Object" THEN r.start + 2 ELSE r.start
      /\ r.list = "Object" <=> top.named
  BY <1>1, NewPlaceIs
<1> HIDE DEF r, f, k, e, G
<1>10. Len(G) = size /\ G[size] = f /\ G # <<>>
  <2>1. G \in Seq(FrameSet) /\ Len(G) = size /\ \A i \in 1 .. size : G[i] = IF i = size THEN f ELSE F[i]
    BY <1>1, <1>4, <1>8, ExceptSeq DEF G
  <2> QED
    BY <1>1, <1>4, <2>1, EmptySeq
<1>11. Current(e) = new /\ Pending(e)
  BY <1>7, <1>8, <1>10 DEF Current, Top, Pending
<1> DEFINE N == Nameless(e)
           B == Colonless(e)
<1>12. r.list = "Object" => new \in N /\ new \in B
  BY <1>7, <1>9, <1>11 DEF Nameless, Colonless
<1>13. MemberAt(h, k, g, text, open, new, r, N, B)
  <2> HIDE DEF h, open, new, N, B, x
  <2> QED
    BY <1>3, <1>4, <1>5, <1>6, <1>12, MemberPlaces
<1>14. Places(k, d, text, open \cup {new}, N, B) /\ d[new] = r /\ \A y \in ItemsIn(h) : d[y] = g[y]
  BY <1>13 DEF MemberAt
<1> HIDE DEF d, new, N, B, top
<1>15. /\ ItemsIn(k) = ItemsIn(h) \cup {new} /\ new \notin ItemsIn(h) /\ r.up < new
       /\ \A y \in ItemsIn(h) \ {x} : k.blocks[y].next = h.blocks[y].next
       /\ x # NULL => k.blocks[x].next = new
  BY <1>6 DEF Begins
<1>16. Stays(h, g, d)
  BY <1>14 DEF Stays, SamePlace
<1>17. FrameIn(h, top) /\ FramePlaced(h, g, text, top)
  BY <1>1, <1>3, <1>4, FramesIn DEF FramesPlaced
<1>18. FramePlaced(k, d, text, f)
  <2>1. TokenAt(text, d[f.item].begin + 1) = Opening(ListOf(f.named))
    BY <1>8, <1>14, <1>17 DEF FramePlaced, FrameIn
  <2>2. Member(d, f.last, f)
    BY <1>8, <1>9, <1>14 DEF Member
  <2>3. d[f.head].start = d[f.item].begin + 1 /\ Member(d, f.head, f)
    <3>1. CASE top.head = NULL
      <4>1. x = NULL /\ f.head = new
        BY <1>1, <1>8, <3>1 DEF Bare, Begun, LinksIn, Frames
      <4>2. c.expects = "member"
        <5>1. F[size].last = NULL /\ NULL \notin ItemsIn(h)
          BY <1>1, <1>5, <4>1 DEF top, LinksIn
        <5>2. ~Begun(h, F[size])
          BY <5>1 DEF Begun
        <5> QED
          BY <1>1, <1>4, <5>2 DEF Frames
      <4>3. s = n /\ g[top.item].begin + 1 = n
        BY <1>3, <4>2 DEF BeginsAt, StandsAt, top
      <4>4. d[top.item] = g[top.item]
        BY <1>14, <1>17 DEF FrameIn
      <4>5. f.item = top.item /\ f.last = new /\ d[new].start = s
        BY <1>8, <1>9, <1>14
      <4>6. f.head = f.last /\ d[f.head].start = n /\ d[f.item].begin + 1 = n
        BY <4>1, <4>3, <4>4, <4>5
      <4> QED
        BY <2>2, <4>6
    <3>2. CASE top.head # NULL
      <4>1. /\ g[top.head].start = g[top.item].begin + 1 /\ Member(g, top.head, top)
            /\ d[top.item] = g[top.item] /\ d[top.head] = g[top.head] /\ f.head = top.head
        BY <1>8, <1>14, <1>17, <3>2 DEF FramePlaced, FrameIn
      <4> QED
        BY <1>8, <4>1 DEF Member
    <3> QED
      BY <3>1, <3>2
  <2>4. ASSUME NEW y \in ItemsIn(k) \ {1}, d[y].up = f.item, k.blocks[y].next = NULL
        PROVE  y = f.last
    <3>1. CASE y = new
      BY <1>8, <3>1
    <3>2. CASE y \in ItemsIn(h)
      <4>1. y # x
        <5>1. new # NULL
          BY <1>1 DEF new, NULL
        <5>2. y # NULL
          BY <1>5, <3>2 DEF LinksIn
        <5> QED
          BY <1>15, <2>4, <5>1, <5>2
      <4>2. h.blocks[y].next = NULL /\ g[y].up = top.item
        BY <1>8, <1>14, <1>15, <2>4, <3>2, <4>1
      <4>3. y = x
        BY <1>17, <3>2, <4>2 DEF FramePlaced
      <4> QED
        BY <4>1, <4>3
    <3> QED
      BY <1>15, <3>1, <3>2
  <2> QED
    BY <2>1, <2>2, <2>3, <2>4 DEF FramePlaced
<1>19. FramesPlaced(k, d, text, G) /\ FrameItems(G) = open
  <2>1. ItemsIn(k) = ItemsIn(h) \cup {new} /\ d[new].up = F[size].item
    BY <1>1, <1>9, <1>14, <1>15
  <2>2. \A y \in ItemsIn(h) \ {F[size].last} : k.blocks[y].next = h.blocks[y].next
    BY <1>1, <1>15
  <2>3. F[size].last \in ItemsIn(h) => k.blocks[F[size].last].next # NULL
    <3>1. new # NULL
      BY <1>1 DEF new, NULL
    <3>2. x \in ItemsIn(h) => x # NULL
      BY <1>5 DEF LinksIn
    <3> QED
      BY <1>1, <1>15, <3>1, <3>2
  <2>4. f.item = F[size].item
    BY <1>1, <1>8
  <2>5. JoinsFrames(h, k, g, d, text, F, size, new, f)
    BY <1>1, <1>3, <1>16, <1>18, <2>1, <2>2, <2>3, <2>4 DEF JoinsFrames
  <2>6. Frames(h, c.item, F, c.expects)
    BY <1>1
  <2> HIDE DEF h, F, size, open
  <2> QED
    BY <2>5, <2>6, FramePlacedReplaced DEF G, open
<1>20. OpenItems(e) = open \cup {new}
  BY <1>7, <1>11, <1>19 DEF OpenItems
<1>21. \A y \in ItemsIn(k) \ {1} : d[y].up # new
  <2>1. ASSUME NEW y \in ItemsIn(h) \ {1} PROVE d[y].up # new
    <3>1. g[y].up \in ItemsIn(h)
      BY <1>3 DEF OpenPlaces, Places, Enclosed
    <3> QED
      BY <1>14, <1>15, <3>1
  <2>2. d[new].up # new
    <3>1. d[new].up \in ItemsIn(h)
      BY <1>9, <1>14, <1>17 DEF FrameIn
    <3> QED
      BY <1>15, <3>1
  <2> QED
    BY <1>15, <2>1, <2>2
<1>22. StandsAt(e, d, s)
  <2>1. top.named \in BOOLEAN
    BY <1>1 DEF FrameSet
  <2>2. CASE top.named
    <3>1. e.expects = "name" /\ d[new].start = s /\ d[new].list = "Object"
      BY <1>7, <1>9, <1>14, <2>2
    <3> QED
      BY <1>11, <3>1 DEF StandsAt
  <2>3. CASE ~top.named
    <3>1. r.list # "Object"
      BY <1>9, <2>3
    <3>2. e.expects = "value" /\ d[new].begin = s
      BY <1>7, <1>9, <1>14, <2>3, <3>1
    <3> QED
      BY <1>11, <3>2 DEF StandsAt
  <2> QED
    BY <2>1, <2>2, <2>3
<1>23. Placed(e, d, text, s)
  BY <1>7, <1>11, <1>14, <1>19, <1>20, <1>21, <1>22 DEF Placed, N, B
<1> QED
  BY <1>23 DEF e

\* A list that is hung on its item.
HungOn(h, k, f) ==
  /\ ItemsIn(k) = ItemsIn(h) /\ KeepsTexts(h, k)
  /\ \A y \in ItemsIn(h) : k.blocks[y].next = h.blocks[y].next
  /\ \A y \in ItemsIn(h) \ {f.item} : SameValue(h.blocks[y], k.blocks[y])
  /\ k.blocks[f.item].string = h.blocks[f.item].string
  /\ k.blocks[f.item].type = ListOf(f.named) /\ k.blocks[f.item].child = f.head

\* At a closing bracket the members are hung on the item of the list.
LEMMA ListHung ==
  ASSUME NEW c, NEW m, Standing(c, m), c.expects \in {"member", "comma"}
  PROVE  HungOn(c.heap, ListHeap(c.heap, Top(c)), Top(c))
<1> DEFINE h == c.heap
           top == Top(c)
           x == top.item
           b == Closed(h, top)
           k == ListHeap(h, top)
           it == ListItem(b.blocks[x], top.named, top.head)
<1>1. /\ m \in Nat /\ Dense(h, m) /\ Typed(h) /\ ItemsIn(h) \subseteq 1 .. m
      /\ Bare(top) \/ Begun(h, top)
      /\ x \in ItemsIn(h)
  BY TopIs DEF Open
<1>2. /\ Forest(b, m, Roots(c)) /\ ItemsIn(b) = ItemsIn(h)
      /\ top.head # NULL => Changed(h, b, m, top.head, WithPrev(h.blocks[top.head], top.last))
      /\ top.head = NULL => b = h
  BY ClosedKeeps
<1> HIDE DEF b
<1>3. /\ KeepsTexts(h, b) /\ \A y \in ItemsIn(h) : SameValue(h.blocks[y], b.blocks[y])
      /\ \A y \in ItemsIn(h) : /\ b.blocks[y].next = h.blocks[y].next
                               /\ b.blocks[y].string = h.blocks[y].string
  <2>1. CASE top.head = NULL
    <3>1. b = h
      BY <1>2, <2>1
    <3> QED
      BY <3>1 DEF KeepsTexts, SameValue
  <2>2. CASE top.head # NULL
    <3> DEFINE p   == top.head
               new == WithPrev(h.blocks[p], top.last)
    <3>1. p \in ItemsIn(h) /\ IsItem(h.blocks[p]) /\ h.blocks[p].reference = FALSE
          /\ top.last \in Nat
      BY <1>1, <2>2 DEF Bare, Begun, Typed
    <3>2. IsItem(new)
      BY <3>1, PointersMade DEF Alike
    <3>3. SameValue(h.blocks[p], new) /\ new.next = h.blocks[p].next
      BY <3>1, FieldsMade
    <3>4. new.string = h.blocks[p].string
      BY <3>3 DEF SameValue
    <3>5. Changed(h, b, m, p, new)
      BY <1>2, <2>2
    <3> HIDE DEF new, p, h
    <3>6. /\ KeepsTexts(h, b) /\ b.blocks[p] = new
          /\ \A y \in ItemsIn(h) \ {p} : b.blocks[y] = h.blocks[y]
      BY <1>1, <3>1, <3>2, <3>5, ItemsChanged
    <3>7. \A y \in ItemsIn(h) \ {p} : SameValue(h.blocks[y], b.blocks[y])
      BY <3>6 DEF SameValue
    <3>8. \A y \in ItemsIn(h) : y = p \/ y \in ItemsIn(h) \ {p}
      OBVIOUS
    <3> QED
      BY <3>3, <3>4, <3>6, <3>7, <3>8
  <2> QED
    BY <2>1, <2>2
<1>4. Dense(b, m) /\ IsItem(b.blocks[x]) /\ b.blocks[x].reference = FALSE /\ x \in 1 .. m
  BY <1>1, <1>2 DEF Forest, Typed
<1>5. k = [b EXCEPT !.blocks[x].type = IF top.named THEN "Object" ELSE "Array",
                    !.blocks[x].child = top.head]
  BY DEF ListHeap, b
<1> HIDE DEF k, top
<1>6. Changed(b, k, m, x, it)
  BY <1>4, <1>5, ListWrites
<1>7. /\ it.next = b.blocks[x].next /\ it.string = b.blocks[x].string
      /\ it.type = ListOf(top.named) /\ it.child = top.head
  BY <1>4, FieldsMade DEF ListOf
<1>8. IsItem(it)
  <2>1. top.head \in Nat
    BY TopIs DEF top, FrameSet
  <2> QED
    BY <1>4, <2>1, PointersMade DEF Hooked
<1> HIDE DEF it, x, h
<1>9. /\ ItemsIn(k) = ItemsIn(b) /\ KeepsTexts(b, k)
      /\ k.blocks[x] = it /\ \A y \in ItemsIn(b) \ {x} : k.blocks[y] = b.blocks[y]
  BY <1>1, <1>2, <1>4, <1>6, <1>8, ItemsChanged
<1>10. KeepsTexts(h, k)
  BY <1>3, <1>9 DEF KeepsTexts
<1>11. \A y \in ItemsIn(h) : k.blocks[y].next = h.blocks[y].next
  BY <1>2, <1>3, <1>7, <1>9
<1>12. \A y \in ItemsIn(h) \ {x} : SameValue(h.blocks[y], k.blocks[y])
  BY <1>2, <1>3, <1>9
<1>13. k.blocks[x].string = h.blocks[x].string
  BY <1>1, <1>3, <1>7, <1>9
<1> QED
  BY <1>2, <1>7, <1>9, <1>10, <1>11, <1>12, <1>13 DEF HungOn, x, h, k, top

\* A list that ends is in its place.
LEMMA ListEndPlaced ==
  ASSUME NEW c, NEW m, Standing(c, m), c.expects \in {"member", "comma"}, NEW g, NEW text, NEW n,
         Placed(c, g, text, n), TokenAt(text, n + 1) = Closing(ListOf(Top(c).named))
  PROVE  \E d : Placed(ListEnd(c), d, text, n + 1)
<1> DEFINE h == c.heap
           top == Top(c)
           x == top.item
           z == n + 1
           k == ListHeap(h, top)
           r == WithEnd(g[x], z)
           d == PlaceAt(g, x, r)
           e == ListEnd(c)
           F == c.frames
           G == Front(F)
           size == Len(F)
           open == FrameItems(F)
<1>1. /\ size \in Nat /\ size > 0 /\ top = F[size] /\ top \in FrameSet /\ F \in Seq(FrameSet)
      /\ Frames(h, c.item, F, c.expects)
      /\ (Bare(top) /\ top.last = NULL) \/ (Begun(h, top) /\ top.last # NULL)
      /\ x \in ItemsIn(h)
  BY TopIs DEF Open
<1>2. ~Pending(c) /\ c.item = 1 /\ IsParser(c)
  BY DEF Pending, Standing
<1>3. OpenPlaces(h, g, text, open) /\ FramesPlaced(h, g, text, F) /\ StandsAt(c, g, n) /\ n \in Nat
  BY <1>2, ListsOpen
<1>4. size \in 1 .. size /\ x \in open /\ z \in Nat
  <2>1. size \in 1 .. size
    BY <1>1
  <2> QED
    BY <1>1, <1>3, <2>1 DEF FrameItems
<1>5. LinksIn(h) /\ x \in Nat /\ NULL \notin ItemsIn(h)
  <2>1. LinksIn(h)
    BY ForestLinks DEF Standing
  <2> QED
    BY <1>1, <2>1 DEF LinksIn
<1>6. HungOn(h, k, top)
  BY ListHung
<1>7. /\ IsParser(e) /\ e.item = 1 /\ e.heap = k /\ e.frames = G
      /\ e.expects = IF G = <<>> THEN "nothing" ELSE "comma"
  BY <1>2, ListEndIs
<1>8. FramePlaced(h, g, text, top) /\ FrameIn(h, top)
  BY <1>1, <1>3, <1>4, FramesIn DEF FramesPlaced
<1>9. r.end = z /\ r.begin = g[x].begin
  BY DEF WithEnd
<1>10. d[x] = r /\ \A y \in Nat : y # x => d[y] = g[y]
  BY <1>5, PlacesAt
<1> HIDE DEF k, e, d, r, top
<1>11. (top.last = NULL <=> c.expects = "member") /\ (top.head = NULL <=> c.expects = "member")
  <2>1. c.expects = "member" => Bare(top)
    BY <1>1, <1>4 DEF Frames
  <2>2. c.expects # "member" => Begun(h, top)
    BY <1>1, <1>4 DEF Frames
  <2> QED
    BY <1>5, <2>1, <2>2 DEF Bare, Begun
<1>12. ListSpelled(d, k.blocks[x], x, text)
  <2>1. k.blocks[x].type = ListOf(top.named) /\ k.blocks[x].child = top.head
    BY <1>6 DEF HungOn
  <2>2. ListOf(top.named) \in Lists
    BY DEF ListOf, Lists
  <2>3. TokenAt(text, d[x].begin + 1) = Opening(ListOf(top.named))
    BY <1>8, <1>9, <1>10 DEF FramePlaced
  <2>4. TokenAt(text, d[x].end) = Closing(ListOf(top.named))
    BY <1>9, <1>10 DEF top
  <2>5. top.head = NULL => d[x].end = d[x].begin + 2
    <3>1. top.head = NULL => g[x].begin + 1 = n
      BY <1>3, <1>11 DEF StandsAt, top
    <3>2. g[x].begin \in Nat
      BY <1>1, <1>3 DEF OpenPlaces, Places, IsPlace
    <3> QED
      BY <1>3, <1>9, <1>10, <3>1, <3>2
  <2>6. top.head # NULL => /\ d[top.head].start = d[x].begin + 1
                           /\ d[top.head].up = x /\ d[top.head].list = ListOf(top.named)
    <3> SUFFICES ASSUME top.head # NULL
                 PROVE  /\ d[top.head].start = d[x].begin + 1
                        /\ d[top.head].up = x /\ d[top.head].list = ListOf(top.named)
      OBVIOUS
    <3>1. top.item < top.head /\ top.head \in Nat
      BY <1>1, <1>5, <1>8 DEF Begun, Bare, FrameIn, LinksIn
    <3>2. top.head # x
      BY <1>5, <3>1
    <3>3. d[top.head] = g[top.head]
      BY <1>10, <3>1, <3>2
    <3>4. g[top.head].start = g[x].begin + 1 /\ Member(g, top.head, top)
      BY <1>8 DEF FramePlaced
    <3> QED
      BY <1>9, <1>10, <3>3, <3>4 DEF Member
  <2> QED
    BY <2>1, <2>2, <2>3, <2>4, <2>5, <2>6 DEF ListSpelled
<1>13. size = 1 => x = 1
  BY <1>1, <1>2, <1>4 DEF Frames
<1>14. ASSUME size # 1
       PROVE  F[size - 1].last = x /\ g[x].up \in open \ {x}
  <2>1. size - 1 \in 1 .. (size - 1) /\ size - 1 \in 1 .. size /\ size - 1 # size
    <3>1. size \in Nat /\ size > 0 /\ size # 1
      BY <1>1, <1>14
    <3> HIDE DEF size
    <3> QED
      BY <3>1
  <2>2. F[size - 1].last = x
    <3>1. \A i \in 1 .. size : F[i].item = IF i = 1 THEN c.item ELSE F[i - 1].last
      BY <1>1 DEF Frames
    <3> HIDE DEF size, F
    <3>2. F[size].item = F[size - 1].last
      BY <1>4, <1>14, <3>1
    <3> QED
      BY <1>1, <3>2
  <2>3. F[size - 1].item # F[size].item /\ Begun(h, F[size - 1])
    BY <1>1, <2>1, BelowTop
  <2>4. FramePlaced(h, g, text, F[size - 1])
    BY <1>3, <2>1 DEF FramesPlaced
  <2>5. Member(g, x, F[size - 1])
    BY <1>5, <2>2, <2>3, <2>4 DEF FramePlaced, Begun
  <2>6. F[size - 1].item \in open
    BY <2>1 DEF FrameItems
  <2> QED
    BY <1>1, <2>2, <2>3, <2>5, <2>6 DEF Member
<1>15. ASSUME NEW y \in ItemsIn(h) \ {1}, g[y].up = x, h.blocks[y].next = NULL
       PROVE  z = g[y].end + 1
  <2>1. y = top.last
    BY <1>8, <1>15 DEF FramePlaced
  <2>2. c.expects = "comma"
    BY <1>5, <1>11, <2>1
  <2>3. g[y].end = n
    BY <1>3, <2>1, <2>2 DEF StandsAt, top
  <2> QED
    BY <2>3
<1>16. Completes(h, k, g, text, open, x, z)
  <2>1. Spelled(k, PlaceAt(g, x, WithEnd(g[x], z)), x, text)
    BY <1>12 DEF Spelled, d, r
  <2>2. x # 1 => g[x].up \in open \ {x}
    BY <1>13, <1>14
  <2>3. /\ ItemsIn(k) = ItemsIn(h) /\ KeepsTexts(h, k)
        /\ \A y \in ItemsIn(h) : k.blocks[y].next = h.blocks[y].next
        /\ \A y \in ItemsIn(h) \ {x} : SameValue(h.blocks[y], k.blocks[y])
        /\ k.blocks[x].string = h.blocks[x].string
    BY <1>6 DEF HungOn
  <2>4. \A y \in ItemsIn(h) \ {1} : g[y].up = x /\ h.blocks[y].next = NULL => z = g[y].end + 1
    BY <1>15
  <2> HIDE DEF z, open, x, h
  <2> QED
    BY <2>1, <2>2, <2>3, <2>4 DEF Completes
<1>17. Places(k, d, text, open \ {x}, {}, {}) /\ Stays(h, g, d) /\ d[x].end = z
  <2>1. CompletedAt(h, k, g, text, open, x, z)
    <3> HIDE DEF z, open, x, h
    <3> QED
      BY <1>3, <1>4, <1>5, <1>16, Completed
  <2> QED
    BY <2>1 DEF CompletedAt, d, r
<1>18. FramesPlaced(k, d, text, F)
  <2>1. ItemsIn(k) = ItemsIn(h) /\ \A y \in ItemsIn(h) : k.blocks[y].next = h.blocks[y].next
    BY <1>6 DEF HungOn
  <2> QED
    BY <1>1, <1>3, <1>17, <2>1, FramesPlacedKept
<1>19. /\ FramesPlaced(k, d, text, G) /\ FrameItems(G) = open \ {x}
       /\ Len(G) = size - 1 /\ \A i \in 1 .. (size - 1) : G[i] = F[i]
  BY <1>1, <1>18, FramePlacedPopped
<1> HIDE DEF G
<1>20. StandsAt(e, d, z)
  <2>1. Standing(e, m)
    BY ListEndStands DEF e
  <2>2. (e.expects = "comma" => Len(G) > 0) /\ (e.expects = "nothing" => Len(G) = 0)
    BY <1>7, <2>1 DEF Standing
  <2>3. CASE e.expects = "nothing"
    <3>1. x = 1
      BY <1>1, <1>13, <1>19, <2>2, <2>3
    <3> QED
      BY <1>17, <2>3, <3>1 DEF StandsAt
  <2>4. CASE e.expects = "comma"
    <3>1. size # 1 /\ Len(G) \in 1 .. (size - 1)
      BY <1>1, <1>19, <2>2, <2>4
    <3>2. Top(e) = F[size - 1]
      BY <1>7, <1>19, <3>1 DEF Top
    <3> QED
      BY <1>14, <1>17, <2>4, <3>1, <3>2 DEF StandsAt
  <2> QED
    BY <1>7, <2>3, <2>4
<1>21. ~Pending(e) /\ Nameless(e) = {} /\ Colonless(e) = {} /\ OpenItems(e) = open \ {x}
  <2>1. e.expects \notin {"value", "name", "colon"}
    BY <1>7
  <2> QED
    BY <1>7, <1>19, <2>1 DEF Pending, Nameless, Colonless, OpenItems
<1>22. Placed(e, d, text, z)
  BY <1>4, <1>7, <1>17, <1>19, <1>20, <1>21 DEF Placed
<1> QED
  BY <1>22 DEF e

\* A first member is read by the line that begins it.
LEMMA FirstPlaced ==
  ASSUME NEW c, NEW m, Standing(c, m), c.expects = "member", NEW g, NEW text, NEW n,
         Placed(c, g, text, n), NEW token, IsToken(token), TokenAt(text, n + 1) = token
  PROVE  /\ Top(c).named  => Keeping(ParseName(MemberBegun(c), token), text, n + 1)
         /\ ~Top(c).named => Keeping(ParseValue(MemberBegun(c), token), text, n + 1)
<1> DEFINE b == MemberBegun(c)
<1>1. Standing(b, m + 1) /\ b.expects = IF Top(c).named THEN "name" ELSE "value"
  BY MemberStands
<1>2. n \in Nat /\ BeginsAt(c, text, n, n)
  BY DEF Placed, BeginsAt
<1>3. PICK d : Placed(b, d, text, n)
  BY <1>2, MemberPlaced
<1> HIDE DEF b
<1>4. ASSUME Top(c).named PROVE Keeping(ParseName(b, token), text, n + 1)
  <2>1. b.expects = "name"
    BY <1>1, <1>4
  <2> QED
    BY <1>1, <1>3, <2>1, NamePlaced
<1>5. ASSUME ~Top(c).named PROVE Keeping(ParseValue(b, token), text, n + 1)
  <2>1. b.expects = "value"
    BY <1>1, <1>5
  <2> QED
    BY <1>1, <1>3, <2>1, ValuePlaced
<1> QED
  BY <1>4, <1>5 DEF b

\* Every token that is read is in its place.
LEMMA TokenPlaced ==
  ASSUME NEW c, NEW m, Standing(c, m), c.expects \in Expected \ {"nothing"}, NEW g, NEW text, NEW n,
         Placed(c, g, text, n), NEW token, IsToken(token), TokenAt(text, n + 1) = token
  PROVE  Keeping(ReadToken(c, token), text, n + 1)
<1>0. IsParser(c)
  BY DEF Standing
<1>1. CASE c.expects = "value"
  <2>1. ReadToken(c, token) = ParseValue(c, token)
    BY <1>1 DEF ReadToken
  <2> QED
    BY <1>1, <2>1, ValuePlaced
<1>2. CASE c.expects = "name"
  <2>1. ReadToken(c, token) = ParseName(c, token)
    BY <1>2 DEF ReadToken
  <2> QED
    BY <1>2, <2>1, NamePlaced
<1>3. CASE c.expects = "colon"
  <2>1. ReadToken(c, token) =
          IF token.kind = ":" THEN [c EXCEPT !.expects = "value"] ELSE Refused(c)
    BY <1>3 DEF ReadToken
  <2>2. CASE token.kind = ":"
    <3>1. TokenAt(text, n + 1) = Token(":")
      BY <2>2, TokenIs
    <3>2. Keeping([c EXCEPT !.expects = "value"], text, n + 1)
      BY <1>3, <3>1, ColonPlaced
    <3>3. ReadToken(c, token) = [c EXCEPT !.expects = "value"]
      BY <2>1, <2>2
    <3> QED
      BY <3>2, <3>3
  <2>3. CASE token.kind # ":"
    <3>1. ReadToken(c, token) = Refused(c)
      BY <2>1, <2>3
    <3> QED
      BY <1>0, <3>1, RefusedKeeps
  <2> QED
    BY <2>2, <2>3
<1>4. ASSUME c.expects \in {"member", "comma"}, token.kind = Close(c)
      PROVE  Keeping(ListEnd(c), text, n + 1)
  <2>1. token = Token(token.kind)
    BY <1>4, TokenIs DEF Close
  <2>2. Closing(ListOf(Top(c).named)) = Token(Close(c))
    BY DEF Closing, ListOf, Close
  <2>3. TokenAt(text, n + 1) = Closing(ListOf(Top(c).named))
    BY <1>4, <2>1, <2>2
  <2>4. \E d : Placed(ListEnd(c), d, text, n + 1)
    BY <1>4, <2>3, ListEndPlaced
  <2> QED
    BY <2>4 DEF Keeping
<1>5. CASE c.expects = "member"
  <2>1. ReadToken(c, token) = IF token.kind = Close(c) THEN ListEnd(c)
                              ELSE IF Top(c).named THEN ParseName(MemberBegun(c), token)
                              ELSE ParseValue(MemberBegun(c), token)
    BY <1>5 DEF ReadToken
  <2>2. /\ Top(c).named  => Keeping(ParseName(MemberBegun(c), token), text, n + 1)
        /\ ~Top(c).named => Keeping(ParseValue(MemberBegun(c), token), text, n + 1)
    BY <1>5, FirstPlaced
  <2>3. CASE token.kind = Close(c)
    BY <1>4, <1>5, <2>1, <2>3
  <2>4. CASE token.kind # Close(c) /\ Top(c).named
    BY <2>1, <2>2, <2>4
  <2>5. CASE token.kind # Close(c) /\ ~Top(c).named
    BY <2>1, <2>2, <2>5
  <2> QED
    BY <2>3, <2>4, <2>5
<1>6. CASE c.expects = "comma"
  <2>1. ReadToken(c, token) = IF token.kind = "," THEN MemberBegun(c)
                              ELSE IF token.kind = Close(c) THEN ListEnd(c)
                              ELSE Refused(c)
    BY <1>6 DEF ReadToken
  <2>2. CASE token.kind = ","
    <3>1. token = Token(",")
      BY <2>2, TokenIs
    <3>2. n + 1 \in Nat /\ BeginsAt(c, text, n, n + 1)
      <4>1. n \in Nat
        BY DEF Placed
      <4>2. TokenAt(text, n + 1) = Token(",")
        BY <3>1
      <4> DEFINE z == n + 1
      <4>3. z \in Nat /\ z = n + 1
        BY <4>1
      <4>4. TokenAt(text, z) = Token(",")
        BY <4>2
      <4> HIDE DEF z
      <4>5. BeginsAt(c, text, n, z)
        BY <1>6, <4>3, <4>4 DEF BeginsAt
      <4> QED
        BY <4>3, <4>5 DEF z
    <3>3. \E d : Placed(MemberBegun(c), d, text, n + 1)
      BY <1>6, <3>2, MemberPlaced
    <3> QED
      BY <2>1, <2>2, <3>3 DEF Keeping
  <2>3. CASE token.kind # "," /\ token.kind = Close(c)
    BY <1>4, <1>6, <2>1, <2>3
  <2>4. CASE token.kind # "," /\ token.kind # Close(c)
    <3>1. ReadToken(c, token) = Refused(c)
      BY <2>1, <2>4
    <3> QED
      BY <1>0, <3>1, RefusedKeeps
  <2> QED
    BY <2>2, <2>3, <2>4
<1> QED
  BY <1>1, <1>2, <1>3, <1>5, <1>6 DEF Expected

\* A token is counted once, when it has been read.
LEMMA ValueCounts ==
  ASSUME NEW c, IsParser(c), NEW token
  PROVE  ParseValue(c, token).read = c.read
<1>1. ASSUME NEW heap PROVE Returned(c, heap).read = c.read
  <2> DEFINE next == IF c.frames = <<>> THEN "nothing" ELSE "comma"
  <2>1. Returned(c, heap) = [c EXCEPT !.heap = heap, !.expects = next]
    BY DEF Returned
  <2> HIDE DEF next
  <2> QED
    BY <2>1 DEF IsParser
<1>2. ASSUME NEW named \in BOOLEAN PROVE ListBegun(c, named).read = c.read
  BY DEF ListBegun, Refused, IsParser
<1>3. Refused(c).read = c.read
  BY DEF Refused, IsParser
<1>4. \/ \E heap : ParseValue(c, token) = Returned(c, heap)
      \/ \E named \in BOOLEAN : ParseValue(c, token) = ListBegun(c, named)
      \/ ParseValue(c, token) = Refused(c)
  BY DEF ParseValue, ParseArray, ParseObject
<1> QED
  BY <1>1, <1>2, <1>3, <1>4

\* Reading a name does not count a token either.
LEMMA NameCounts ==
  ASSUME NEW c, IsParser(c), NEW token
  PROVE  ParseName(c, token).read = c.read
  BY DEF ParseName, Refused, IsParser

\* No line of the parser counts what it reads: Advanced does.
LEMMA TokenCounts ==
  ASSUME NEW c, NEW m, Standing(c, m), c.expects \in Expected \ {"nothing"}, NEW token
  PROVE  ReadToken(c, token).read = c.read
<1>1. IsParser(c)
  BY DEF Standing
<1>2. Refused(c).read = c.read /\ [c EXCEPT !.expects = "value"].read = c.read
  BY <1>1 DEF Refused, IsParser
<1>3. ListEnd(c).read = c.read
  BY <1>1, ListEndIs
<1>4. ASSUME c.expects \in {"member", "comma"}
      PROVE  IsParser(MemberBegun(c)) /\ MemberBegun(c).read = c.read
  BY <1>4, MemberIs
<1>5. CASE c.expects = "value"
  <2>1. ReadToken(c, token) = ParseValue(c, token)
    BY <1>5 DEF ReadToken
  <2> QED
    BY <1>1, <2>1, ValueCounts
<1>6. CASE c.expects = "name"
  <2>1. ReadToken(c, token) = ParseName(c, token)
    BY <1>6 DEF ReadToken
  <2> QED
    BY <1>1, <2>1, NameCounts
<1>7. CASE c.expects = "colon"
  <2>1. ReadToken(c, token) \in {[c EXCEPT !.expects = "value"], Refused(c)}
    BY <1>7 DEF ReadToken
  <2> QED
    BY <1>2, <2>1
<1>8. CASE c.expects = "member"
  <2> DEFINE b == MemberBegun(c)
  <2>1. ReadToken(c, token) \in {ListEnd(c), ParseName(b, token), ParseValue(b, token)}
    BY <1>8 DEF ReadToken
  <2>2. IsParser(b) /\ b.read = c.read
    BY <1>4, <1>8
  <2> HIDE DEF b
  <2>3. ParseName(b, token).read = c.read /\ ParseValue(b, token).read = c.read
    BY <2>2, NameCounts, ValueCounts
  <2> QED
    BY <1>3, <2>1, <2>3
<1>9. CASE c.expects = "comma"
  <2>1. ReadToken(c, token) \in {MemberBegun(c), ListEnd(c), Refused(c)}
    BY <1>9 DEF ReadToken
  <2>2. MemberBegun(c).read = c.read
    BY <1>4, <1>9
  <2> QED
    BY <1>2, <1>3, <2>1, <2>2
<1> QED
  BY <1>5, <1>6, <1>7, <1>8, <1>9 DEF Expected

\* Counting a token leaves all places as they were.
LEMMA CountedKeeps ==
  ASSUME NEW c, IsParser(c), NEW text, NEW n, Keeping(c, text, n)
  PROVE  Keeping(Counted(c), text, n) /\ Counted(c).read = c.read + 1
<1> DEFINE d == Counted(c)
           count == c.read + 1
<1>1. d = [c EXCEPT !.read = count]
  BY DEF Counted
<1> HIDE DEF count, d
<1>2. /\ d.item = c.item /\ d.heap = c.heap /\ d.frames = c.frames
      /\ d.expects = c.expects /\ d.read = count
  BY <1>1 DEF IsParser
<1>3. Top(d) = Top(c)
  BY <1>2 DEF Top
<1>4. Current(d) = Current(c)
  BY <1>2, <1>3 DEF Current
<1>5. /\ OpenItems(d) = OpenItems(c) /\ Nameless(d) = Nameless(c) /\ Colonless(d) = Colonless(c)
      /\ (Pending(d) <=> Pending(c))
  BY <1>2, <1>4 DEF OpenItems, Nameless, Colonless, Pending
<1>6. ASSUME NEW g, Placed(c, g, text, n) PROVE Placed(d, g, text, n)
  <2>1. StandsAt(d, g, n)
    <3>1. StandsAt(c, g, n)
      BY <1>6 DEF Placed
    <3> QED
      BY <1>2, <1>3, <1>4, <3>1 DEF StandsAt
  <2> QED
    BY <1>2, <1>4, <1>5, <1>6, <2>1 DEF Placed
<1>7. Keeping(d, text, n)
  BY <1>2, <1>6 DEF Keeping
<1> QED
  BY <1>2, <1>7 DEF d, count

\* A parser that has kept what it has read keeps the next token.
KeptTo(c, text, n) == Keeping(c, text, c.read) /\ (~Ended(c) => c.read = n)

\* Every token that is read is kept in its place.
LEMMA AdvancedKeeps ==
  ASSUME NEW c, Reads(c), NEW text, NEW n, KeptTo(c, text, n),
         NEW token, IsToken(token), TokenAt(text, n + 1) = token
  PROVE  KeptTo(Advanced(c, token), text, n + 1)
<1>1. CASE Ended(c)
  <2>1. Advanced(c, token) = c
    BY <1>1 DEF Advanced, Ended
  <2> QED
    BY <1>1, <2>1 DEF KeptTo
<1>2. CASE ~Ended(c)
  <2> DEFINE d == ReadToken(c, token)
             next == Counted(d)
  <2>1. PICK m : Standing(c, m)
    BY <1>2 DEF Ended, Reads
  <2>2. c.expects \in Expected \ {"nothing"} /\ c.expects # "refused"
    BY <1>2 DEF Ended, Reads
  <2>3. c.read = n /\ \E g : Placed(c, g, text, n)
    BY <1>2, <2>2 DEF KeptTo, Keeping
  <2>4. Keeping(d, text, n + 1)
    BY <2>1, <2>2, <2>3, TokenPlaced
  <2>5. d.read = n
    BY <2>1, <2>2, <2>3, TokenCounts
  <2>6. IsParser(d)
    <3>1. Reads(d)
      BY <2>1, <2>2, TokenReads
    <3> QED
      BY <3>1 DEF Reads, Left, Standing
  <2>7. Advanced(c, token) = next
    BY <1>2 DEF Advanced, Ended, Counted
  <2> HIDE DEF d
  <2>8. Keeping(next, text, n + 1) /\ next.read = n + 1
    BY <2>4, <2>5, <2>6, CountedKeeps
  <2> QED
    BY <2>7, <2>8 DEF KeptTo
<1> QED
  BY <1>1, <1>2

\* A text that is read whole is kept in its places.
LEMMA ReadKeeps ==
  ASSUME NEW c, Reads(c), NEW Tokens, NEW text \in Seq(Tokens),
         \A i \in DOMAIN text : IsToken(text[i]), KeptTo(c, text, 0)
  PROVE  Keeping(Read(c, text), text, Read(c, text).read)
<1> DEFINE size == Len(text)
<1>1. size \in Nat /\ size + 1 \in Nat
  BY LenProperties
<1>2. PICK part : IsParse(c, text, part) /\ Read(c, text) = part[size + 1]
  BY ReadSteps
<1>3. \A i \in Nat : IsToken(TokenAt(text, i))
  <2>1. IsToken(Token("end"))
    BY DEF IsToken, Token
  <2> QED
    BY <2>1 DEF TokenAt
<1> DEFINE Q == {n \in Nat : n <= size + 1 => Reads(part[n]) /\ KeptTo(part[n], text, n)}
<1>4. 0 \in Q
  BY <1>2 DEF IsParse
<1>5. ASSUME NEW n \in Nat, n \in Q PROVE n + 1 \in Q
  <2> SUFFICES ASSUME n + 1 <= size + 1
               PROVE  Reads(part[n + 1]) /\ KeptTo(part[n + 1], text, n + 1)
    OBVIOUS
  <2> DEFINE token == TokenAt(text, n + 1)
  <2>1. n \in 0 .. size /\ n <= size + 1
    BY <1>1
  <2>2. part[n + 1] = Advanced(part[n], token)
    BY <1>2, <2>1 DEF IsParse
  <2>3. Reads(part[n]) /\ KeptTo(part[n], text, n)
    BY <1>5, <2>1
  <2>4. IsToken(token) /\ TokenAt(text, n + 1) = token
    BY <1>3
  <2> HIDE DEF token
  <2>5. KeptTo(Advanced(part[n], token), text, n + 1)
    BY <2>3, <2>4, AdvancedKeeps
  <2> QED
    BY <2>2, <2>3, <2>5, AdvancedReads
<1> HIDE DEF Q
<1>6. size + 1 \in Q
  BY <1>1, <1>4, <1>5, Inductive
<1>7. KeptTo(part[size + 1], text, size + 1)
  BY <1>1, <1>6 DEF Q
<1> QED
  BY <1>2, <1>7 DEF KeptTo

\* Nothing has been read of a root that is made.
LEMMA RootPlaced ==
  ASSUME NEW text
  PROVE  LET root == NewItem(EmptyHeap, EmptyItem)
         IN  KeptTo(Parser(root.heap, root.item), text, 0)
<1> DEFINE h == NewItem(EmptyHeap, EmptyItem).heap
           c == Parser(h, 1)
           r == [up |-> 0, list |-> "Array", start |-> 0, begin |-> 0, end |-> 0]
           g == [y \in {1} |-> r]
<1>1. /\ ItemsIn(h) = {1} /\ h.blocks[1] = EmptyItem /\ NewItem(EmptyHeap, EmptyItem).item = 1
      /\ EmptyItem.next = NULL
  BY RootStands DEF EmptyItem
<1>2. g[1] = r /\ IsPlace(r) /\ r.begin = 0
  BY DEF IsPlace, Lists
<1> HIDE DEF h, r, g
<1>3. c.heap = h /\ c.item = 1 /\ c.frames = <<>> /\ c.expects = "value" /\ c.read = 0
  BY DEF Parser
<1> HIDE DEF c
<1>4. Current(c) = 1 /\ Pending(c) /\ FrameItems(c.frames) = {}
  BY <1>3, EmptySeq DEF Current, Pending, FrameItems
<1>5. OpenItems(c) = {1} /\ Nameless(c) = {} /\ Colonless(c) = {}
  BY <1>3, <1>4 DEF OpenItems, Nameless, Colonless
<1>6. Places(h, g, text, {1}, {}, {})
  BY <1>1, <1>2 DEF Places
<1>7. FramesPlaced(h, g, text, c.frames)
  BY <1>3, EmptySeq DEF FramesPlaced
<1>8. StandsAt(c, g, 0)
  BY <1>2, <1>3, <1>4 DEF StandsAt
<1>9. Placed(c, g, text, 0)
  BY <1>1, <1>3, <1>5, <1>6, <1>7, <1>8 DEF Placed
<1>10. KeptTo(c, text, 0)
  BY <1>3, <1>9 DEF KeptTo, Keeping
<1> QED
  BY <1>1, <1>10 DEF c, h

\* cJSON_Parse, cJSON_Print and cJSON_Delete, of any text: what is built of it
\* prints as the text that has been read, and is freed to the last block; of a
\* text that is refused nothing is left behind.
THEOREM ParsedIsClean ==
  ASSUME NEW Tokens, NEW text \in Seq(Tokens), \A i \in DOMAIN text : IsToken(text[i])
  PROVE  ParsesCleanly(text)
<1> DEFINE root == NewItem(EmptyHeap, EmptyItem)
           b == Parser(root.heap, root.item)
           c == Read(b, text)
           result == Parse(EmptyHeap, text)
<1>1. Reads(b) /\ KeptTo(b, text, 0)
  <2>1. Standing(b, 1)
    BY RootStands
  <2>2. b.expects = "value"
    BY DEF Parser
  <2>3. KeptTo(b, text, 0)
    BY RootPlaced
  <2> QED
    BY <2>1, <2>2, <2>3 DEF Reads, Expected
<1> HIDE DEF b
<1>2. Reads(c) /\ Keeping(c, text, c.read)
  BY <1>1, ReadEnds, ReadKeeps
<1>3. result = IF c.expects = "nothing"
               THEN [heap |-> c.heap, item |-> c.item, end |-> c.read + 1]
               ELSE [heap |-> Delete(Unwound(c), c.item), item |-> NULL, end |-> c.read]
  BY DEF Parse, b
<1>4. IF result.item = NULL THEN result.heap = EmptyHeap
      ELSE Delete(result.heap, result.item) = EmptyHeap
  BY ParsedIsFreed
<1> HIDE DEF c, result
<1>5. ASSUME result.item # NULL
      PROVE  Printed(result.heap, result.item) = SubSeq(text, 1, result.end - 1)
  <2>1. c.expects = "nothing"
    BY <1>3, <1>5
  <2>2. PICK m : Standing(c, m)
    BY <1>2, <2>1 DEF Reads
  <2>3. c.item = 1 /\ Forest(c.heap, m, Roots(c)) /\ Len(c.frames) = 0
    BY <2>1, <2>2 DEF Standing
  <2>4. PICK g : Placed(c, g, text, c.read)
    BY <1>2, <2>1 DEF Keeping
  <2>5. ~Pending(c) /\ FrameItems(c.frames) = {}
    BY <2>1, <2>3 DEF Pending, FrameItems
  <2>6. /\ OpenPlaces(c.heap, g, text, FrameItems(c.frames))
        /\ StandsAt(c, g, c.read) /\ c.read \in Nat
    BY <2>4, <2>5, ListsOpen
  <2>7. Settled(c.heap, g, text)
    BY <2>5, <2>6 DEF OpenPlaces, Settled
  <2>8. Roots(c) = {1}
    BY <2>3 DEF Roots, Heads
  <2>9. Forest(c.heap, m, {1})
    BY <2>3, <2>8
  <2>10. Printed(c.heap, 1) = SubSeq(text, 1, g[1].end)
    BY <2>7, <2>9, SettledPrints
  <2>11. g[1].end = c.read
    BY <2>1, <2>6 DEF StandsAt
  <2>12. result.heap = c.heap /\ result.item = 1 /\ result.end = c.read + 1
    BY <1>3, <2>1, <2>3
  <2>13. result.end - 1 = c.read
    BY <2>6, <2>12
  <2> QED
    BY <2>10, <2>11, <2>12, <2>13
<1> QED
  BY <1>4, <1>5 DEF ParsesCleanly, result
=============================================================================
