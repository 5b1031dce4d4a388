----------------------------- MODULE HeapProofs -----------------------------
(***************************************************************************)
(* Theorems about the allocator.                                           *)
(***************************************************************************)
EXTENDS Mm, Numbers, SequenceTheorems, FiniteSetTheorems

-----------------------------------------------------------------------------
(* Slots, blocks and memory                                                *)

Low(e, n) == e[n][1]
High(e, n) == e[n][1] + e[n][2]
Start(e, n) == IF n \in DOMAIN e THEN Low(e, n) ELSE 0

\* The slots that format has been given: large enough, and no two of them touch.
Apart(e) ==
  /\ \E N \in Nat : DOMAIN e = 1 .. N
  /\ \A n \in DOMAIN e : Low(e, n) \in Nat \ {0} /\ High(e, n) \in Nat /\ High(e, n) > Low(e, n)
  /\ \A n, k \in DOMAIN e : n # k => High(e, n) < Low(e, k) \/ High(e, k) < Low(e, n)

\* A block as the allocator means it.
Blk(size, prev, next, type, used) ==
  [size |-> size, prev |-> prev, next |-> next, type |-> type, used |-> used]

BlockSet == [size : Nat, prev : Int, next : Int, type : {Free, Use}, used : Nat]

\* How it lies in memory.
Word(m, a, v) == a \in DOMAIN m /\ m[a] = v

Lies(m, b, size, prev, next, type, used) ==
  /\ Word(m, b, size) /\ Word(m, b + 8, Signature)
  /\ Word(m, b + 16, prev) /\ Word(m, b + 24, next)
  /\ Word(m, b + 32, type) /\ Word(m, b + 40, size - OverheadSize)
  /\ Word(m, b + 48, 0) /\ Word(m, b + 56, used)
  /\ Word(m, b + size - 8, size)

Block(m, b, x) == Lies(m, b, x.size, x.prev, x.next, x.type, x.used)

Rep(m, H) == \A b \in DOMAIN H : Block(m, b, H[b])

\* The blocks H tile the slots e.
BlocksAre(H) ==
  \A b \in DOMAIN H : /\ b \in Nat \ {0} /\ H[b] \in BlockSet
                      /\ H[b].size >= OverheadSize /\ H[b].used <= H[b].size - OverheadSize
InSlots(H, e) == \A b \in DOMAIN H : \E n \in DOMAIN e : Low(e, n) <= b /\ b + H[b].size <= High(e, n)
Disjoint(H) == \A b, c \in DOMAIN H : b < c => b + H[b].size <= c
SlotsBegin(H, e) == \A n \in DOMAIN e : Low(e, n) \in DOMAIN H /\ H[Low(e, n)].prev = Start(e, n - 1)
Joined(H, e) == \A b \in DOMAIN H : \/ \E n \in DOMAIN e : b = Low(e, n)
                                    \/ \E q \in DOMAIN H : q + H[q].size = b
Linked(H, e) == \A b \in DOMAIN H :
                  \/ b + H[b].size \in DOMAIN H /\ H[b].next = b + H[b].size
                  \/ \E n \in DOMAIN e : b + H[b].size = High(e, n) /\ H[b].next = Start(e, n + 1)
Tiles(H, e) == BlocksAre(H) /\ InSlots(H, e) /\ Disjoint(H) /\ SlotsBegin(H, e) /\ Joined(H, e) /\ Linked(H, e)

\* What programs hold is what is in use.
Holds(H, l) == DOMAIN l = {b \in DOMAIN H : H[b].type = Use} /\ \A b \in DOMAIN l : l[b] = H[b].used

\* The allocator's words are numbers, and all in the slots.
MemOK(m, e) ==
  /\ IsFiniteSet(DOMAIN m)
  /\ \A a \in DOMAIN m : a \in Int /\ m[a] \in Int /\ \E n \in DOMAIN e : Low(e, n) <= a /\ a + 8 <= High(e, n)

Sound(m, l, e, H) == Apart(e) /\ MemOK(m, e) /\ Rep(m, H) /\ Tiles(H, e) /\ Holds(H, l)
HeapSound(m, l, e) == \E H : Sound(m, l, e, H)

-----------------------------------------------------------------------------
(* Tilings                                                                 *)

LEMMA BlkIs ==
  ASSUME NEW s, NEW pr, NEW nx, NEW t, NEW u
  PROVE  LET x == Blk(s, pr, nx, t, u) IN x.size = s /\ x.prev = pr /\ x.next = nx /\ x.type = t /\ x.used = u
BY DEF Blk

\* Block q and all that lies behind it up to hi become one block.
Absorbed(H, q, hi, x) == [b \in {d \in DOMAIN H : d <= q \/ d >= hi} |-> IF b = q THEN x ELSE H[b]]

LEMMA AbsorbTiles ==
  ASSUME NEW H, NEW e, Apart(e), Tiles(H, e), NEW q \in DOMAIN H, NEW c \in DOMAIN H, q <= c,
         NEW n \in DOMAIN e, Low(e, n) <= q, c + H[c].size <= High(e, n),
         NEW t \in {Free, Use}, NEW u \in Nat, NEW hi, hi = c + H[c].size, u <= hi - q - OverheadSize
  PROVE  Tiles(Absorbed(H, q, hi, Blk(hi - q, H[q].prev, H[c].next, t, u)), e)
<1>1. hi = c + H[c].size
  OBVIOUS
<1>2. PICK z : z = Blk(hi - q, H[q].prev, H[c].next, t, u)
  OBVIOUS
<1> DEFINE K == Absorbed(H, q, hi, z)
<1>3. q \in Nat \ {0} /\ c \in Nat /\ hi \in Nat /\ H[q] \in BlockSet /\ H[c] \in BlockSet
      /\ H[c].size >= 72 /\ H[q].size >= 72 /\ q + H[q].size <= hi
  BY <1>1 DEF Tiles, BlocksAre, Disjoint, OverheadSize, BlockSet
<1>4. DOMAIN K = {x \in DOMAIN H : x <= q \/ x >= hi} /\ K[q] = z
      /\ \A b \in DOMAIN K : b # q => K[b] = H[b]
  BY <1>3 DEF Absorbed
<1>5. z.size = hi - q /\ z.prev = H[q].prev /\ z.next = H[c].next /\ z.type = t /\ z.used = u
  BY <1>2, BlkIs
<1>6. \A b \in DOMAIN H : b \in Nat /\ H[b].size \in Nat /\ H[b].size >= 72
  BY DEF Tiles, BlocksAre, OverheadSize, BlockSet
<1> HIDE DEF K
<1>7. q \in DOMAIN K /\ DOMAIN K \subseteq DOMAIN H
  BY <1>3, <1>4
<1>8. BlocksAre(K)
  <2>1. z \in BlockSet
    BY <1>1, <1>2, <1>3 DEF Blk, BlockSet
  <2>2. ASSUME NEW b \in DOMAIN K
        PROVE /\ b \in Nat \ {0} /\ K[b] \in BlockSet
              /\ K[b].size >= OverheadSize /\ K[b].used <= K[b].size - OverheadSize
    <3>1. CASE b = q
      BY <1>1, <1>3, <1>4, <1>5, <2>1, <3>1 DEF OverheadSize, BlockSet
    <3>2. CASE b # q
      BY <1>4, <1>7, <3>2 DEF Tiles, BlocksAre
    <3>3. QED
      BY <3>1, <3>2
  <2>3. QED
    BY <2>2 DEF BlocksAre
<1>9. InSlots(K, e)
  <2>1. ASSUME NEW b \in DOMAIN K PROVE \E k \in DOMAIN e : Low(e, k) <= b /\ b + K[b].size <= High(e, k)
    <3>1. CASE b = q
      BY <1>1, <1>3, <1>4, <1>5, <3>1
    <3>2. CASE b # q
      BY <1>4, <1>7, <3>2 DEF Tiles, InSlots
    <3>3. QED
      BY <3>1, <3>2
  <2>2. QED
    BY <2>1 DEF InSlots
<1>10. Disjoint(K)
  <2>1. ASSUME NEW b \in DOMAIN K, NEW d \in DOMAIN K, b < d PROVE b + K[b].size <= d
    <3>1. b + H[b].size <= d /\ b \in Nat /\ d \in Nat
      BY <1>6, <1>7, <2>1 DEF Tiles, Disjoint
    <3>2. CASE b = q
      BY <1>3, <1>4, <1>5, <1>7, <2>1, <3>1, <3>2
    <3>3. CASE b # q
      BY <1>4, <3>1, <3>3
    <3>4. QED
      BY <3>2, <3>3
  <2>2. QED
    BY <2>1 DEF Disjoint
<1>11. SlotsBegin(K, e)
  <2>1. ASSUME NEW k \in DOMAIN e PROVE Low(e, k) \in DOMAIN K /\ K[Low(e, k)].prev = Start(e, k - 1)
    <3>1. Low(e, k) \in DOMAIN H /\ H[Low(e, k)].prev = Start(e, k - 1) /\ Low(e, k) \in Nat /\ High(e, k) \in Nat
      BY DEF Tiles, SlotsBegin, Apart
    <3>2. Low(e, k) <= q \/ Low(e, k) >= hi
      <4>1. CASE k = n
        BY <4>1
      <4>2. CASE k # n
        <5>1. High(e, n) < Low(e, k) \/ High(e, k) < Low(e, n)
          BY <4>2 DEF Apart
        <5>2. Low(e, n) \in Nat /\ High(e, n) \in Nat /\ Low(e, k) < High(e, k)
          BY DEF Apart
        <5>3. QED
          BY <1>1, <1>3, <3>1, <5>1, <5>2
      <4>3. QED
        BY <4>1, <4>2
    <3>3. Low(e, k) \in DOMAIN K
      BY <1>4, <3>1, <3>2
    <3>4. QED
      BY <1>4, <1>5, <3>1, <3>3
  <2>2. QED
    BY <2>1 DEF SlotsBegin
<1>12. Joined(K, e)
  <2>1. ASSUME NEW b \in DOMAIN K, NEW a \in DOMAIN H, a + H[a].size = b
        PROVE  \E d \in DOMAIN K : d + K[d].size = b
    <3>1. CASE a \in DOMAIN K /\ a # q
      BY <1>4, <2>1, <3>1
    <3>2. CASE a = q \/ a \notin DOMAIN K
      <4>1. a \in Nat /\ b \in Nat /\ H[a].size >= 72 /\ H[a].size \in Nat /\ a >= q /\ a < hi
        BY <1>1, <1>3, <1>4, <1>6, <1>7, <3>2
      <4>2. b <= hi
        <5>1. a <= c
          <6>1. c < a => hi <= a
            BY <1>1 DEF Tiles, Disjoint
          <6>2. QED
            BY <1>3, <4>1, <6>1
        <5>2. CASE a = c
          BY <1>1, <1>3, <2>1, <5>2
        <5>3. CASE a < c
          <6>1. a + H[a].size <= c
            BY <5>3 DEF Tiles, Disjoint
          <6>2. QED
            BY <1>1, <1>3, <1>6, <2>1, <6>1
        <5>4. QED
          BY <1>3, <4>1, <5>1, <5>2, <5>3
      <4>3. b > q /\ b = hi
        BY <1>3, <1>4, <2>1, <4>1, <4>2
      <4>4. q + K[q].size = b
        BY <1>3, <1>4, <1>5, <4>3
      <4>5. QED
        BY <1>7, <4>4
    <3>3. QED
      BY <3>1, <3>2
  <2>2. QED
    BY <1>7, <2>1 DEF Tiles, Joined
<1>13. Linked(K, e)
  <2>1. ASSUME NEW b \in DOMAIN K
        PROVE  \/ b + K[b].size \in DOMAIN K /\ K[b].next = b + K[b].size
               \/ \E k \in DOMAIN e : b + K[b].size = High(e, k) /\ K[b].next = Start(e, k + 1)
    <3>1. PICK d \in DOMAIN H : d + H[d].size = b + K[b].size /\ K[b].next = H[d].next
                                /\ (d + H[d].size <= q \/ d + H[d].size >= hi)
      <4>1. CASE b = q
        BY <1>1, <1>3, <1>4, <1>5, <4>1
      <4>2. CASE b # q
        <5>1. K[b] = H[b] /\ b \in DOMAIN H /\ (b < q \/ b >= hi) /\ b \in Nat /\ H[b].size \in Nat
          BY <1>3, <1>4, <1>6, <1>7, <4>2
        <5>2. b + H[b].size <= q \/ b + H[b].size >= hi
          BY <1>3, <5>1 DEF Tiles, Disjoint
        <5>3. QED
          BY <5>1, <5>2
      <4>3. QED
        BY <4>1, <4>2
    <3>2. CASE d + H[d].size \in DOMAIN H /\ H[d].next = d + H[d].size
      BY <1>4, <3>1, <3>2
    <3>3. CASE \E k \in DOMAIN e : d + H[d].size = High(e, k) /\ H[d].next = Start(e, k + 1)
      BY <3>1, <3>3
    <3>4. QED
      BY <3>2, <3>3 DEF Tiles, Linked
  <2>2. QED
    BY <2>1 DEF Linked
<1> QED
  BY <1>2, <1>8, <1>9, <1>10, <1>11, <1>12, <1>13 DEF Tiles, K

\* Block q is cut in two, of which the second has size r.
Cut(H, q, x, y) == [b \in DOMAIN H \cup {q + x.size} |-> IF b = q THEN x ELSE IF b = q + x.size THEN y ELSE H[b]]

LEMMA CutTiles ==
  ASSUME NEW H, NEW e, Apart(e), Tiles(H, e), NEW q \in DOMAIN H, NEW s \in Nat, NEW r \in Nat,
         s >= OverheadSize, r >= OverheadSize, H[q].size = s + r,
         NEW t \in {Free, Use}, NEW u \in Nat, u <= s - OverheadSize
  PROVE  Tiles(Cut(H, q, Blk(s, H[q].prev, q + s, t, u), Blk(r, q, H[q].next, Free, 0)), e)
<1>1. PICK x : x = Blk(s, H[q].prev, q + s, t, u)
  OBVIOUS
<1>2. PICK y : y = Blk(r, q, H[q].next, Free, 0)
  OBVIOUS
<1>3. PICK p2 : p2 = q + s
  OBVIOUS
<1> DEFINE K == Cut(H, q, x, y)
<1>4. q \in Nat \ {0} /\ p2 \in Nat \ {0} /\ p2 # q /\ H[q] \in BlockSet /\ s >= 72 /\ r >= 72 /\ p2 + r = q + H[q].size
  BY <1>3 DEF Tiles, BlocksAre, OverheadSize, BlockSet
<1>5. /\ x.size = s /\ x.prev = H[q].prev /\ x.next = p2 /\ x.type = t /\ x.used = u
      /\ y.size = r /\ y.prev = q /\ y.next = H[q].next /\ y.type = Free /\ y.used = 0
  BY <1>1, <1>2, <1>3, BlkIs
<1>6. \A b \in DOMAIN H : b \in Nat /\ H[b].size \in Nat /\ H[b].size >= 72
  BY DEF Tiles, BlocksAre, OverheadSize, BlockSet
<1>7. p2 \notin DOMAIN H
  BY <1>3, <1>4, <1>6 DEF Tiles, Disjoint
<1>8. DOMAIN K = DOMAIN H \cup {p2} /\ K[q] = x /\ K[p2] = y
      /\ \A b \in DOMAIN K : b # q /\ b # p2 => b \in DOMAIN H /\ K[b] = H[b]
  BY <1>3, <1>4, <1>5 DEF Cut
<1> HIDE DEF K
<1>9. BlocksAre(K)
  <2>1. x \in BlockSet /\ y \in BlockSet
    BY <1>1, <1>2, <1>3, <1>4 DEF Blk, BlockSet, Free
  <2>2. ASSUME NEW b \in DOMAIN K
        PROVE /\ b \in Nat \ {0} /\ K[b] \in BlockSet
              /\ K[b].size >= OverheadSize /\ K[b].used <= K[b].size - OverheadSize
    <3>1. CASE b = q
      BY <1>4, <1>5, <1>8, <2>1, <3>1
    <3>2. CASE b = p2
      BY <1>4, <1>5, <1>8, <2>1, <3>2 DEF OverheadSize
    <3>3. CASE b # q /\ b # p2
      BY <1>8, <3>3 DEF Tiles, BlocksAre
    <3>4. QED
      BY <3>1, <3>2, <3>3
  <2>3. QED
    BY <2>2 DEF BlocksAre
<1>10. InSlots(K, e)
  <2>1. ASSUME NEW b \in DOMAIN K PROVE \E k \in DOMAIN e : Low(e, k) <= b /\ b + K[b].size <= High(e, k)
    <3>1. CASE b = q \/ b = p2
      <4>1. PICK k \in DOMAIN e : Low(e, k) <= q /\ q + H[q].size <= High(e, k)
        BY DEF Tiles, InSlots
      <4>2. Low(e, k) \in Nat /\ High(e, k) \in Nat
        BY DEF Apart
      <4>3. Low(e, k) <= b /\ b + K[b].size <= High(e, k)
        BY <1>3, <1>4, <1>5, <1>8, <3>1, <4>1, <4>2
      <4>4. QED
        BY <4>3
    <3>2. CASE b # q /\ b # p2
      BY <1>8, <3>2 DEF Tiles, InSlots
    <3>3. QED
      BY <3>1, <3>2
  <2>2. QED
    BY <2>1 DEF InSlots
<1>11. Disjoint(K)
  <2>1. ASSUME NEW b \in DOMAIN K, NEW d \in DOMAIN K, b < d PROVE b + K[b].size <= d
    <3>1. CASE b \in DOMAIN H /\ d \in DOMAIN H
      <4>1. b + H[b].size <= d /\ b \in Nat /\ d \in Nat /\ H[b].size \in Nat
        BY <1>6, <2>1, <3>1 DEF Tiles, Disjoint
      <4>2. K[b].size <= H[b].size /\ K[b].size \in Nat
        BY <1>3, <1>4, <1>5, <1>6, <1>7, <1>8, <3>1
      <4>3. QED
        BY <4>1, <4>2
    <3>2. CASE b = p2
      <4>1. d \in DOMAIN H /\ q < d
        BY <1>3, <1>4, <1>6, <1>8, <2>1, <3>2
      <4>2. q + H[q].size <= d
        BY <4>1 DEF Tiles, Disjoint
      <4>3. QED
        <5>1. K[b].size = r /\ b + r = q + H[q].size
          BY <1>4, <1>5, <1>8, <3>2
        <5>2. QED
          BY <4>2, <5>1
    <3>3. CASE d = p2 /\ b # p2
      <4>1. b \in DOMAIN H /\ b \in Nat
        BY <1>6, <1>8, <3>3
      <4>2. CASE b = q
        BY <1>3, <1>4, <1>5, <1>8, <3>3, <4>2
      <4>3. CASE b # q
        <5>1. b < q => b + H[b].size <= q
          BY <4>1 DEF Tiles, Disjoint
        <5>2. q < b => q + H[q].size <= b
          BY <4>1 DEF Tiles, Disjoint
        <5>3. K[b] = H[b]
          BY <1>8, <3>3, <4>3
        <5>4. QED
          BY <1>3, <1>4, <1>6, <2>1, <3>3, <4>1, <4>3, <5>1, <5>2, <5>3
      <4>4. QED
        BY <4>2, <4>3
    <3>4. QED
      BY <1>8, <3>1, <3>2, <3>3
  <2>2. QED
    BY <2>1 DEF Disjoint
<1>12. SlotsBegin(K, e)
  <2>1. ASSUME NEW k \in DOMAIN e PROVE Low(e, k) \in DOMAIN K /\ K[Low(e, k)].prev = Start(e, k - 1)
    <3>1. Low(e, k) \in DOMAIN H /\ H[Low(e, k)].prev = Start(e, k - 1)
      BY DEF Tiles, SlotsBegin
    <3>2. QED
      BY <1>5, <1>7, <1>8, <3>1
  <2>2. QED
    BY <2>1 DEF SlotsBegin
<1>13. Joined(K, e)
  <2>1. ASSUME NEW b \in DOMAIN K
        PROVE  \/ \E k \in DOMAIN e : b = Low(e, k)
               \/ \E a \in DOMAIN K : a + K[a].size = b
    <3>1. CASE b = p2
      BY <1>3, <1>5, <1>8, <3>1
    <3>2. CASE b # p2 /\ \E k \in DOMAIN e : b = Low(e, k)
      BY <3>2
    <3>3. ASSUME NEW a \in DOMAIN H, a + H[a].size = b
          PROVE  \E d \in DOMAIN K : d + K[d].size = b
      <4>1. CASE a = q
        BY <1>4, <1>5, <1>8, <3>3, <4>1
      <4>2. CASE a # q
        BY <1>7, <1>8, <3>3, <4>2
      <4>3. QED
        BY <4>1, <4>2
    <3>4. QED
      BY <1>8, <3>1, <3>2, <3>3 DEF Tiles, Joined
  <2>2. QED
    BY <2>1 DEF Joined
<1>14. Linked(K, e)
  <2>1. ASSUME NEW b \in DOMAIN K
        PROVE  \/ b + K[b].size \in DOMAIN K /\ K[b].next = b + K[b].size
               \/ \E k \in DOMAIN e : b + K[b].size = High(e, k) /\ K[b].next = Start(e, k + 1)
    <3>1. CASE b = q
      BY <1>3, <1>5, <1>8, <3>1
    <3>2. CASE b # q
      <4>1. PICK d \in DOMAIN H : d + H[d].size = b + K[b].size /\ K[b].next = H[d].next
        <5>1. CASE b = p2
          BY <1>4, <1>5, <1>8, <5>1
        <5>2. CASE b # p2
          BY <1>8, <3>2, <5>2
        <5>3. QED
          BY <5>1, <5>2
      <4>2. QED
        BY <1>8, <4>1 DEF Tiles, Linked
    <3>3. QED
      BY <3>1, <3>2
  <2>2. QED
    BY <2>1 DEF Linked
<1> QED
  BY <1>1, <1>2, <1>3, <1>9, <1>10, <1>11, <1>12, <1>13, <1>14 DEF Tiles, K

\* A block is taken into use, given back, or used to another length.
Retyped(H, q, t, u) == [H EXCEPT ![q] = Blk(H[q].size, H[q].prev, H[q].next, t, u)]

LEMMA RetypeTiles ==
  ASSUME NEW H, NEW e, Tiles(H, e), NEW q \in DOMAIN H, NEW t \in {Free, Use}, NEW u \in Nat,
         u <= H[q].size - OverheadSize
  PROVE  Tiles(Retyped(H, q, t, u), e)
<1>1. PICK x : x = Blk(H[q].size, H[q].prev, H[q].next, t, u)
  OBVIOUS
<1> DEFINE K == [H EXCEPT ![q] = x]
<1>2. x.size = H[q].size /\ x.prev = H[q].prev /\ x.next = H[q].next /\ x.type = t /\ x.used = u
  BY <1>1, BlkIs
<1>3. DOMAIN K = DOMAIN H /\ \A b \in DOMAIN H : /\ K[b].size = H[b].size /\ K[b].prev = H[b].prev
                                               /\ K[b].next = H[b].next
  BY <1>2
<1>4. K[q] = x /\ \A b \in DOMAIN H : b # q => K[b] = H[b]
  OBVIOUS
<1>5. x \in BlockSet
  BY <1>1 DEF Tiles, BlocksAre, Blk, BlockSet
<1> HIDE DEF K
<1>6. BlocksAre(K)
  BY <1>2, <1>3, <1>4, <1>5 DEF Tiles, BlocksAre
<1>7. InSlots(K, e) /\ Disjoint(K) /\ SlotsBegin(K, e)
  BY <1>3 DEF Tiles, InSlots, Disjoint, SlotsBegin
<1>8. Joined(K, e) /\ Linked(K, e)
  BY <1>3 DEF Tiles, Joined, Linked
<1> QED
  BY <1>1, <1>6, <1>7, <1>8 DEF Tiles, K, Retyped

-----------------------------------------------------------------------------
(* Words                                                                   *)

MemVals(m) == IsFiniteSet(DOMAIN m) /\ \A a \in DOMAIN m : a \in Int /\ m[a] \in Int

\* m2 is m but for words from lo to hi.
Changed(m, m2, lo, hi) ==
  /\ MemVals(m2)
  /\ \A a \in DOMAIN m : a < lo \/ a >= hi => Word(m2, a, m[a])
  /\ \A a \in DOMAIN m2 : a \in DOMAIN m \/ (lo <= a /\ a + 8 <= hi)

LEMMA PutIs ==
  ASSUME NEW m, NEW a, NEW v
  PROVE  /\ DOMAIN Put(m, a, v) = DOMAIN m \cup {a}
         /\ Word(Put(m, a, v), a, v)
         /\ \A c \in DOMAIN m : c # a => Word(Put(m, a, v), c, m[c])
BY DEF Put, Word

LEMMA PutKeeps ==
  ASSUME NEW m, NEW a, NEW v, NEW c, NEW w, Word(m, c, w), c # a
  PROVE  Word(Put(m, a, v), c, w)
BY DEF Put, Word

LEMMA PutChanges ==
  ASSUME NEW m, MemVals(m), NEW a \in Int, NEW v \in Int, NEW lo \in Int, NEW hi \in Int, lo <= a, a + 8 <= hi
  PROVE  Changed(m, Put(m, a, v), lo, hi)
<1>1. PICK m2 : m2 = Put(m, a, v)
  OBVIOUS
<1>2. /\ DOMAIN m2 = DOMAIN m \cup {a} /\ Word(m2, a, v)
      /\ \A c \in DOMAIN m : c # a => Word(m2, c, m[c])
  BY <1>1, PutIs
<1>3. IsFiniteSet(DOMAIN m2)
  BY <1>2, FS_AddElement DEF MemVals
<1>4. MemVals(m2)
  BY <1>2, <1>3 DEF MemVals, Word
<1>5. \A c \in DOMAIN m : c < lo \/ c >= hi => Word(m2, c, m[c])
  BY <1>2 DEF MemVals
<1>6. Changed(m, m2, lo, hi)
  BY <1>2, <1>4, <1>5 DEF Changed
<1> QED
  BY <1>1, <1>6

LEMMA ChangedTwice ==
  ASSUME NEW m, NEW m1, NEW m2, NEW lo \in Int, NEW hi \in Int, Changed(m, m1, lo, hi), Changed(m1, m2, lo, hi)
  PROVE  Changed(m, m2, lo, hi)
<1>1. ASSUME NEW a \in DOMAIN m, a < lo \/ a >= hi PROVE Word(m2, a, m[a])
  <2>1. a \in DOMAIN m1 /\ m1[a] = m[a]
    BY <1>1 DEF Changed, Word
  <2>2. Word(m2, a, m1[a])
    BY <1>1, <2>1 DEF Changed
  <2>3. QED
    BY <2>1, <2>2
<1>2. ASSUME NEW a \in DOMAIN m2 PROVE a \in DOMAIN m \/ (lo <= a /\ a + 8 <= hi)
  BY DEF Changed
<1> QED
  BY <1>1, <1>2 DEF Changed

LEMMA ChangedMemOK ==
  ASSUME NEW m, NEW m2, NEW e, NEW lo \in Int, NEW hi \in Int, MemOK(m, e), Changed(m, m2, lo, hi),
         NEW n \in DOMAIN e, Apart(e), Low(e, n) <= lo, hi <= High(e, n)
  PROVE  MemOK(m2, e)
<1>1. Low(e, n) \in Int /\ High(e, n) \in Int
  BY DEF Apart
<1>2. ASSUME NEW a \in DOMAIN m2
      PROVE  a \in Int /\ m2[a] \in Int /\ \E k \in DOMAIN e : Low(e, k) <= a /\ a + 8 <= High(e, k)
  <2>1. a \in Int /\ m2[a] \in Int
    BY DEF Changed, MemVals
  <2>2. CASE a \in DOMAIN m
    BY <2>1, <2>2 DEF MemOK
  <2>3. CASE lo <= a /\ a + 8 <= hi
    <3>1. Low(e, n) <= a /\ a + 8 <= High(e, n)
      BY <1>1, <2>1, <2>3
    <3>2. QED
      BY <2>1, <3>1
  <2>4. QED
    BY <2>2, <2>3 DEF Changed
<1> QED
  BY <1>2 DEF MemOK, Changed, MemVals

LEMMA ChangedWithin ==
  ASSUME NEW m, NEW m2, NEW lo \in Int, NEW hi \in Int, NEW lo2 \in Int, NEW hi2 \in Int, lo2 <= lo, hi <= hi2,
         Changed(m, m2, lo, hi), MemVals(m)
  PROVE  Changed(m, m2, lo2, hi2)
<1>1. ASSUME NEW a \in DOMAIN m, a < lo2 \/ a >= hi2 PROVE Word(m2, a, m[a])
  BY <1>1 DEF Changed, MemVals
<1>2. ASSUME NEW a \in DOMAIN m2 PROVE a \in DOMAIN m \/ (lo2 <= a /\ a + 8 <= hi2)
  BY DEF Changed, MemVals
<1> QED
  BY <1>1, <1>2 DEF Changed

\* A block outside of what is changed is as it was.
LEMMA LiesStays ==
  ASSUME NEW m, NEW m2, NEW b \in Int, NEW s \in Int, s >= 72, NEW pr, NEW nx, NEW t, NEW u,
         Lies(m, b, s, pr, nx, t, u), NEW lo \in Int, NEW hi \in Int,
         Changed(m, m2, lo, hi), b + s <= lo \/ b >= hi
  PROVE  Lies(m2, b, s, pr, nx, t, u)
<1>1. ASSUME NEW a \in Int, NEW v, b <= a, a < b + s, Word(m, a, v) PROVE Word(m2, a, v)
  BY <1>1 DEF Changed, Word
<1> QED
  BY <1>1 DEF Lies

LEMMA BlockStays ==
  ASSUME NEW m, NEW m2, NEW b \in Int, NEW x, x.size \in Int, x.size >= 72, Block(m, b, x), NEW lo \in Int, NEW hi \in Int,
         Changed(m, m2, lo, hi), b + x.size <= lo \/ b >= hi
  PROVE  Block(m2, b, x)
<1>1. ASSUME NEW a \in Int, NEW v, b <= a, a < b + x.size, Word(m, a, v) PROVE Word(m2, a, v)
  BY <1>1 DEF Changed, Word
<1> QED
  BY <1>1 DEF Block, Lies

-----------------------------------------------------------------------------
(* Fields                                                                  *)

Signed(m, b) == b \in Nat \ {0} /\ Word(m, b + 8, Signature)

LEMMA SetIs ==
  ASSUME NEW m, NEW b, Signed(m, b), NEW o, NEW v
  PROVE  Set(m, b, o, v) = Put(m, b + o, v)
BY DEF Set, Genuine, Read, Signed, Word

LEMMA BlockFields ==
  ASSUME NEW m, NEW b \in Nat \ {0}, NEW x, Block(m, b, x)
  PROVE  /\ Signed(m, b) /\ Genuine(m, b)
         /\ TotalSize(m, b) = x.size /\ PrevPos(m, b) = x.prev /\ NextPos(m, b) = x.next
         /\ Type(m, b) = x.type /\ MaxDataLen(m, b) = x.size - OverheadSize
         /\ Read(m, b) = x.size /\ Read(m, b + x.size - 8) = x.size
<1>1. Signed(m, b) /\ Genuine(m, b)
  BY DEF Block, Lies, Signed, Genuine, Read, Word
<1>2. /\ Read(m, b) = x.size /\ Read(m, b + 16) = x.prev /\ Read(m, b + 24) = x.next
      /\ Read(m, b + 32) = x.type /\ Read(m, b + 40) = x.size - OverheadSize
      /\ Read(m, b + x.size - 8) = x.size
  BY DEF Block, Lies, Read, Word
<1>3. b + 0 = b
  OBVIOUS
<1> QED
  BY <1>1, <1>2, <1>3 DEF TotalSize, PrevPos, NextPos, Type, MaxDataLen, Field

LEMMA UsedField ==
  ASSUME NEW m, NEW b \in Nat \ {0}, NEW x, x.used \in Int, Block(m, b, x)
  PROVE  CurrentDataLen(m, b) = x.used
<1>1. Read(m, b + 48) = 0 /\ Read(m, b + 56) = x.used /\ Genuine(m, b)
  BY BlockFields DEF Block, Lies, Read, Word
<1> QED
  BY <1>1 DEF CurrentDataLen, Field

\* What each of the setters does to a block.
LEMMA SetTypeIs ==
  ASSUME NEW m, MemVals(m), NEW b \in Nat \ {0}, NEW s \in Int, s >= 72, NEW pr, NEW nx, NEW t, NEW u,
         Lies(m, b, s, pr, nx, t, u), NEW t2 \in Int
  PROVE  Lies(Set(m, b, 32, t2), b, s, pr, nx, t2, u) /\ Changed(m, Set(m, b, 32, t2), b, b + s)
<1>1. PICK m2 : m2 = Put(m, b + 32, t2)
  OBVIOUS
<1>2. Set(m, b, 32, t2) = m2
  BY <1>1, SetIs DEF Signed, Lies
<1>3. Changed(m, m2, b, b + s)
  BY <1>1, PutChanges
<1>4. Word(m2, b + 32, t2) /\ \A a, w : a # b + 32 /\ Word(m, a, w) => Word(m2, a, w)
  BY <1>1, PutIs, PutKeeps
<1>5. Lies(m2, b, s, pr, nx, t2, u)
  BY <1>4 DEF Lies
<1> QED
  BY <1>2, <1>3, <1>5

LEMMA SetNextIs ==
  ASSUME NEW m, MemVals(m), NEW b \in Nat \ {0}, NEW s \in Int, s >= 72, NEW pr, NEW nx, NEW t, NEW u,
         Lies(m, b, s, pr, nx, t, u), NEW nx2 \in Int
  PROVE  Lies(Set(m, b, 24, nx2), b, s, pr, nx2, t, u) /\ Changed(m, Set(m, b, 24, nx2), b, b + s)
<1>1. PICK m2 : m2 = Put(m, b + 24, nx2)
  OBVIOUS
<1>2. Set(m, b, 24, nx2) = m2
  BY <1>1, SetIs DEF Signed, Lies
<1>3. Changed(m, m2, b, b + s)
  BY <1>1, PutChanges
<1>4. Word(m2, b + 24, nx2) /\ \A a, w : a # b + 24 /\ Word(m, a, w) => Word(m2, a, w)
  BY <1>1, PutIs, PutKeeps
<1>5. Lies(m2, b, s, pr, nx2, t, u)
  BY <1>4 DEF Lies
<1> QED
  BY <1>2, <1>3, <1>5

LEMMA SetP2Is ==
  ASSUME NEW m, MemVals(m), NEW b \in Nat \ {0}, NEW s \in Int, s >= 72, NEW pr, NEW nx, NEW t, NEW u,
         Lies(m, b, s, pr, nx, t, u), NEW u2 \in Int
  PROVE  Lies(Set(m, b, 56, u2), b, s, pr, nx, t, u2) /\ Changed(m, Set(m, b, 56, u2), b, b + s)
<1>1. PICK m2 : m2 = Put(m, b + 56, u2)
  OBVIOUS
<1>2. Set(m, b, 56, u2) = m2
  BY <1>1, SetIs DEF Signed, Lies
<1>3. Changed(m, m2, b, b + s)
  BY <1>1, PutChanges
<1>4. Word(m2, b + 56, u2) /\ \A a, w : a # b + 56 /\ Word(m, a, w) => Word(m2, a, w)
  BY <1>1, PutIs, PutKeeps
<1>5. Lies(m2, b, s, pr, nx, t, u2)
  BY <1>4 DEF Lies
<1> QED
  BY <1>2, <1>3, <1>5

LEMMA SetP1Is ==
  ASSUME NEW m, MemVals(m), NEW b \in Nat \ {0}, NEW s \in Int, s >= 72, NEW pr, NEW nx, NEW t, NEW u,
         Lies(m, b, s, pr, nx, t, u)
  PROVE  Lies(Set(m, b, 48, 0), b, s, pr, nx, t, u) /\ Changed(m, Set(m, b, 48, 0), b, b + s)
<1>1. PICK m2 : m2 = Put(m, b + 48, 0)
  OBVIOUS
<1>2. Set(m, b, 48, 0) = m2
  BY <1>1, SetIs DEF Signed, Lies
<1>3. Changed(m, m2, b, b + s)
  BY <1>1, PutChanges
<1>4. Word(m2, b + 48, 0) /\ \A a, w : a # b + 48 /\ Word(m, a, w) => Word(m2, a, w)
  BY <1>1, PutIs, PutKeeps
<1>5. Lies(m2, b, s, pr, nx, t, u)
  BY <1>4 DEF Lies
<1> QED
  BY <1>2, <1>3, <1>5

LEMMA SetSizeIs ==
  ASSUME NEW m, MemVals(m), NEW b \in Nat \ {0}, NEW s \in Int, s >= 72, NEW pr, NEW nx, NEW t, NEW u,
         Lies(m, b, s, pr, nx, t, u), NEW n \in Int, n >= 72
  PROVE  Lies(SetSize(m, b, n), b, n, pr, nx, t, u) /\ Changed(m, SetSize(m, b, n), b, b + n)
<1>1. PICK m1 : m1 = Put(m, b, n)
  OBVIOUS
<1>2. PICK m2 : m2 = Put(m1, b + (n - 8), n)
  OBVIOUS
<1>3. PICK m3 : m3 = Put(m2, b + 40, n - 72)
  OBVIOUS
<1>4. Word(m1, b, n) /\ \A a, w : a # b /\ Word(m, a, w) => Word(m1, a, w)
  BY <1>1, PutIs, PutKeeps
<1>5. Word(m2, b + (n - 8), n) /\ \A a, w : a # b + (n - 8) /\ Word(m1, a, w) => Word(m2, a, w)
  BY <1>2, PutIs, PutKeeps
<1>6. Word(m3, b + 40, n - 72) /\ \A a, w : a # b + 40 /\ Word(m2, a, w) => Word(m3, a, w)
  BY <1>3, PutIs, PutKeeps
<1>7. Changed(m, m1, b, b + n)
  BY <1>1, PutChanges
<1>8. Changed(m1, m2, b, b + n)
  BY <1>2, <1>7, PutChanges DEF Changed
<1>9. Changed(m2, m3, b, b + n)
  BY <1>3, <1>8, PutChanges DEF Changed
<1>10. Changed(m, m3, b, b + n)
  BY <1>7, <1>8, <1>9, ChangedTwice
<1>11. Signed(m, b) /\ Signed(m1, b) /\ Signed(m2, b)
  BY <1>4, <1>5 DEF Lies, Signed
<1>12. SetSize(m, b, n) = m3
  <2>1. b + 0 = b
    OBVIOUS
  <2>2. Set(m, b, 0, n) = m1
    BY <1>1, <1>11, <2>1, SetIs
  <2>3. Set(m1, b, n - 8, n) = m2
    BY <1>2, <1>11, SetIs
  <2>4. Set(m2, b, 40, n - OverheadSize) = m3
    BY <1>3, <1>11, SetIs DEF OverheadSize
  <2>5. QED
    BY <2>2, <2>3, <2>4 DEF SetSize
<1>13. Lies(m3, b, n, pr, nx, t, u)
  BY <1>4, <1>5, <1>6 DEF Lies, OverheadSize
<1> QED
  BY <1>10, <1>12, <1>13

LEMMA LiesFields ==
  ASSUME NEW m, NEW b \in Nat \ {0}, NEW s, NEW pr, NEW nx, NEW t, NEW u, Lies(m, b, s, pr, nx, t, u)
  PROVE  /\ Signed(m, b) /\ Genuine(m, b)
         /\ TotalSize(m, b) = s /\ PrevPos(m, b) = pr /\ NextPos(m, b) = nx /\ Type(m, b) = t
         /\ MaxDataLen(m, b) = s - OverheadSize
         /\ Read(m, b) = s /\ Read(m, b + s - 8) = s
<1>1. PICK x : x = Blk(s, pr, nx, t, u)
  OBVIOUS
<1>2. x.size = s /\ x.prev = pr /\ x.next = nx /\ x.type = t /\ x.used = u
  BY <1>1, BlkIs
<1>3. Block(m, b, x)
  BY <1>2 DEF Block
<1> QED
  BY <1>2, <1>3, BlockFields

\* What the parts of alloc and free do to the blocks they are called with.
LEMMA FormatIs ==
  ASSUME NEW m, MemVals(m), NEW b \in Nat \ {0}, NEW s \in Int, s >= 72, NEW pr \in Int, NEW nx \in Int
  PROVE  Lies(Format0(m, b, s, pr, nx), b, s, pr, nx, Free, 0) /\ Changed(m, Format0(m, b, s, pr, nx), b, b + s)
<1> DEFINE head == <<s, Signature, pr, nx, Free, s - OverheadSize, 0, 0>>
           At8 == {b + 8 * k : k \in 0 .. 7}
           W == [a \in DOMAIN m \cup At8 |-> IF a \in At8 THEN head[(a - b) \div 8 + 1] ELSE m[a]]
           F == Put(W, b + s - 8, s)
<1>1. Format0(m, b, s, pr, nx) = F
  BY DEF Format0
<1>2. DOMAIN W = DOMAIN m \cup At8 /\ At8 \subseteq Int /\ \A a \in At8 : b <= a /\ a + 8 <= b + s
  OBVIOUS
<1>3. /\ Word(W, b, s) /\ Word(W, b + 8, Signature) /\ Word(W, b + 16, pr) /\ Word(W, b + 24, nx)
      /\ Word(W, b + 32, Free) /\ Word(W, b + 40, s - OverheadSize) /\ Word(W, b + 48, 0)
      /\ Word(W, b + 56, 0)
  <2>1. ASSUME NEW k \in 0 .. 7 PROVE b + 8 * k \in At8 /\ W[b + 8 * k] = head[k + 1]
    <3>1. (b + 8 * k - b) \div 8 + 1 = k + 1
      OBVIOUS
    <3>2. b + 8 * k \in At8
      OBVIOUS
    <3>3. W[b + 8 * k] = head[(b + 8 * k - b) \div 8 + 1]
      BY <3>2
    <3>4. QED
      BY <3>1, <3>2, <3>3
  <2>2. /\ Word(W, b + 8 * 0, head[1]) /\ Word(W, b + 8 * 1, head[2]) /\ Word(W, b + 8 * 2, head[3])
        /\ Word(W, b + 8 * 3, head[4]) /\ Word(W, b + 8 * 4, head[5]) /\ Word(W, b + 8 * 5, head[6])
        /\ Word(W, b + 8 * 6, head[7]) /\ Word(W, b + 8 * 7, head[8])
    <3> HIDE DEF head
    <3>1. ASSUME NEW k \in 0 .. 7, NEW h, h = k + 1 PROVE Word(W, b + 8 * k, head[h])
      BY <1>2, <2>1, <3>1 DEF Word
    <3> HIDE DEF W
    <3>2. QED
      BY <3>1
  <2>3. QED
    BY <2>2
<1>4. \A a \in DOMAIN W : W[a] \in Int
  <2>1. ASSUME NEW a \in At8 PROVE W[a] \in Int
    <3>1. PICK k \in 0 .. 7 : a = b + 8 * k
      OBVIOUS
    <3>2. k = 0 \/ k = 1 \/ k = 2 \/ k = 3 \/ k = 4 \/ k = 5 \/ k = 6 \/ k = 7
      OBVIOUS
    <3> HIDE DEF W, At8
    <3>3. QED
      BY <1>3, <3>1, <3>2 DEF Word, Signature, Free, OverheadSize
  <2>2. QED
    BY <2>1 DEF MemVals
<1>5. IsFiniteSet(At8)
  <2>0. PICK z \in Int, w \in Int : z = 0 /\ w = 7
    OBVIOUS
  <2>1. IsFiniteSet(z .. w)
    BY FS_Interval
  <2> DEFINE f == [k \in 0 .. 7 |-> b + 8 * k]
  <2>2. f \in Surjection(0 .. 7, At8)
    BY DEF Surjection
  <2>3. QED
    BY <2>0, <2>1, <2>2, FS_Surjection
<1>6. MemVals(W)
  BY <1>2, <1>4, <1>5, FS_Union DEF MemVals
<1>7. Changed(m, W, b, b + s)
  <2>1. \A a \in DOMAIN m : a < b \/ a >= b + s => Word(W, a, m[a])
    BY <1>2 DEF MemVals, Word
  <2> HIDE DEF W
  <2>2. QED
    BY <1>2, <1>6, <2>1 DEF Changed
<1> HIDE DEF W
<1>8. Changed(W, F, b, b + s)
  BY <1>6, PutChanges
<1>9. Changed(m, F, b, b + s)
  BY <1>7, <1>8, ChangedTwice
<1>10. Word(F, b + s - 8, s) /\ \A a, w : a # b + s - 8 /\ Word(W, a, w) => Word(F, a, w)
  BY PutIs, PutKeeps
<1> HIDE DEF F
<1>11. Lies(F, b, s, pr, nx, Free, 0)
  BY <1>3, <1>10 DEF Lies
<1> QED
  BY <1>1, <1>9, <1>11

LEMMA DoUseIs ==
  ASSUME NEW m, MemVals(m), NEW b \in Nat \ {0}, NEW s \in Int, s >= 72, NEW pr, NEW nx, NEW t, NEW u,
         Lies(m, b, s, pr, nx, t, u), NEW n \in Int
  PROVE  Lies(DoUse(m, b, n), b, s, pr, nx, Use, n) /\ Changed(m, DoUse(m, b, n), b, b + s)
<1>1. PICK m1 : m1 = Set(m, b, 32, Use)
  OBVIOUS
<1>2. Lies(m1, b, s, pr, nx, Use, u) /\ Changed(m, m1, b, b + s)
  BY <1>1, SetTypeIs DEF Use
<1>3. PICK m2 : m2 = Set(m1, b, 48, 0)
  OBVIOUS
<1>4. Lies(m2, b, s, pr, nx, Use, u) /\ Changed(m1, m2, b, b + s)
  BY <1>2, <1>3, SetP1Is DEF Changed
<1>5. PICK m3 : m3 = Set(m2, b, 56, n)
  OBVIOUS
<1>6. Lies(m3, b, s, pr, nx, Use, n) /\ Changed(m2, m3, b, b + s)
  BY <1>4, <1>5, SetP2Is DEF Changed
<1>7. Changed(m, m3, b, b + s)
  BY <1>2, <1>4, <1>6, ChangedTwice
<1>8. DoUse(m, b, n) = m3
  BY <1>1, <1>3, <1>5 DEF DoUse
<1> QED
  BY <1>6, <1>7, <1>8

LEMMA MergedIs ==
  ASSUME NEW m, MemVals(m), NEW b \in Nat \ {0}, NEW s \in Int, s >= 72, NEW pr, NEW nx, NEW t, NEW u,
         Lies(m, b, s, pr, nx, t, u), NEW n \in Int, n >= 72, NEW nx2 \in Int
  PROVE  Lies(Merged(m, b, n, nx2), b, n, pr, nx2, Free, u) /\ Changed(m, Merged(m, b, n, nx2), b, b + n)
<1>1. PICK m1 : m1 = SetSize(m, b, n)
  OBVIOUS
<1>2. Lies(m1, b, n, pr, nx, t, u) /\ Changed(m, m1, b, b + n)
  BY <1>1, SetSizeIs
<1>3. PICK m2 : m2 = Set(m1, b, 32, Free)
  OBVIOUS
<1>4. Lies(m2, b, n, pr, nx, Free, u) /\ Changed(m1, m2, b, b + n)
  BY <1>2, <1>3, SetTypeIs DEF Changed, Free
<1>5. PICK m3 : m3 = Set(m2, b, 24, nx2)
  OBVIOUS
<1>6. Lies(m3, b, n, pr, nx2, Free, u) /\ Changed(m2, m3, b, b + n)
  BY <1>4, <1>5, SetNextIs DEF Changed
<1>7. Changed(m, m3, b, b + n)
  BY <1>2, <1>4, <1>6, ChangedTwice
<1>8. Merged(m, b, n, nx2) = m3
  BY <1>1, <1>3, <1>5 DEF Merged
<1> QED
  BY <1>6, <1>7, <1>8

LEMMA DoDivideIs ==
  ASSUME NEW m, MemVals(m), NEW b \in Nat \ {0}, NEW s \in Int, NEW pr, NEW nx \in Int, NEW t, NEW u,
         Lies(m, b, s, pr, nx, t, u), NEW r \in Int, r >= 72, s - r >= 72
  PROVE  /\ Lies(DoDivide(m, b, r), b, s - r, pr, b + (s - r), t, u)
         /\ Lies(DoDivide(m, b, r), b + (s - r), r, b, nx, Free, 0)
         /\ Changed(m, DoDivide(m, b, r), b, b + s)
<1>1. PICK n \in Int : n = s - r
  OBVIOUS
<1>2. PICK q \in Nat \ {0} : q = b + n
  BY <1>1
<1>3. PICK m1 : m1 = SetSize(m, b, n)
  OBVIOUS
<1>4. Lies(m1, b, n, pr, nx, t, u) /\ Changed(m, m1, b, b + n) /\ MemVals(m1)
  BY <1>1, <1>3, SetSizeIs DEF Changed
<1>5. PICK m2 : m2 = Format0(m1, q, r, b, nx)
  OBVIOUS
<1>6. Lies(m2, q, r, b, nx, Free, 0) /\ Changed(m1, m2, q, q + r) /\ MemVals(m2)
  BY <1>4, <1>5, FormatIs DEF Changed
<1>7. Lies(m2, b, n, pr, nx, t, u)
  BY <1>1, <1>2, <1>4, <1>6, LiesStays
<1>8. PICK m3 : m3 = Set(m2, b, 24, q)
  OBVIOUS
<1>9. Lies(m3, b, n, pr, q, t, u) /\ Changed(m2, m3, b, b + n)
  BY <1>1, <1>6, <1>7, <1>8, SetNextIs
<1>10. Lies(m3, q, r, b, nx, Free, 0)
  BY <1>1, <1>2, <1>6, <1>9, LiesStays
<1>11. Changed(m, m1, b, b + s) /\ Changed(m1, m2, b, b + s) /\ Changed(m2, m3, b, b + s)
  <2>1. b + n <= b + s /\ q + r = b + s /\ b <= q
    BY <1>1, <1>2
  <2>2. QED
    BY <1>4, <1>6, <1>9, <2>1, ChangedWithin
<1>12. Changed(m, m3, b, b + s)
  BY <1>11, ChangedTwice
<1>13. DoDivide(m, b, r) = m3
  <2>1. TotalSize(m, b) = s /\ NextPos(m1, b) = nx
    BY <1>4, LiesFields
  <2>2. b + s - r = q
    BY <1>1, <1>2
  <2>3. QED
    BY <1>1, <1>3, <1>5, <1>8, <2>1, <2>2 DEF DoDivide
<1> QED
  BY <1>1, <1>2, <1>9, <1>10, <1>12, <1>13

-----------------------------------------------------------------------------
(* Operations                                                              *)

\* What every operation needs of the heap it begins with.
LEMMA SoundFacts ==
  ASSUME NEW m, NEW l, NEW e, NEW H, Sound(m, l, e, H)
  PROVE  /\ MemVals(m) /\ Apart(e) /\ MemOK(m, e) /\ Tiles(H, e)
         /\ \A b \in DOMAIN H : /\ b \in Nat \ {0} /\ H[b].size \in Nat /\ H[b].size >= 72 /\ H[b].prev \in Int
                               /\ H[b].next \in Int /\ H[b].type \in {Free, Use} /\ H[b].used \in Nat
                               /\ H[b].used <= H[b].size - 72
                               /\ Lies(m, b, H[b].size, H[b].prev, H[b].next, H[b].type, H[b].used)
                               /\ Block(m, b, H[b])
<1>1. MemVals(m)
  BY DEF Sound, MemOK, MemVals
<1>2. ASSUME NEW b \in DOMAIN H
      PROVE  /\ b \in Nat \ {0} /\ H[b].size \in Nat /\ H[b].size >= 72 /\ H[b].prev \in Int
             /\ H[b].next \in Int /\ H[b].type \in {Free, Use} /\ H[b].used \in Nat
             /\ H[b].used <= H[b].size - 72
  BY DEF Sound, Tiles, BlocksAre, BlockSet, OverheadSize
<1>3. ASSUME NEW b \in DOMAIN H PROVE Block(m, b, H[b])
  BY DEF Sound, Rep
<1> QED
  BY <1>1, <1>2, <1>3 DEF Sound, Block

\* Memory is changed within block q, or within the blocks from q to hi, and the rest stays.
LEMMA OthersStay ==
  ASSUME NEW m, NEW m2, NEW l, NEW e, NEW H, Sound(m, l, e, H), NEW q \in Int, NEW hi \in Int, Changed(m, m2, q, hi),
         NEW b \in DOMAIN H, b + H[b].size <= q \/ b >= hi
  PROVE  Block(m2, b, H[b])
<1>1. b \in Int /\ H[b].size \in Int /\ H[b].size >= 72 /\ Block(m, b, H[b])
  BY SoundFacts
<1> QED
  BY <1>1, BlockStays

\* A change from q to hi lies in one slot.
LEMMA InOneSlot ==
  ASSUME NEW m, NEW m2, NEW l, NEW e, NEW H, Sound(m, l, e, H), NEW q \in DOMAIN H, NEW hi \in Int,
         Changed(m, m2, q, hi), hi <= q + H[q].size
  PROVE  MemOK(m2, e)
<1>1. PICK n \in DOMAIN e : Low(e, n) <= q /\ q + H[q].size <= High(e, n)
  BY DEF Sound, Tiles, InSlots
<1>2. q \in Int /\ H[q].size \in Int /\ High(e, n) \in Int /\ MemOK(m, e) /\ Apart(e)
  BY SoundFacts DEF Apart
<1>3. hi <= High(e, n)
  BY <1>1, <1>2
<1> QED
  BY <1>1, <1>2, <1>3, ChangedMemOK

\* Block q is given another type, or another length of use.
LEMMA RetypeSound ==
  ASSUME NEW m, NEW m2, NEW l, NEW e, NEW H, Sound(m, l, e, H), NEW q \in DOMAIN H, Changed(m, m2, q, q + H[q].size),
         NEW t \in {Free, Use}, NEW u \in Nat, u <= H[q].size - 72,
         Lies(m2, q, H[q].size, H[q].prev, H[q].next, t, u),
         NEW l2, Holds(Retyped(H, q, t, u), l2)
  PROVE  Sound(m2, l2, e, Retyped(H, q, t, u))
<1>1. PICK x : x = Blk(H[q].size, H[q].prev, H[q].next, t, u)
  OBVIOUS
<1>2. x.size = H[q].size /\ x.prev = H[q].prev /\ x.next = H[q].next /\ x.type = t /\ x.used = u
  BY <1>1, BlkIs
<1>3. PICK K : K = Retyped(H, q, t, u)
  OBVIOUS
<1>4. DOMAIN K = DOMAIN H /\ K[q] = x /\ \A b \in DOMAIN H : b # q => K[b] = H[b]
  BY <1>1, <1>3 DEF Retyped
<1>5. ASSUME NEW b \in DOMAIN K PROVE Block(m2, b, K[b])
  <2>1. CASE b = q
    BY <1>2, <1>4, <2>1 DEF Block
  <2>2. CASE b # q
    <3>1. b \in DOMAIN H /\ K[b] = H[b] /\ b \in Nat /\ q \in Nat /\ H[b].size \in Nat /\ H[q].size \in Nat
      BY <1>4, <2>2, SoundFacts
    <3>2. b + H[b].size <= q \/ b >= q + H[q].size
      BY <2>2, <3>1 DEF Sound, Tiles, Disjoint
    <3>3. QED
      BY <3>1, <3>2, OthersStay
  <2>3. QED
    BY <2>1, <2>2
<1>6. Tiles(K, e)
  BY <1>3, SoundFacts, RetypeTiles DEF OverheadSize
<1>7. MemOK(m2, e)
  <2>1. PICK hi \in Int : hi = q + H[q].size
    BY SoundFacts
  <2>2. hi <= q + H[q].size
    BY <2>1
  <2>3. QED
    BY <2>1, <2>2, InOneSlot
<1> QED
  BY <1>3, <1>5, <1>6, <1>7 DEF Sound, Rep

\* Block q is divided.
LEMMA CutSound ==
  ASSUME NEW m, NEW m2, NEW l, NEW e, NEW H, Sound(m, l, e, H), NEW q \in DOMAIN H, Changed(m, m2, q, q + H[q].size),
         NEW s \in Nat, NEW r \in Nat, s >= 72, r >= 72, H[q].size = s + r,
         NEW t \in {Free, Use}, NEW u \in Nat, u <= s - 72,
         Lies(m2, q, s, H[q].prev, q + s, t, u), Lies(m2, q + s, r, q, H[q].next, Free, 0),
         NEW K, K = Cut(H, q, Blk(s, H[q].prev, q + s, t, u), Blk(r, q, H[q].next, Free, 0)),
         NEW l2, Holds(K, l2)
  PROVE  Sound(m2, l2, e, K)
<1>1. PICK x : x = Blk(s, H[q].prev, q + s, t, u)
  OBVIOUS
<1>2. PICK y : y = Blk(r, q, H[q].next, Free, 0)
  OBVIOUS
<1>3. /\ x.size = s /\ x.prev = H[q].prev /\ x.next = q + s /\ x.type = t /\ x.used = u
      /\ y.size = r /\ y.prev = q /\ y.next = H[q].next /\ y.type = Free /\ y.used = 0
  BY <1>1, <1>2, BlkIs
<1>4. q \in Nat /\ q + s # q
  BY SoundFacts
<1>5. DOMAIN K = DOMAIN H \cup {q + s} /\ K[q] = x /\ K[q + s] = y
      /\ \A b \in DOMAIN K : b # q /\ b # q + s => b \in DOMAIN H /\ K[b] = H[b]
  <2>1. K = Cut(H, q, x, y)
    BY <1>1, <1>2
  <2>2. QED
    BY <1>3, <1>4, <2>1 DEF Cut
<1>6. ASSUME NEW b \in DOMAIN K PROVE Block(m2, b, K[b])
  <2>1. CASE b = q
    BY <1>3, <1>5, <2>1 DEF Block
  <2>2. CASE b = q + s
    BY <1>3, <1>5, <2>2 DEF Block
  <2>3. CASE b # q /\ b # q + s
    <3>1. b \in DOMAIN H /\ K[b] = H[b] /\ b \in Nat /\ q \in Nat /\ H[b].size \in Nat /\ H[q].size \in Nat
      BY <1>5, <2>3, SoundFacts
    <3>2. b + H[b].size <= q \/ b >= q + H[q].size
      BY <2>3, <3>1 DEF Sound, Tiles, Disjoint
    <3>3. QED
      BY <3>1, <3>2, OthersStay
  <2>4. QED
    BY <2>1, <2>2, <2>3
<1>7. Tiles(K, e)
  BY SoundFacts, CutTiles DEF OverheadSize
<1>8. MemOK(m2, e)
  <2>1. PICK hi \in Int : hi = q + H[q].size
    BY SoundFacts
  <2>2. hi <= q + H[q].size
    BY <2>1
  <2>3. QED
    BY <2>1, <2>2, InOneSlot
<1> QED
  BY <1>6, <1>7, <1>8, SoundFacts DEF Sound, Rep

\* Block q takes in all up to the end of block c.
LEMMA AbsorbSound ==
  ASSUME NEW m, NEW m2, NEW l, NEW e, NEW H, Sound(m, l, e, H), NEW q \in DOMAIN H, NEW c \in DOMAIN H, q <= c,
         NEW n \in DOMAIN e, Low(e, n) <= q, c + H[c].size <= High(e, n), NEW hi, hi = c + H[c].size,
         Changed(m, m2, q, hi), NEW t \in {Free, Use}, NEW u \in Nat, u <= hi - q - 72,
         Lies(m2, q, hi - q, H[q].prev, H[c].next, t, u),
         NEW K, K = Absorbed(H, q, hi, Blk(hi - q, H[q].prev, H[c].next, t, u)),
         NEW l2, Holds(K, l2)
  PROVE  Sound(m2, l2, e, K)
<1>1. PICK x : x = Blk(hi - q, H[q].prev, H[c].next, t, u)
  OBVIOUS
<1>2. x.size = hi - q /\ x.prev = H[q].prev /\ x.next = H[c].next /\ x.type = t /\ x.used = u
  BY <1>1, BlkIs
<1>3. q \in Nat /\ hi \in Nat /\ q < hi
  BY SoundFacts
<1>4. DOMAIN K = {d \in DOMAIN H : d <= q \/ d >= hi} /\ K[q] = x
      /\ \A b \in DOMAIN K : b # q => b \in DOMAIN H /\ K[b] = H[b]
  <2>1. K = Absorbed(H, q, hi, x)
    BY <1>1
  <2>2. QED
    BY <1>3, <2>1 DEF Absorbed
<1>5. ASSUME NEW b \in DOMAIN K PROVE Block(m2, b, K[b])
  <2>1. CASE b = q
    BY <1>2, <1>4, <2>1 DEF Block
  <2>2. CASE b # q
    <3>1. b \in DOMAIN H /\ K[b] = H[b] /\ b \in Nat /\ H[b].size \in Nat /\ (b < q \/ b >= hi)
      BY <1>3, <1>4, <2>2, SoundFacts
    <3>2. b + H[b].size <= q \/ b >= hi
      BY <3>1 DEF Sound, Tiles, Disjoint
    <3>3. QED
      BY <1>3, <3>1, <3>2, OthersStay
  <2>3. QED
    BY <2>1, <2>2
<1>6. Tiles(K, e)
  BY SoundFacts, AbsorbTiles DEF OverheadSize
<1>7. MemOK(m2, e)
  BY <1>3, SoundFacts, ChangedMemOK
<1> QED
  BY <1>5, <1>6, <1>7, SoundFacts DEF Sound, Rep

\* Block b has been taken for n bytes, and the other blocks of H are as they were.
Taken(H, K, b, n) ==
  /\ b \in DOMAIN K /\ K[b].type = Use /\ K[b].used = n
  /\ \A c \in DOMAIN H : c # b => c \in DOMAIN K /\ K[c] = H[c]
  /\ \A c \in DOMAIN K : c \notin DOMAIN H => K[c].type = Free

LEMMA TakenHolds ==
  ASSUME NEW H, NEW K, NEW l, NEW b, NEW n, Holds(H, l), Taken(H, K, b, n)
  PROVE  Holds(K, Put(l, b, n))
<1>1. DOMAIN Put(l, b, n) = DOMAIN l \cup {b} /\ Put(l, b, n)[b] = n
      /\ \A c \in DOMAIN l : c # b => Put(l, b, n)[c] = l[c]
  BY DEF Put
<1>2. ASSUME NEW c \in DOMAIN K PROVE (c \in DOMAIN l \cup {b}) <=> K[c].type = Use
  <2>1. CASE c = b
    BY <2>1 DEF Taken
  <2>2. CASE c # b /\ c \in DOMAIN H
    BY <2>2 DEF Taken, Holds
  <2>3. CASE c # b /\ c \notin DOMAIN H
    BY <2>3 DEF Taken, Holds, Free, Use
  <2>4. QED
    BY <2>1, <2>2, <2>3
<1>3. DOMAIN l \cup {b} \subseteq DOMAIN K
  BY DEF Taken, Holds
<1>4. \A c \in DOMAIN l : c # b => l[c] = K[c].used
  BY DEF Taken, Holds
<1>5. DOMAIN Put(l, b, n) = {c \in DOMAIN K : K[c].type = Use}
  BY <1>1, <1>2, <1>3
<1> QED
  BY <1>1, <1>4, <1>5 DEF Holds, Taken

LEMMA AlignFacts ==
  ASSUME NEW n \in Nat
  PROVE  AlignLow(n) \in Nat /\ AlignLow(n) <= n /\ AlignSize(n) \in Nat /\ AlignSize(n) >= n
BY DEF AlignLow, AlignSize

LEMMA OccupiedSound ==
  ASSUME NEW m, NEW l, NEW e, NEW H, Sound(m, l, e, H), NEW b \in DOMAIN H, H[b].type = Free,
         NEW n \in Nat, n <= H[b].size - 72
  PROVE  \E K : Sound(Occupied(m, b, n), Put(l, b, n), e, K) /\ Taken(H, K, b, n)
<1>1. PICK s \in Nat, pr \in Int, nx \in Int, u \in Nat :
        s = H[b].size /\ pr = H[b].prev /\ nx = H[b].next /\ u = H[b].used
  BY SoundFacts
<1>2. b \in Nat \ {0} /\ s >= 72 /\ n <= s - 72 /\ MemVals(m) /\ Lies(m, b, s, pr, nx, Free, u)
  BY <1>1, SoundFacts
<1>3. MaxDataLen(m, b) = s - 72
  BY <1>2, LiesFields DEF OverheadSize
<1>4. PICK r \in Nat : r = AlignLow(s - 72 - n) /\ r <= s - 72 - n
  BY <1>2, AlignFacts
<1>5. Holds(H, l)
  BY DEF Sound
<1>6. CASE r >= 144
  <2>1. PICK m1 : m1 = DoDivide(m, b, r)
    OBVIOUS
  <2>2. PICK k \in Nat : k = s - r /\ k >= 72 /\ n <= k - 72 /\ s = k + r
    BY <1>2, <1>4
  <2>3. Lies(m1, b, k, pr, b + k, Free, u) /\ Lies(m1, b + k, r, b, nx, Free, 0) /\ Changed(m, m1, b, b + s)
    BY <1>2, <1>6, <2>1, <2>2, DoDivideIs
  <2>4. PICK m2 : m2 = DoUse(m1, b, n)
    OBVIOUS
  <2>5. MemVals(m1)
    BY <2>3 DEF Changed
  <2>6. Lies(m2, b, k, pr, b + k, Use, n) /\ Changed(m1, m2, b, b + k)
    BY <1>2, <2>2, <2>3, <2>4, <2>5, DoUseIs
  <2>7. Lies(m2, b + k, r, b, nx, Free, 0)
    BY <1>2, <1>6, <2>2, <2>3, <2>6, LiesStays
  <2>8. Changed(m, m2, b, b + s)
    <3>1. Changed(m1, m2, b, b + s)
      BY <1>2, <2>2, <2>5, <2>6, ChangedWithin
    <3>2. QED
      BY <1>2, <2>3, <3>1, ChangedTwice
  <2>9. Occupied(m, b, n) = m2
    BY <1>3, <1>4, <1>6, <2>1, <2>4 DEF Occupied, OverheadSize, MinDataSize
  <2>10. PICK x : x = Blk(k, pr, b + k, Use, n)
    OBVIOUS
  <2>11. PICK y : y = Blk(r, b, nx, Free, 0)
    OBVIOUS
  <2>12. PICK K : K = Cut(H, b, x, y)
    OBVIOUS
  <2>13. x.size = k /\ x.type = Use /\ x.used = n /\ y.type = Free
    BY <2>10, <2>11, BlkIs
  <2>14. DOMAIN K = DOMAIN H \cup {b + k} /\ K[b] = x /\ K[b + k] = y
         /\ \A c \in DOMAIN H : c # b /\ c # b + k => K[c] = H[c]
    BY <1>2, <2>2, <2>12, <2>13 DEF Cut
  <2>15. b + k \notin DOMAIN H
    <3>1. \A c \in DOMAIN H : b < c => b + s <= c
      BY <1>1 DEF Sound, Tiles, Disjoint
    <3>2. QED
      BY <1>2, <1>6, <2>2, <3>1
  <2>16. Taken(H, K, b, n)
    BY <2>13, <2>14, <2>15 DEF Taken
  <2>17. Holds(K, Put(l, b, n))
    BY <1>5, <2>16, TakenHolds
  <2>18. Sound(m2, Put(l, b, n), e, K)
    <3>1. K = Cut(H, b, Blk(k, H[b].prev, b + k, Use, n), Blk(r, b, H[b].next, Free, 0))
      BY <1>1, <2>10, <2>11, <2>12
    <3>2. Lies(m2, b, k, H[b].prev, b + k, Use, n) /\ Lies(m2, b + k, r, b, H[b].next, Free, 0)
          /\ Changed(m, m2, b, b + H[b].size) /\ H[b].size = k + r /\ r >= 72 /\ Use \in {Free, Use}
      BY <1>1, <1>6, <2>2, <2>6, <2>7, <2>8
    <3>3. QED
      BY <2>2, <2>17, <3>1, <3>2, CutSound
  <2>19. QED
    BY <2>9, <2>16, <2>18
<1>7. CASE ~ (r >= 144)
  <2>1. PICK m2 : m2 = DoUse(m, b, n)
    OBVIOUS
  <2>2. Lies(m2, b, s, pr, nx, Use, n) /\ Changed(m, m2, b, b + s)
    BY <1>2, <2>1, DoUseIs
  <2>3. Occupied(m, b, n) = m2
    BY <1>3, <1>4, <1>7, <2>1 DEF Occupied, OverheadSize, MinDataSize
  <2>4. PICK x : x = Blk(s, pr, nx, Use, n)
    OBVIOUS
  <2>5. x.type = Use /\ x.used = n
    BY <2>4, BlkIs
  <2>6. PICK K : K = Retyped(H, b, Use, n)
    OBVIOUS
  <2>7. DOMAIN K = DOMAIN H /\ K[b] = x /\ \A c \in DOMAIN H : c # b => K[c] = H[c]
    BY <1>1, <2>4, <2>6 DEF Retyped
  <2>8. Taken(H, K, b, n)
    BY <2>5, <2>7 DEF Taken
  <2>9. Holds(K, Put(l, b, n))
    BY <1>5, <2>8, TakenHolds
  <2>10. Sound(m2, Put(l, b, n), e, K)
    BY <1>1, <1>2, <2>2, <2>6, <2>9, Use \in {Free, Use}, RetypeSound
  <2>11. QED
    BY <2>3, <2>8, <2>10
<1> QED
  BY <1>6, <1>7

\* A block that is followed by another lies in the same slot with it.
LEMMA SameSlot ==
  ASSUME NEW m, NEW l, NEW e, NEW H, Sound(m, l, e, H), NEW b \in DOMAIN H, NEW c \in DOMAIN H, c = b + H[b].size
  PROVE  \E n \in DOMAIN e : Low(e, n) <= b /\ c + H[c].size <= High(e, n)
<1>1. PICK n \in DOMAIN e : Low(e, n) <= b /\ b + H[b].size <= High(e, n)
  BY DEF Sound, Tiles, InSlots
<1>2. PICK k \in DOMAIN e : Low(e, k) <= c /\ c + H[c].size <= High(e, k)
  BY DEF Sound, Tiles, InSlots
<1>3. b \in Nat /\ c \in Nat /\ H[b].size \in Nat /\ H[c].size \in Nat /\ H[b].size >= 72 /\ H[c].size >= 72
  BY SoundFacts
<1>4. n # k => High(e, n) < Low(e, k) \/ High(e, k) < Low(e, n)
  BY DEF Sound, Apart
<1>5. Low(e, n) \in Nat /\ High(e, n) \in Nat /\ Low(e, k) \in Nat /\ High(e, k) \in Nat
  BY DEF Sound, Apart
<1>6. n = k
  BY <1>1, <1>2, <1>3, <1>4, <1>5
<1> QED
  BY <1>1, <1>2, <1>6

\* The next pointer of a block that says its end is right.
LEMMA NextIs ==
  ASSUME NEW m, NEW l, NEW e, NEW H, Sound(m, l, e, H), NEW b \in DOMAIN H, H[b].next = b + H[b].size
  PROVE  b + H[b].size \in DOMAIN H
<1>1. SUFFICES ASSUME NEW n \in DOMAIN e, b + H[b].size = High(e, n), H[b].next = Start(e, n + 1) PROVE FALSE
  BY DEF Sound, Tiles, Linked
<1>2. High(e, n) \in Nat /\ Low(e, n) \in Nat /\ High(e, n) > Low(e, n)
  BY DEF Sound, Apart
<1>3. n + 1 \in DOMAIN e /\ Low(e, n + 1) = High(e, n)
  BY <1>1, <1>2 DEF Start
<1>4. n # n + 1
  BY DEF Sound, Apart
<1>5. High(e, n) < Low(e, n + 1) \/ High(e, n + 1) < Low(e, n)
  BY <1>3, <1>4 DEF Sound, Apart
<1>6. High(e, n + 1) \in Nat /\ High(e, n + 1) > Low(e, n + 1) /\ Low(e, n + 1) \in Nat
  BY <1>3 DEF Sound, Apart
<1> QED
  BY <1>2, <1>3, <1>5, <1>6

\* A free that merges with the previous block finds the block that is there, even when the pointer
\* that it has tested is out of date.
LEMMA PrevIs ==
  ASSUME NEW m, NEW l, NEW e, NEW H, Sound(m, l, e, H), NEW b \in DOMAIN H, H[b].type = Use, CanMergePrev(m, b)
  PROVE  \E q \in DOMAIN H : q + H[q].size = b /\ Read(m, b - 8) = H[q].size /\ Type(m, b - Read(m, b - 8)) = H[q].type
<1>1. b \in Nat \ {0} /\ Lies(m, b, H[b].size, H[b].prev, H[b].next, H[b].type, H[b].used)
  BY SoundFacts
<1>2. PrevPos(m, b) = H[b].prev /\ Type(m, b) = Use
  BY <1>1, LiesFields
<1>3. H[b].prev # 0 /\ Type(m, H[b].prev) = Free /\ H[b].prev + TotalSize(m, H[b].prev) = b
  BY <1>2 DEF CanMergePrev
<1>4. ASSUME NEW q \in DOMAIN H, q + H[q].size = b
      PROVE  Read(m, b - 8) = H[q].size /\ Type(m, b - Read(m, b - 8)) = H[q].type
  <2>1. q \in Nat \ {0} /\ H[q].size \in Nat /\ Lies(m, q, H[q].size, H[q].prev, H[q].next, H[q].type, H[q].used)
    BY SoundFacts
  <2>2. Read(m, q + H[q].size - 8) = H[q].size /\ Type(m, q) = H[q].type
    BY <2>1, LiesFields
  <2>3. b - H[q].size = q
    BY <1>1, <1>4, <2>1
  <2>4. Read(m, b - 8) = H[q].size
    <3>1. q + (H[q].size - 8) = b - 8
      BY <1>4, <2>1
    <3>2. QED
      BY <2>2, <3>1
  <2>5. b - Read(m, b - 8) = q
    BY <2>3, <2>4
  <2>6. QED
    BY <2>2, <2>4, <2>5
<1>5. ASSUME NEW n \in DOMAIN e, b = Low(e, n) PROVE FALSE
  <2>1. H[b].prev = Start(e, n - 1)
    BY <1>5 DEF Sound, Tiles, SlotsBegin
  <2>2. n - 1 \in DOMAIN e /\ H[b].prev = Low(e, n - 1)
    BY <1>3, <2>1 DEF Start
  <2>3. PICK q \in DOMAIN H : q = Low(e, n - 1)
    BY <2>2 DEF Sound, Tiles, SlotsBegin
  <2>4. q \in Nat \ {0} /\ H[q].size \in Nat /\ H[q].size >= 72 /\ TotalSize(m, q) = H[q].size
    BY SoundFacts, LiesFields
  <2>5. q + H[q].size = b
    BY <1>3, <2>2, <2>3, <2>4
  <2>6. PICK k \in DOMAIN e : Low(e, k) <= q /\ b + H[b].size <= High(e, k)
    BY <2>5, SameSlot
  <2>7. n # n - 1
    BY DEF Sound, Apart
  <2>8. High(e, n) < Low(e, n - 1) \/ High(e, n - 1) < Low(e, n)
    BY <2>2, <2>7 DEF Sound, Apart
  <2>9. /\ (k = n \/ High(e, k) < Low(e, n) \/ High(e, n) < Low(e, k))
        /\ (k = n - 1 \/ High(e, k) < Low(e, n - 1) \/ High(e, n - 1) < Low(e, k))
    BY <2>2 DEF Sound, Apart
  <2>10. /\ Low(e, n) \in Nat /\ High(e, n) \in Nat /\ Low(e, k) \in Nat /\ High(e, k) \in Nat
         /\ Low(e, n - 1) \in Nat /\ High(e, n - 1) \in Nat
         /\ High(e, n) > Low(e, n) /\ High(e, n - 1) > Low(e, n - 1)
    BY <2>2 DEF Sound, Apart
  <2>11. H[b].size \in Nat /\ H[b].size >= 72
    BY SoundFacts
  <2>12. QED
    BY <1>5, <2>3, <2>4, <2>5, <2>6, <2>7, <2>8, <2>9, <2>10, <2>11
<1> QED
  BY <1>4, <1>5 DEF Sound, Tiles, Joined

\* The free blocks from q to c and block b among them become one free block.
LEMMA MergeSound ==
  ASSUME NEW m, NEW l, NEW e, NEW H, Sound(m, l, e, H), NEW b \in DOMAIN H, H[b].type = Use,
         NEW q \in DOMAIN H, NEW c \in DOMAIN H, q <= b, b <= c,
         \A d \in DOMAIN H : q <= d /\ d <= c /\ d # b => H[d].type = Free,
         NEW n \in DOMAIN e, Low(e, n) <= q, c + H[c].size <= High(e, n),
         NEW s, s = c + H[c].size - q
  PROVE  HeapSound(Merged(m, q, s, H[c].next), [x \in DOMAIN l \ {b} |-> l[x]], e)
<1>1. PICK hi \in Nat, nx \in Int, u \in Nat : hi = c + H[c].size /\ nx = H[c].next /\ u = H[q].used
  BY SoundFacts
<1>2. /\ q \in Nat \ {0} /\ b \in Nat /\ c \in Nat /\ H[q].size \in Nat /\ H[q].size >= 72 /\ MemVals(m)
      /\ H[c].size >= 72 /\ H[c].size \in Nat
      /\ u <= H[q].size - 72 /\ Lies(m, q, H[q].size, H[q].prev, H[q].next, H[q].type, u)
  BY <1>1, SoundFacts
<1>3. q + H[q].size <= hi
  <2>1. q < c => q + H[q].size <= c
    BY DEF Sound, Tiles, Disjoint
  <2>2. QED
    BY <1>1, <1>2, <2>1
<1>4. PICK k \in Nat : k = hi - q /\ k >= 72 /\ u <= k - 72 /\ k = s /\ hi = q + k
  <2>1. PICK k \in Int : k = hi - q
    BY <1>2
  <2>2. s = k
    BY <1>1, <1>2, <2>1
  <2>3. QED
    BY <1>1, <1>2, <1>3, <2>1, <2>2
<1>5. PICK m2 : m2 = Merged(m, q, k, nx)
  OBVIOUS
<1>6. Lies(m2, q, k, H[q].prev, nx, Free, u) /\ Changed(m, m2, q, q + k)
  BY <1>2, <1>4, <1>5, MergedIs
<1>7. PICK x : x = Blk(k, H[q].prev, nx, Free, u)
  OBVIOUS
<1>8. PICK K : K = Absorbed(H, q, hi, x)
  OBVIOUS
<1>9. x.type = Free
  BY <1>7, BlkIs
<1>10. DOMAIN K = {d \in DOMAIN H : d <= q \/ d >= hi} /\ K[q] = x
       /\ \A d \in DOMAIN K : d # q => K[d] = H[d]
  BY <1>1, <1>2, <1>8 DEF Absorbed
<1>11. PICK l2 : l2 = [y \in DOMAIN l \ {b} |-> l[y]]
  OBVIOUS
<1>12. DOMAIN l2 = DOMAIN l \ {b} /\ \A d \in DOMAIN l2 : l2[d] = l[d]
  BY <1>11
<1>13. ASSUME NEW d PROVE d \in DOMAIN l2 <=> d \in DOMAIN K /\ K[d].type = Use
  <2>1. d \in DOMAIN l <=> d \in DOMAIN H /\ H[d].type = Use
    BY DEF Sound, Holds
  <2>2. CASE d = q
    <3>1. d \in DOMAIN l => d = b
      BY <1>2, <2>1, <2>2 DEF Free, Use
    <3>2. QED
      BY <1>9, <1>10, <1>12, <2>2, <3>1 DEF Free, Use
  <2>3. CASE d # q /\ d \in DOMAIN K
    <3>1. d \in Nat /\ d # b
      BY <1>1, <1>2, <1>10, <2>3, SoundFacts
    <3>2. QED
      BY <1>10, <1>12, <2>1, <2>3, <3>1
  <2>4. CASE d # q /\ d \notin DOMAIN K
    <3>1. ASSUME d \in DOMAIN l PROVE d = b
      <4>1. d \in DOMAIN H /\ d \in Nat /\ H[d].size \in Nat /\ H[d].type = Use /\ d > q /\ d < hi
        BY <1>1, <1>2, <1>10, <2>1, <2>4, <3>1, SoundFacts
      <4>2. c < d => hi <= d
        BY <1>1, <4>1 DEF Sound, Tiles, Disjoint
      <4>3. q <= d /\ d <= c
        BY <1>1, <1>2, <4>1, <4>2
      <4>4. QED
        BY <4>1, <4>3 DEF Free, Use
    <3>2. QED
      BY <1>12, <2>4, <3>1
  <2>5. QED
    BY <2>2, <2>3, <2>4
<1>14. Holds(K, l2)
  <2>1. DOMAIN l2 = {d \in DOMAIN K : K[d].type = Use}
    BY <1>13
  <2>2. ASSUME NEW d \in DOMAIN l2 PROVE l2[d] = K[d].used
    <3>1. d \in DOMAIN K /\ K[d].type = Use /\ l2[d] = l[d] /\ d \in DOMAIN l
      BY <1>12, <1>13
    <3>2. d # q
      BY <1>9, <1>10, <3>1 DEF Free, Use
    <3>3. QED
      BY <1>10, <3>1, <3>2 DEF Sound, Holds
  <2>3. QED
    BY <2>1, <2>2 DEF Holds
<1>15. Sound(m2, l2, e, K)
  <2>1. q <= c /\ K = Absorbed(H, q, hi, Blk(hi - q, H[q].prev, H[c].next, Free, u))
    BY <1>1, <1>2, <1>4, <1>7, <1>8
  <2>2. Lies(m2, q, hi - q, H[q].prev, H[c].next, Free, u) /\ Changed(m, m2, q, hi) /\ u <= hi - q - 72
        /\ Free \in {Free, Use} /\ hi = c + H[c].size
    BY <1>1, <1>4, <1>6
  <2>3. QED
    BY <1>14, <2>1, <2>2, AbsorbSound
<1>16. Merged(m, q, s, H[c].next) = m2
  BY <1>1, <1>4, <1>5
<1> QED
  BY <1>11, <1>15, <1>16 DEF HeapSound

LEMMA FreedSound ==
  ASSUME NEW m, NEW l, NEW e, NEW H, Sound(m, l, e, H), NEW b \in DOMAIN H, H[b].type = Use, ~ Misleads(m, b)
  PROVE  HeapSound(Freed(m, b), [x \in DOMAIN l \ {b} |-> l[x]], e)
<1>1. PICK s \in Nat : s = H[b].size
  BY SoundFacts
<1>2. /\ b \in Nat \ {0} /\ s >= 72 /\ MemVals(m)
      /\ Lies(m, b, s, H[b].prev, H[b].next, Use, H[b].used)
  BY <1>1, SoundFacts
<1>3. TotalSize(m, b) = s /\ NextPos(m, b) = H[b].next
  BY <1>2, LiesFields
<1>4. ASSUME CanMergeNext(m, b)
      PROVE  \E c \in DOMAIN H : /\ c = b + s /\ H[c].type = Free /\ TotalSize(m, c) = H[c].size
                                 /\ NextPos(m, c) = H[c].next /\ Read(m, c) = H[c].size
  <2>1. H[b].next = b + s /\ Type(m, b + s) = Free
    BY <1>3, <1>4 DEF CanMergeNext
  <2>2. PICK c \in DOMAIN H : c = b + s
    BY <1>1, <2>1, NextIs
  <2>3. c \in Nat \ {0} /\ Lies(m, c, H[c].size, H[c].prev, H[c].next, H[c].type, H[c].used)
    BY SoundFacts
  <2>4. TotalSize(m, c) = H[c].size /\ NextPos(m, c) = H[c].next /\ Read(m, c) = H[c].size /\ Type(m, c) = H[c].type
    BY <2>3, LiesFields
  <2>5. QED
    BY <2>1, <2>2, <2>4
<1>5. ASSUME CanMergePrev(m, b)
      PROVE  \E q \in DOMAIN H : q + H[q].size = b /\ H[q].type = Free /\ Read(m, b - 8) = H[q].size
  <2>1. PICK q \in DOMAIN H : q + H[q].size = b /\ Read(m, b - 8) = H[q].size /\ Type(m, b - Read(m, b - 8)) = H[q].type
    BY <1>5, PrevIs
  <2>2. H[q].type # Use /\ H[q].type \in {Free, Use}
    BY <1>5, <2>1, SoundFacts DEF Misleads
  <2>3. QED
    BY <2>1, <2>2
<1>6. \A d, f \in DOMAIN H : /\ d \in Nat /\ H[d].size \in Nat /\ H[d].size >= 72
                             /\ (d < f => d + H[d].size <= f)
  BY SoundFacts DEF Tiles, Disjoint
<1>7. CASE CanMergePrev(m, b) /\ CanMergeNext(m, b)
  <2>1. PICK c \in DOMAIN H : /\ c = b + s /\ H[c].type = Free /\ TotalSize(m, c) = H[c].size
                              /\ NextPos(m, c) = H[c].next /\ Read(m, c) = H[c].size
    BY <1>4, <1>7
  <2>2. PICK q \in DOMAIN H : q + H[q].size = b /\ H[q].type = Free /\ Read(m, b - 8) = H[q].size
    BY <1>5, <1>7
  <2>3. q \in Nat /\ c \in Nat /\ H[q].size \in Nat /\ H[c].size \in Nat /\ H[q].size >= 72
    BY <1>6
  <2>4. q <= b /\ b <= c /\ b - H[q].size = q /\ s + H[c].size + H[q].size = c + H[c].size - q
    BY <1>2, <2>1, <2>2, <2>3
  <2>5. ASSUME NEW d \in DOMAIN H, q <= d, d <= c, d # b PROVE H[d].type = Free
    <3>1. /\ d \in Nat /\ (q < d => q + H[q].size <= d) /\ (b < d => b + H[b].size <= d)
      BY <1>6
    <3>2. d = q \/ d = c
      BY <1>1, <1>2, <2>1, <2>2, <2>3, <2>5, <3>1
    <3>3. QED
      BY <2>1, <2>2, <3>2
  <2>6. PICK n \in DOMAIN e : Low(e, n) <= q /\ b + H[b].size <= High(e, n)
    BY <2>2, SameSlot
  <2>7. PICK k \in DOMAIN e : Low(e, k) <= b /\ c + H[c].size <= High(e, k)
    BY <1>1, <2>1, SameSlot
  <2>8. n = k
    <3>1. n # k => High(e, n) < Low(e, k) \/ High(e, k) < Low(e, n)
      BY DEF Sound, Apart
    <3>2. Low(e, n) \in Nat /\ High(e, n) \in Nat /\ Low(e, k) \in Nat /\ High(e, k) \in Nat
      BY DEF Sound, Apart
    <3>3. QED
      BY <1>1, <1>2, <2>1, <2>3, <2>4, <2>6, <2>7, <3>1, <3>2
  <2>9. Freed(m, b) = Merged(m, q, s + H[c].size + H[q].size, H[c].next)
    BY <1>3, <1>7, <2>1, <2>2, <2>4 DEF Freed, DoMergeBoth
  <2>10. HeapSound(Merged(m, q, s + H[c].size + H[q].size, H[c].next), [x \in DOMAIN l \ {b} |-> l[x]], e)
    BY <2>4, <2>5, <2>6, <2>7, <2>8, MergeSound
  <2>11. QED
    BY <2>9, <2>10
<1>8. CASE CanMergePrev(m, b) /\ ~ CanMergeNext(m, b)
  <2>1. PICK q \in DOMAIN H : q + H[q].size = b /\ H[q].type = Free /\ Read(m, b - 8) = H[q].size
    BY <1>5, <1>8
  <2>2. q \in Nat /\ H[q].size \in Nat /\ H[q].size >= 72
    BY <1>6
  <2>3. q <= b /\ b <= b /\ b - H[q].size = q /\ s + H[q].size = b + H[b].size - q
    BY <1>1, <1>2, <2>1, <2>2
  <2>4. ASSUME NEW d \in DOMAIN H, q <= d, d <= b, d # b PROVE H[d].type = Free
    <3>1. d \in Nat /\ (q < d => q + H[q].size <= d)
      BY <1>6
    <3>2. d = q
      BY <1>2, <2>1, <2>2, <2>4, <3>1
    <3>3. QED
      BY <2>1, <3>2
  <2>5. PICK n \in DOMAIN e : Low(e, n) <= q /\ b + H[b].size <= High(e, n)
    BY <2>1, SameSlot
  <2>6. Freed(m, b) = Merged(m, q, s + H[q].size, H[b].next)
    BY <1>3, <1>8, <2>1, <2>3 DEF Freed, DoMergePrev
  <2>7. HeapSound(Merged(m, q, s + H[q].size, H[b].next), [x \in DOMAIN l \ {b} |-> l[x]], e)
    BY <2>3, <2>4, <2>5, MergeSound
  <2>8. QED
    BY <2>6, <2>7
<1>9. CASE ~ CanMergePrev(m, b) /\ CanMergeNext(m, b)
  <2>1. PICK c \in DOMAIN H : /\ c = b + s /\ H[c].type = Free /\ TotalSize(m, c) = H[c].size
                              /\ NextPos(m, c) = H[c].next /\ Read(m, c) = H[c].size
    BY <1>4, <1>9
  <2>2. c \in Nat /\ H[c].size \in Nat
    BY <1>6
  <2>3. b <= b /\ b <= c /\ s + H[c].size = c + H[c].size - b
    BY <1>2, <2>1, <2>2
  <2>4. ASSUME NEW d \in DOMAIN H, b <= d, d <= c, d # b PROVE H[d].type = Free
    <3>1. d \in Nat /\ (b < d => b + H[b].size <= d)
      BY <1>6
    <3>2. d = c
      BY <1>1, <1>2, <2>1, <2>2, <2>4, <3>1
    <3>3. QED
      BY <2>1, <3>2
  <2>5. PICK n \in DOMAIN e : Low(e, n) <= b /\ c + H[c].size <= High(e, n)
    BY <1>1, <2>1, SameSlot
  <2>6. Freed(m, b) = Merged(m, b, s + H[c].size, H[c].next)
    BY <1>3, <1>9, <2>1 DEF Freed, DoMergeNext
  <2>7. HeapSound(Merged(m, b, s + H[c].size, H[c].next), [x \in DOMAIN l \ {b} |-> l[x]], e)
    BY <2>3, <2>4, <2>5, MergeSound
  <2>8. QED
    BY <2>6, <2>7
<1>10. CASE ~ CanMergePrev(m, b) /\ ~ CanMergeNext(m, b)
  <2>1. PICK m2 : m2 = Set(m, b, 32, Free)
    OBVIOUS
  <2>2. Lies(m2, b, s, H[b].prev, H[b].next, Free, H[b].used) /\ Changed(m, m2, b, b + s)
    BY <1>2, <2>1, SetTypeIs DEF Free
  <2>3. PICK x : x = Blk(H[b].size, H[b].prev, H[b].next, Free, H[b].used)
    OBVIOUS
  <2>4. x.type = Free /\ x.used = H[b].used
    BY <2>3, BlkIs
  <2>5. PICK K : K = Retyped(H, b, Free, H[b].used)
    OBVIOUS
  <2>6. DOMAIN K = DOMAIN H /\ K[b] = x /\ \A c \in DOMAIN H : c # b => K[c] = H[c]
    BY <2>3, <2>5 DEF Retyped
  <2>7. PICK l2 : l2 = [y \in DOMAIN l \ {b} |-> l[y]]
    OBVIOUS
  <2>8. Holds(K, l2)
    <3>1. DOMAIN l2 = DOMAIN l \ {b} /\ \A d \in DOMAIN l2 : l2[d] = l[d]
      BY <2>7
    <3>2. DOMAIN l = {d \in DOMAIN H : H[d].type = Use} /\ \A d \in DOMAIN l : l[d] = H[d].used
      BY DEF Sound, Holds
    <3>3. \A d \in DOMAIN K : K[d].type = Use <=> d \in DOMAIN l2
      BY <2>4, <2>6, <3>1, <3>2 DEF Free, Use
    <3>4. QED
      BY <2>6, <3>1, <3>2, <3>3 DEF Holds
  <2>9. Sound(m2, l2, e, K)
    <3>1. H[b].used \in Nat /\ H[b].used <= H[b].size - 72 /\ Free \in {Free, Use}
      BY SoundFacts
    <3>2. Lies(m2, b, H[b].size, H[b].prev, H[b].next, Free, H[b].used) /\ Changed(m, m2, b, b + H[b].size)
      BY <1>1, <2>2
    <3>3. QED
      BY <2>5, <2>8, <3>1, <3>2, RetypeSound
  <2>10. Freed(m, b) = m2
    BY <1>10, <2>1 DEF Freed
  <2>11. QED
    BY <2>7, <2>9, <2>10 DEF HeapSound
<1> QED
  BY <1>7, <1>8, <1>9, <1>10

\* Whatever is written over the data of a block, the heap stays what it was.
LEMMA DataSound ==
  ASSUME NEW m, NEW m2, NEW l, NEW e, NEW H, Sound(m, l, e, H), NEW b \in DOMAIN H,
         Changed(m, m2, b + 64, b + H[b].size), Word(m2, b + H[b].size - 8, H[b].size)
  PROVE  Sound(m2, l, e, H)
<1>1. b \in Nat \ {0} /\ H[b].size \in Nat /\ H[b].size >= 72 /\ MemVals(m)
      /\ Lies(m, b, H[b].size, H[b].prev, H[b].next, H[b].type, H[b].used)
  BY SoundFacts
<1>2. Changed(m, m2, b, b + H[b].size)
  BY <1>1, ChangedWithin
<1>3. ASSUME NEW a \in Int, NEW v, a < b + 64, Word(m, a, v) PROVE Word(m2, a, v)
  BY <1>1, <1>3 DEF Changed, Word
<1>4. Block(m2, b, H[b])
  BY <1>1, <1>3 DEF Lies, Block
<1>5. ASSUME NEW c \in DOMAIN H PROVE Block(m2, c, H[c])
  <2>1. CASE c = b
    BY <1>4, <2>1
  <2>2. CASE c # b
    <3>1. c \in Nat /\ H[c].size \in Nat
      BY SoundFacts
    <3>2. c + H[c].size <= b \/ c >= b + H[b].size
      BY <1>1, <2>2, <3>1 DEF Sound, Tiles, Disjoint
    <3>3. QED
      BY <1>1, <1>2, <3>2, OthersStay
  <2>3. QED
    BY <2>1, <2>2
<1>6. MemOK(m2, e)
  <2>1. PICK hi \in Int : hi = b + H[b].size
    BY <1>1
  <2>2. hi <= b + H[b].size
    BY <2>1
  <2>3. QED
    BY <1>2, <2>1, <2>2, InOneSlot
<1> QED
  BY <1>5, <1>6 DEF Sound, Rep

LEMMA OverwriteSound ==
  ASSUME NEW m, NEW l, NEW e, NEW H, Sound(m, l, e, H), NEW b \in DOMAIN H, NEW n \in Nat, n <= H[b].size - 72
  PROVE  Sound(Overwrite(m, b, n), l, e, H)
<1>1. PICK m2 : m2 = Overwrite(m, b, n)
  OBVIOUS
<1>2. b \in Nat \ {0} /\ H[b].size \in Nat /\ H[b].size >= 72 /\ MemVals(m)
      /\ Lies(m, b, H[b].size, H[b].prev, H[b].next, H[b].type, H[b].used)
  BY SoundFacts
<1>3. DOMAIN m2 = {x \in DOMAIN m : x < b + 64 \/ x >= b + 64 + n} /\ \A a \in DOMAIN m2 : m2[a] = m[a]
  BY <1>1 DEF Overwrite
<1>4. MemVals(m2)
  <2>1. DOMAIN m2 \subseteq DOMAIN m
    BY <1>3
  <2>2. QED
    BY <1>2, <1>3, <2>1, FS_Subset DEF MemVals
<1>5. ASSUME NEW a \in DOMAIN m, a < b + 64 \/ a >= b + H[b].size - 8 PROVE Word(m2, a, m[a])
  <2>1. a \in Int
    BY <1>2 DEF MemVals
  <2>2. a < b + 64 \/ a >= b + 64 + n
    BY <1>2, <1>5, <2>1
  <2>3. QED
    BY <1>3, <2>2 DEF Word
<1>6. Changed(m, m2, b + 64, b + H[b].size)
  <2>1. \A a \in DOMAIN m : a < b + 64 \/ a >= b + H[b].size => Word(m2, a, m[a])
    BY <1>2, <1>5 DEF MemVals
  <2>2. QED
    BY <1>3, <1>4, <2>1 DEF Changed
<1>7. Word(m2, b + H[b].size - 8, H[b].size)
  <2>1. PICK a \in Int : a = b + H[b].size - 8
    BY <1>2
  <2>2. a \in DOMAIN m /\ m[a] = H[b].size
    BY <1>2, <2>1 DEF Lies, Word
  <2>3. QED
    BY <1>5, <2>1, <2>2 DEF Word
<1> QED
  BY <1>1, <1>6, <1>7, DataSound

LEMMA GivenSound ==
  ASSUME NEW m, NEW l, NEW e, NEW H, Sound(m, l, e, H), NEW b \in DOMAIN H, NEW n \in Nat, n <= H[b].size - 72
  PROVE  Sound(Given(m, b, n), l, e, H)
BY OverwriteSound DEF Given

LEMMA CopySound ==
  ASSUME NEW m, NEW l, NEW e, NEW H, Sound(m, l, e, H), NEW b \in DOMAIN H, NEW n \in Nat, n <= H[b].size - 72,
         NEW from \in Int
  PROVE  Sound(CopyRange(m, from, b + 64, n), l, e, H)
<1>1. PICK to \in Int, s \in Nat : to = b + 64 /\ s = H[b].size
  BY SoundFacts
<1>2. b \in Nat \ {0} /\ s >= 72 /\ n <= s - 72 /\ MemVals(m) /\ Lies(m, b, s, H[b].prev, H[b].next, H[b].type, H[b].used)
  BY <1>1, SoundFacts
<1> DEFINE X == {x \in DOMAIN m : from <= x /\ x < from + n}
           kept == {a \in DOMAIN m : a < to \/ a >= to + n}
           moved == {a - from + to : a \in X}
           m2 == [a \in kept \cup moved |-> IF a \in moved THEN m[a - to + from] ELSE m[a]]
<1>3. CopyRange(m, from, to, n) = m2
  BY DEF CopyRange
<1>4. X \subseteq Int /\ \A a \in X : m[a] \in Int
  BY <1>2 DEF MemVals
<1>5. \A a \in moved : a \in Int /\ to <= a /\ a < to + n /\ m[a - to + from] \in Int
  <2>1. ASSUME NEW x \in X, NEW a, a = x - from + to
        PROVE  a \in Int /\ to <= a /\ a < to + n /\ m[a - to + from] \in Int
    <3>1. x \in Int /\ a \in Int /\ a - to + from = x
      BY <1>4, <2>1
    <3>2. QED
      BY <1>4, <2>1, <3>1
  <2>2. QED
    BY <2>1
<1>6. IsFiniteSet(kept \cup moved)
  <2>1. IsFiniteSet(X) /\ IsFiniteSet(kept)
    BY <1>2, FS_Subset DEF MemVals
  <2> DEFINE f == [x \in X |-> x - from + to]
  <2>2. f \in Surjection(X, moved)
    BY DEF Surjection
  <2>3. IsFiniteSet(moved)
    BY <2>1, <2>2, FS_Surjection
  <2>4. QED
    BY <2>1, <2>3, FS_Union
<1>7. kept \subseteq Int /\ \A a \in kept : m[a] \in Int
  BY <1>2 DEF MemVals
<1>8. DOMAIN m2 = kept \cup moved /\ \A a \in kept \cup moved : m2[a] = IF a \in moved THEN m[a - to + from] ELSE m[a]
  OBVIOUS
<1>9. ASSUME NEW a \in DOMAIN m, a < to \/ a >= to + n PROVE Word(m2, a, m[a])
  <2>1. a \in kept /\ a \in Int
    BY <1>7, <1>9
  <2> HIDE DEF kept, moved, m2
  <2>2. a \notin moved
    BY <1>5, <1>9, <2>1
  <2>3. QED
    BY <1>8, <2>1, <2>2 DEF Word
<1>10. kept \subseteq DOMAIN m
  OBVIOUS
<1> HIDE DEF X, kept, moved, m2
<1>11. MemVals(m2)
  BY <1>5, <1>6, <1>7, <1>8 DEF MemVals
<1>12. to + n <= b + s - 8
  BY <1>1, <1>2
<1>13. Changed(m, m2, to, b + s)
  <2>1. ASSUME NEW a \in DOMAIN m, a < to \/ a >= b + s PROVE Word(m2, a, m[a])
    <3>1. a \in Int
      BY <1>2 DEF MemVals
    <3>2. a < to \/ a >= to + n
      BY <1>2, <1>12, <2>1, <3>1
    <3>3. QED
      BY <1>9, <3>2
  <2>2. ASSUME NEW a \in DOMAIN m2 PROVE a \in DOMAIN m \/ (to <= a /\ a + 8 <= b + s)
    BY <1>2, <1>5, <1>8, <1>10, <1>12
  <2>3. QED
    BY <1>11, <2>1, <2>2 DEF Changed
<1>14. Word(m2, b + s - 8, s)
  <2>1. PICK a \in Int : a = b + s - 8
    BY <1>2
  <2>2. a \in DOMAIN m /\ m[a] = s
    BY <1>2, <2>1 DEF Lies, Word
  <2>3. a >= to + n
    BY <1>12, <2>1
  <2>4. QED
    BY <1>9, <2>1, <2>2, <2>3
<1> QED
  BY <1>1, <1>3, <1>13, <1>14, DataSound

LEMMA InPlaceSound ==
  ASSUME NEW m, NEW l, NEW e, NEW H, Sound(m, l, e, H), NEW b \in DOMAIN H, H[b].type = Use,
         NEW n \in Nat, n <= H[b].size - 72
  PROVE  HeapSound(Set(m, b, 56, n), [l EXCEPT ![b] = n], e)
<1>1. PICK m2 : m2 = Set(m, b, 56, n)
  OBVIOUS
<1>2. /\ b \in Nat \ {0} /\ H[b].size \in Nat /\ H[b].size >= 72 /\ MemVals(m)
      /\ Lies(m, b, H[b].size, H[b].prev, H[b].next, Use, H[b].used)
  BY SoundFacts
<1>3. Lies(m2, b, H[b].size, H[b].prev, H[b].next, Use, n) /\ Changed(m, m2, b, b + H[b].size)
  BY <1>1, <1>2, SetP2Is
<1>4. PICK x : x = Blk(H[b].size, H[b].prev, H[b].next, Use, n)
  OBVIOUS
<1>5. PICK K : K = Retyped(H, b, Use, n)
  OBVIOUS
<1>6. DOMAIN K = DOMAIN H /\ K[b] = x /\ \A c \in DOMAIN H : c # b => K[c] = H[c]
  BY <1>4, <1>5 DEF Retyped
<1>7. x.type = Use /\ x.used = n
  BY <1>4, BlkIs
<1>8. PICK l2 : l2 = [l EXCEPT ![b] = n]
  OBVIOUS
<1>9. Holds(K, l2)
  <2>1. DOMAIN l = {d \in DOMAIN H : H[d].type = Use} /\ \A d \in DOMAIN l : l[d] = H[d].used
    BY DEF Sound, Holds
  <2>2. DOMAIN l2 = DOMAIN l /\ l2[b] = n /\ \A d \in DOMAIN l : d # b => l2[d] = l[d]
    BY <1>8, <2>1
  <2>3. \A d \in DOMAIN K : K[d].type = Use <=> d \in DOMAIN l
    BY <1>6, <1>7, <2>1
  <2>4. QED
    BY <1>6, <1>7, <2>1, <2>2, <2>3 DEF Holds
<1>10. Sound(m2, l2, e, K)
  BY <1>2, <1>3, <1>5, <1>9, Use \in {Free, Use}, RetypeSound
<1> QED
  BY <1>1, <1>8, <1>10 DEF HeapSound

LEMMA SetSizeKeeps ==
  ASSUME NEW m, NEW b \in Nat \ {0}, Signed(m, b), NEW n \in Int, n >= 72,
         NEW a \in Int, NEW w, Word(m, a, w), a # b, a # b + 40, a # b + n - 8
  PROVE  Word(SetSize(m, b, n), a, w)
<1>1. PICK m1 : m1 = Put(m, b, n)
  OBVIOUS
<1>2. PICK m2 : m2 = Put(m1, b + (n - 8), n)
  OBVIOUS
<1>3. PICK m3 : m3 = Put(m2, b + 40, n - OverheadSize)
  OBVIOUS
<1>4. Word(m1, a, w) /\ Signed(m1, b)
  BY <1>1, PutKeeps DEF Signed
<1>5. Word(m2, a, w) /\ Signed(m2, b)
  <2>1. b + 8 # b + (n - 8) /\ a # b + (n - 8)
    OBVIOUS
  <2>2. QED
    BY <1>2, <1>4, <2>1, PutKeeps DEF Signed
<1>6. Word(m3, a, w)
  BY <1>3, <1>5, PutKeeps
<1>7. Set(m, b, 0, n) = m1
  <2>1. b + 0 = b
    OBVIOUS
  <2>2. QED
    BY <1>1, <2>1, SetIs
<1>8. Set(m1, b, n - 8, n) = m2 /\ Set(m2, b, 40, n - OverheadSize) = m3
  BY <1>2, <1>3, <1>4, <1>5, SetIs
<1> QED
  BY <1>6, <1>7, <1>8 DEF SetSize

\* Block b takes in the free block that follows it, and gives back what is more than n.
LEMMA ExtendedSound ==
  ASSUME NEW m, NEW l, NEW e, NEW H, Sound(m, l, e, H), NEW b \in DOMAIN H, H[b].type = Use,
         NEW c \in DOMAIN H, c = b + H[b].size, H[c].type = Free,
         NEW n \in Nat, n <= H[b].size + H[c].size - 72
  PROVE  HeapSound(Extended(m, b, n), [l EXCEPT ![b] = n], e)
<1>1. PICK s \in Nat, k \in Nat, nx \in Int : s = H[b].size /\ k = H[c].size /\ nx = H[c].next
  BY SoundFacts
<1>2. /\ b \in Nat \ {0} /\ c \in Nat \ {0} /\ s >= 72 /\ k >= 72 /\ MemVals(m) /\ c = b + s
      /\ Lies(m, b, s, H[b].prev, H[b].next, Use, H[b].used)
      /\ Lies(m, c, k, H[c].prev, nx, Free, H[c].used)
      /\ H[b].prev \in Int
  BY <1>1, SoundFacts
<1>3. PICK S \in Nat : S = s + k /\ S >= 144 /\ n <= S - 72
  BY <1>1, <1>2
<1>4. PICK m1 : m1 = SetSize(m, b, S)
  OBVIOUS
<1>5. Lies(m1, b, S, H[b].prev, H[b].next, Use, H[b].used) /\ Changed(m, m1, b, b + S) /\ MemVals(m1)
  BY <1>2, <1>3, <1>4, SetSizeIs DEF Changed
<1>6. NextPos(m1, c) = nx
  <2>1. Word(m1, c + 8, Signature) /\ Word(m1, c + 24, nx)
    <3>1. Word(m, c + 8, Signature) /\ Word(m, c + 24, nx) /\ Signed(m, b)
      BY <1>2 DEF Lies, Signed
    <3>2. \A o \in {8, 24} : c + o # b /\ c + o # b + 40 /\ c + o # b + S - 8
      BY <1>2, <1>3
    <3>3. QED
      BY <1>2, <1>3, <1>4, <3>1, <3>2, SetSizeKeeps
  <2>2. QED
    BY <1>2, <2>1 DEF NextPos, Field, Genuine, Read, Word
<1>7. PICK m2 : m2 = Set(m1, b, 24, nx)
  OBVIOUS
<1>8. Lies(m2, b, S, H[b].prev, nx, Use, H[b].used) /\ Changed(m1, m2, b, b + S) /\ MemVals(m2)
  <2>1. PICK pr, u : pr = H[b].prev /\ u = H[b].used
    OBVIOUS
  <2>2. Lies(m1, b, S, pr, H[b].next, Use, u) /\ S \in Int /\ S >= 72
    BY <1>3, <1>5, <2>1
  <2>3. Lies(m2, b, S, pr, nx, Use, u) /\ Changed(m1, m2, b, b + S)
    BY <1>2, <1>5, <1>7, <2>2, SetNextIs
  <2>4. MemVals(m2)
    BY <2>3 DEF Changed
  <2>5. QED
    BY <2>1, <2>3, <2>4
<1>9. PICK m3 : m3 = Set(m2, b, 56, n)
  OBVIOUS
<1>10. Lies(m3, b, S, H[b].prev, nx, Use, n) /\ Changed(m2, m3, b, b + S) /\ MemVals(m3)
  BY <1>2, <1>3, <1>8, <1>9, SetP2Is DEF Changed
<1>11. Changed(m, m3, b, b + S)
  BY <1>2, <1>5, <1>8, <1>10, ChangedTwice
<1>12. PICK x : x = Blk(S, H[b].prev, nx, Use, n)
  OBVIOUS
<1>13. x.type = Use /\ x.used = n /\ x.size = S /\ x.prev = H[b].prev /\ x.next = nx
  BY <1>12, BlkIs
<1>14. PICK hi \in Nat : hi = b + S
  BY <1>2
<1>15. PICK K : K = Absorbed(H, b, hi, x)
  OBVIOUS
<1>16. DOMAIN K = {d \in DOMAIN H : d <= b \/ d >= hi} /\ K[b] = x
       /\ \A d \in DOMAIN K : d # b => K[d] = H[d]
  BY <1>2, <1>14, <1>15 DEF Absorbed
<1>17. PICK l2 : l2 = [l EXCEPT ![b] = n]
  OBVIOUS
<1>18. DOMAIN l = {d \in DOMAIN H : H[d].type = Use} /\ \A d \in DOMAIN l : l[d] = H[d].used
  BY DEF Sound, Holds
<1>19. DOMAIN l2 = DOMAIN l /\ l2[b] = n /\ \A d \in DOMAIN l : d # b => l2[d] = l[d]
  BY <1>17, <1>18
<1>20. Holds(K, l2)
  <2>1. ASSUME NEW d \in DOMAIN H, H[d].type = Use PROVE d \in DOMAIN K
    <3>1. d # c /\ d \in Nat
      BY <2>1, SoundFacts DEF Free, Use
    <3>2. (b < d => b + H[b].size <= d) /\ (c < d => c + H[c].size <= d)
      BY DEF Sound, Tiles, Disjoint
    <3>3. QED
      BY <1>1, <1>2, <1>3, <1>14, <1>16, <3>1, <3>2
  <2>2. b \in DOMAIN K
    BY <2>1
  <2>3. \A d \in DOMAIN l2 : d \in DOMAIN K /\ K[d].type = Use /\ l2[d] = K[d].used
    BY <1>13, <1>16, <1>18, <1>19, <2>1
  <2>4. \A d \in DOMAIN K : K[d].type = Use => d \in DOMAIN l2
    BY <1>16, <1>18, <1>19
  <2>5. QED
    BY <2>3, <2>4 DEF Holds
<1>21. Sound(m3, l2, e, K)
  <2>1. PICK j \in DOMAIN e : Low(e, j) <= b /\ c + H[c].size <= High(e, j)
    BY SameSlot
  <2>2. K = Absorbed(H, b, hi, Blk(hi - b, H[b].prev, H[c].next, Use, n)) /\ hi = c + H[c].size /\ b <= c
    <3>1. hi - b = S /\ hi = c + H[c].size /\ b <= c
      BY <1>1, <1>2, <1>3, <1>14
    <3>2. QED
      BY <1>1, <1>12, <1>15, <3>1
  <2>3. Lies(m3, b, hi - b, H[b].prev, H[c].next, Use, n) /\ Changed(m, m3, b, hi) /\ n <= hi - b - 72
        /\ Use \in {Free, Use}
    <3>1. hi - b = S /\ n <= hi - b - 72
      BY <1>2, <1>3, <1>14
    <3>2. QED
      BY <1>1, <1>10, <1>11, <1>14, <3>1
  <2>4. b \in DOMAIN H /\ c \in DOMAIN H /\ b <= c /\ j \in DOMAIN e /\ Low(e, j) <= b
        /\ c + H[c].size <= High(e, j) /\ hi = c + H[c].size /\ Sound(m, l, e, H)
    BY <2>1, <2>2
  <2>5. QED
    BY <1>20, <2>2, <2>3, <2>4, AbsorbSound
<1>22. PICK r \in Nat : r = S - 72 - n
  BY <1>3
<1>23. MaxDataLen(m3, b) - n = r
  BY <1>2, <1>10, <1>22, LiesFields DEF OverheadSize
<1>24. TotalSize(m, b) = s /\ TotalSize(m, c) = k
  BY <1>2, LiesFields
<1>25. Extended(m, b, n) = IF r >= 144 THEN DoDivide(m3, b, r) ELSE m3
  BY <1>2, <1>3, <1>4, <1>6, <1>7, <1>9, <1>23, <1>24 DEF Extended, MinDataSize, OverheadSize
<1>26. CASE r >= 144
  <2>1. PICK m4 : m4 = DoDivide(m3, b, r)
    OBVIOUS
  <2>2. PICK f \in Nat : f = S - r /\ f >= 72 /\ n <= f - 72 /\ S = f + r
    BY <1>3, <1>22
  <2>3. Lies(m4, b, f, H[b].prev, b + f, Use, n) /\ Lies(m4, b + f, r, b, nx, Free, 0) /\ Changed(m3, m4, b, b + S)
    BY <1>2, <1>10, <1>26, <2>1, <2>2, DoDivideIs
  <2>4. PICK y : y = Blk(f, H[b].prev, b + f, Use, n)
    OBVIOUS
  <2>5. PICK z : z = Blk(r, b, nx, Free, 0)
    OBVIOUS
  <2>6. y.size = f /\ y.type = Use /\ y.used = n /\ z.type = Free
    BY <2>4, <2>5, BlkIs
  <2>7. PICK K2 : K2 = Cut(K, b, y, z)
    OBVIOUS
  <2>8. DOMAIN K2 = DOMAIN K \cup {b + f} /\ K2[b] = y /\ K2[b + f] = z
        /\ \A d \in DOMAIN K : d # b /\ d # b + f => K2[d] = K[d]
    <3>1. b \in DOMAIN K /\ b + f # b
      BY <1>2, <1>14, <1>16, <2>2
    <3>2. QED
      BY <2>6, <2>7, <3>1 DEF Cut
  <2>9. b + f \notin DOMAIN K
    <3>1. b + f > b /\ b + f < hi /\ b + f \in Nat
      BY <1>2, <1>14, <1>26, <2>2
    <3>2. QED
      BY <1>2, <1>14, <1>16, <3>1
  <2>10. b \in DOMAIN K /\ K[b] = x
    BY <1>2, <1>14, <1>16
  <2>11. Holds(K2, l2)
    <3>1. DOMAIN l2 = {d \in DOMAIN K : K[d].type = Use} /\ \A d \in DOMAIN l2 : l2[d] = K[d].used
      BY <1>20 DEF Holds
    <3>2. b \in DOMAIN l2
      BY <1>18, <1>19
    <3>3. \A d \in DOMAIN l2 : d \in DOMAIN K2 /\ K2[d].type = Use /\ l2[d] = K2[d].used
      BY <1>19, <2>6, <2>8, <2>9, <3>1
    <3>4. \A d \in DOMAIN K2 : K2[d].type = Use => d \in DOMAIN l2
      BY <2>6, <2>8, <3>1, <3>2 DEF Free, Use
    <3>5. QED
      BY <3>3, <3>4 DEF Holds
  <2>12. Sound(m4, l2, e, K2)
    <3>1. K2 = Cut(K, b, Blk(f, K[b].prev, b + f, Use, n), Blk(r, b, K[b].next, Free, 0))
      BY <1>13, <2>4, <2>5, <2>7, <2>10
    <3>2. Lies(m4, b, f, K[b].prev, b + f, Use, n) /\ Lies(m4, b + f, r, b, K[b].next, Free, 0)
          /\ Changed(m3, m4, b, b + K[b].size) /\ K[b].size = f + r /\ r >= 72 /\ Use \in {Free, Use}
      BY <1>13, <1>26, <2>2, <2>3, <2>10
    <3>3. QED
      BY <1>21, <2>2, <2>10, <2>11, <3>1, <3>2, CutSound
  <2>13. QED
    BY <1>17, <1>25, <1>26, <2>1, <2>12 DEF HeapSound
<1>27. CASE ~ (r >= 144)
  BY <1>17, <1>21, <1>25, <1>27 DEF HeapSound
<1> QED
  BY <1>26, <1>27

-----------------------------------------------------------------------------
(* The list                                                                *)

\* A block lies in one slot, and two slots do not touch.
LEMMA SlotOf ==
  ASSUME NEW e, NEW H, Apart(e), Tiles(H, e), NEW b \in DOMAIN H
  PROVE  /\ b \in Nat \ {0} /\ H[b].size \in Nat /\ H[b].size >= 72
         /\ \A k \in DOMAIN e : b + H[b].size # Low(e, k)
         /\ \A k \in DOMAIN e : b # High(e, k)
<1>1. b \in Nat \ {0} /\ H[b].size \in Nat /\ H[b].size >= 72
  BY DEF Tiles, BlocksAre, BlockSet, OverheadSize
<1>2. PICK n \in DOMAIN e : Low(e, n) <= b /\ b + H[b].size <= High(e, n)
  BY DEF Tiles, InSlots
<1>3. ASSUME NEW k \in DOMAIN e PROVE b + H[b].size # Low(e, k) /\ b # High(e, k)
  <2>1. k # n => High(e, n) < Low(e, k) \/ High(e, k) < Low(e, n)
    BY DEF Apart
  <2>2. /\ Low(e, n) \in Nat /\ High(e, n) \in Nat /\ Low(e, k) \in Nat /\ High(e, k) \in Nat
        /\ Low(e, k) < High(e, k)
    BY DEF Apart
  <2>3. QED
    BY <1>1, <1>2, <2>1, <2>2
<1> QED
  BY <1>1, <1>3

LEMMA SameEnd ==
  ASSUME NEW e, NEW H, Apart(e), Tiles(H, e), NEW b \in DOMAIN H, NEW c \in DOMAIN H, b + H[b].size = c + H[c].size
  PROVE  b = c
<1>1. (b < c => b + H[b].size <= c) /\ (c < b => c + H[c].size <= b)
  BY DEF Tiles, Disjoint
<1>2. b \in Nat /\ c \in Nat /\ H[b].size \in Nat /\ H[c].size \in Nat /\ H[b].size >= 72 /\ H[c].size >= 72
  BY SlotOf
<1> QED
  BY <1>1, <1>2

LEMMA SameSlotIs ==
  ASSUME NEW e, Apart(e), NEW n \in DOMAIN e, NEW k \in DOMAIN e,
         Low(e, n) = Low(e, k) \/ High(e, n) = High(e, k)
  PROVE  n = k
<1>1. n # k => High(e, n) < Low(e, k) \/ High(e, k) < Low(e, n)
  BY DEF Apart
<1>2. /\ Low(e, n) \in Nat /\ High(e, n) \in Nat /\ Low(e, n) < High(e, n)
      /\ Low(e, k) \in Nat /\ High(e, k) \in Nat /\ Low(e, k) < High(e, k)
  BY DEF Apart
<1> QED
  BY <1>1, <1>2

\* A next pointer that is not 0 leads to a block, and to each from one other at most; none leads to
\* the first.
LEMMA NextBlock ==
  ASSUME NEW e, NEW H, Apart(e), Tiles(H, e), NEW b \in DOMAIN H, H[b].next # 0
  PROVE  H[b].next \in DOMAIN H
<1>1. ASSUME NEW n \in DOMAIN e, H[b].next = Start(e, n + 1) PROVE H[b].next \in DOMAIN H
  BY <1>1 DEF Start, Tiles, SlotsBegin
<1> QED
  BY <1>1 DEF Tiles, Linked

LEMMA NextOnce ==
  ASSUME NEW e, NEW H, Apart(e), Tiles(H, e), NEW b \in DOMAIN H, NEW c \in DOMAIN H,
         H[b].next # 0, H[b].next = H[c].next
  PROVE  b = c
<1>1. PICK N \in Nat : DOMAIN e = 1 .. N
  BY DEF Apart
<1>2. ASSUME NEW n \in DOMAIN e, H[c].next = Start(e, n + 1)
      PROVE  n + 1 \in DOMAIN e /\ H[c].next = Low(e, n + 1)
  BY <1>2 DEF Start
<1>3. ASSUME NEW n \in DOMAIN e, H[b].next = Start(e, n + 1)
      PROVE  n + 1 \in DOMAIN e /\ H[b].next = Low(e, n + 1)
  BY <1>3 DEF Start
<1>4. CASE b + H[b].size = H[b].next
  <2>1. c + H[c].size = H[c].next
    BY <1>2, <1>4, SlotOf DEF Tiles, Linked
  <2>2. QED
    BY <1>4, <2>1, SameEnd
<1>5. CASE b + H[b].size # H[b].next
  <2>1. PICK n \in DOMAIN e : b + H[b].size = High(e, n) /\ n + 1 \in DOMAIN e /\ H[b].next = Low(e, n + 1)
    BY <1>3, <1>5 DEF Tiles, Linked
  <2>2. c + H[c].size # H[c].next
    BY <2>1, SlotOf
  <2>3. PICK k \in DOMAIN e : c + H[c].size = High(e, k) /\ k + 1 \in DOMAIN e /\ H[c].next = Low(e, k + 1)
    BY <1>2, <2>2 DEF Tiles, Linked
  <2>4. n + 1 = k + 1
    BY <2>1, <2>3, SameSlotIs
  <2>5. n = k
    BY <1>1, <2>4
  <2>6. QED
    BY <2>1, <2>3, <2>5, SameEnd
<1> QED
  BY <1>4, <1>5

LEMMA NoneBeforeFirst ==
  ASSUME NEW e, NEW H, Apart(e), Tiles(H, e), NEW b \in DOMAIN H, H[b].next # 0
  PROVE  H[b].next # Start(e, 1)
<1>1. PICK N \in Nat : DOMAIN e = 1 .. N
  BY DEF Apart
<1>2. SUFFICES ASSUME H[b].next = Start(e, 1) PROVE FALSE
  OBVIOUS
<1>3. 1 \in DOMAIN e /\ H[b].next = Low(e, 1)
  BY <1>2 DEF Start
<1>4. b + H[b].size # H[b].next
  BY <1>3, SlotOf
<1>5. PICK n \in DOMAIN e : H[b].next = Start(e, n + 1)
  BY <1>4 DEF Tiles, Linked
<1>6. n + 1 \in DOMAIN e /\ Low(e, n + 1) = Low(e, 1)
  BY <1>3, <1>5 DEF Start
<1>7. n + 1 = 1
  BY <1>3, <1>6, SameSlotIs
<1> QED
  BY <1>1, <1>7

\* The first blocks of the list, in its order, and the one that comes after them.
Chain(s, H, e) ==
  /\ s \in Seq(DOMAIN H)
  /\ s # <<>> => s[1] = Start(e, 1)
  /\ \A j, k \in 1 .. Len(s) : k = j + 1 => s[k] = H[s[j]].next

After(s, H, e) == IF s = <<>> THEN Start(e, 1) ELSE H[s[Len(s)]].next

LEMMA ChainOnce ==
  ASSUME NEW e, NEW H, Apart(e), Tiles(H, e), NEW s, Chain(s, H, e)
  PROVE  \A j, k \in 1 .. Len(s) : j < k => s[j] # s[k]
<1>1. Len(s) \in Nat /\ \A j \in 1 .. Len(s) : s[j] \in DOMAIN H
  BY LenProperties, ElementOfSeq DEF Chain
<1> DEFINE Twice == {k \in 1 .. Len(s) : \E j \in 1 .. Len(s) : j < k /\ s[j] = s[k]}
<1>2. SUFFICES ASSUME Twice # {} PROVE FALSE
  BY Zenon
<1>3. Twice \in SUBSET Nat
  BY <1>1
<1>4. PICK k \in Twice : \A y \in Twice : k <= y
  <2> HIDE DEF Twice
  <2>1. QED
    BY <1>2, <1>3, HasSmallest
<1>5. PICK j \in 1 .. Len(s) : j < k /\ s[j] = s[k] /\ k \in 1 .. Len(s)
  OBVIOUS
<1>6. PICK c \in 1 .. Len(s) : k = c + 1
  BY <1>1, <1>5
<1>7. s[k] = H[s[c]].next /\ s[c] \in DOMAIN H /\ s[k] \in DOMAIN H /\ s[k] # 0
  BY <1>1, <1>5, <1>6, SlotOf DEF Chain
<1>8. CASE j = 1
  <2>1. s # <<>> /\ s[1] = Start(e, 1)
    BY <1>1, <1>5 DEF Chain
  <2>2. QED
    BY <1>5, <1>7, <1>8, <2>1, NoneBeforeFirst
<1>9. CASE j # 1
  <2>1. PICK d \in 1 .. Len(s) : j = d + 1
    BY <1>1, <1>9
  <2>2. s[j] = H[s[d]].next /\ s[d] \in DOMAIN H
    BY <1>1, <2>1 DEF Chain
  <2>3. s[d] = s[c]
    BY <1>5, <1>7, <2>2, NextOnce
  <2>4. d < c
    BY <1>1, <1>5, <1>6, <2>1
  <2>5. c \in Twice /\ ~ (k <= c)
    BY <1>1, <1>6, <2>3, <2>4
  <2>6. QED
    BY <1>4, <2>5
<1> QED
  BY <1>8, <1>9

LEMMA ChainGrows ==
  ASSUME NEW e, NEW H, Apart(e), Tiles(H, e), NEW s, Chain(s, H, e), After(s, H, e) # 0
  PROVE  Chain(Append(s, After(s, H, e)), H, e) /\ Len(Append(s, After(s, H, e))) = Len(s) + 1
<1>1. PICK x : x = After(s, H, e)
  OBVIOUS
<1>2. Len(s) \in Nat /\ (s # <<>> => Len(s) \in 1 .. Len(s)) /\ \A j \in 1 .. Len(s) : s[j] \in DOMAIN H
  BY LenProperties, ElementOfSeq, EmptySeq DEF Chain
<1>3. x \in DOMAIN H
  <2>1. CASE s = <<>>
    BY <1>1, <2>1 DEF After, Start, Tiles, SlotsBegin
  <2>2. CASE s # <<>>
    BY <1>1, <1>2, <2>2, NextBlock DEF After
  <2>3. QED
    BY <2>1, <2>2
<1>4. PICK t : t = Append(s, x)
  OBVIOUS
<1>5. /\ t \in Seq(DOMAIN H) /\ t # <<>> /\ Len(t) = Len(s) + 1
      /\ \A j \in 1 .. Len(s) : t[j] = s[j]
      /\ t[Len(s) + 1] = x
  BY <1>3, <1>4, AppendProperties DEF Chain
<1>6. t[1] = Start(e, 1)
  <2>1. CASE s = <<>>
    BY <1>1, <1>5, <2>1, EmptySeq DEF After
  <2>2. CASE s # <<>>
    BY <1>2, <1>5, <2>2 DEF Chain
  <2>3. QED
    BY <2>1, <2>2
<1>7. ASSUME NEW j \in 1 .. Len(t), NEW k \in 1 .. Len(t), k = j + 1 PROVE t[k] = H[t[j]].next
  <2>1. CASE k = Len(t)
    <3>1. j = Len(s) /\ j \in 1 .. Len(s) /\ k = Len(s) + 1
      BY <1>2, <1>5, <1>7, <2>1
    <3>2. s # <<>>
      BY <3>1, EmptySeq
    <3>3. t[j] = s[Len(s)] /\ t[k] = H[s[Len(s)]].next
      BY <1>1, <1>5, <3>1, <3>2 DEF After
    <3>4. QED
      BY <3>3
  <2>2. CASE k # Len(t)
    <3>1. j \in 1 .. Len(s) /\ k \in 1 .. Len(s)
      BY <1>2, <1>5, <1>7, <2>2
    <3>2. QED
      BY <1>5, <1>7, <3>1 DEF Chain
  <2>3. QED
    BY <2>1, <2>2
<1>8. Chain(t, H, e)
  BY <1>5, <1>6, <1>7 DEF Chain
<1> QED
  BY <1>1, <1>4, <1>5, <1>8

\* There are no more blocks than signatures.
LEMMA ChainShort ==
  ASSUME NEW m, NEW l, NEW e, NEW H, Sound(m, l, e, H), NEW s, Chain(s, H, e)
  PROVE  /\ Cardinality({a \in DOMAIN m : m[a] = Signature}) \in Nat
         /\ Len(s) <= Cardinality({a \in DOMAIN m : m[a] = Signature})
<1> DEFINE Sig == {a \in DOMAIN m : m[a] = Signature}
           f == [j \in 1 .. Len(s) |-> s[j] + 8]
<1>1. Len(s) \in Nat /\ \A j \in 1 .. Len(s) : s[j] \in DOMAIN H
  BY LenProperties, ElementOfSeq DEF Chain
<1>2. IsFiniteSet(Sig)
  BY FS_Subset DEF Sound, MemOK
<1>3. ASSUME NEW j \in 1 .. Len(s) PROVE s[j] + 8 \in Sig /\ s[j] \in Nat
  <2>1. s[j] \in DOMAIN H
    BY <1>1
  <2>2. PICK b : b = s[j]
    OBVIOUS
  <2>3. b \in Nat \ {0} /\ Block(m, b, H[b])
    BY <2>1, <2>2, SoundFacts
  <2>4. b + 8 \in DOMAIN m /\ m[b + 8] = Signature
    BY <2>3 DEF Block, Lies, Word
  <2>5. QED
    BY <2>2, <2>3, <2>4
<1>4. f \in Injection(1 .. Len(s), Sig)
  <2>1. f \in [1 .. Len(s) -> Sig]
    BY <1>3
  <2>2. ASSUME NEW j \in 1 .. Len(s), NEW k \in 1 .. Len(s), f[j] = f[k] PROVE j = k
    <3>1. s[j] = s[k]
      BY <1>3, <2>2
    <3>2. ~ (j < k) /\ ~ (k < j)
      BY <3>1, ChainOnce DEF Sound
    <3>3. QED
      BY <1>1, <3>2
  <2> HIDE DEF f
  <2>3. QED
    BY <2>1, <2>2 DEF Injection, IsInjective
<1>5. Cardinality(1 .. Len(s)) = Len(s)
  <2>1. PICK z \in Int, w \in Int : z = 1 /\ w = Len(s)
    BY <1>1
  <2>2. Cardinality(z .. w) = IF z > w THEN 0 ELSE w - z + 1
    BY FS_Interval
  <2>3. QED
    BY <1>1, <2>1, <2>2
<1> HIDE DEF f, Sig
<1>6. Cardinality(1 .. Len(s)) <= Cardinality(Sig) /\ Cardinality(Sig) \in Nat
  BY <1>2, <1>4, FS_Injection, FS_CardinalityType
<1> QED
  BY <1>5, <1>6 DEF Sig

InSlot(H, e, n) == {b \in DOMAIN H : Low(e, n) <= b /\ b + H[b].size <= High(e, n)}

\* A set of blocks that has the first of a slot, and with each block the next, has all of the slot.
LEMMA SlotFull ==
  ASSUME NEW e, NEW H, Apart(e), Tiles(H, e), NEW E, NEW n \in DOMAIN e, Low(e, n) \in E,
         \A b \in DOMAIN H : b \in E /\ H[b].next # 0 => H[b].next \in E
  PROVE  InSlot(H, e, n) \subseteq E
<1> DEFINE Out == InSlot(H, e, n) \ E
<1>1. SUFFICES ASSUME Out # {} PROVE FALSE
  OBVIOUS
<1>2. Out \in SUBSET Nat
  BY SlotOf DEF InSlot
<1>3. PICK b \in Out : \A c \in Out : b <= c
  <2> HIDE DEF Out
  <2>1. QED
    BY <1>1, <1>2, HasSmallest
<1>4. b \in DOMAIN H /\ b \notin E /\ Low(e, n) <= b /\ b + H[b].size <= High(e, n)
  BY <1>3 DEF InSlot
<1>5. b \in Nat \ {0} /\ H[b].size \in Nat /\ H[b].size >= 72
  BY <1>4, SlotOf
<1>6. Low(e, n) \in Nat /\ High(e, n) \in Nat
  BY DEF Apart
<1>7. ASSUME NEW k \in DOMAIN e, b = Low(e, k) PROVE FALSE
  <2>1. k # n => High(e, n) < Low(e, k) \/ High(e, k) < Low(e, n)
    BY DEF Apart
  <2>2. High(e, k) \in Nat /\ High(e, k) > Low(e, k)
    BY DEF Apart
  <2>3. k = n
    BY <1>4, <1>5, <1>6, <1>7, <2>1, <2>2
  <2>4. QED
    BY <1>4, <1>7, <2>3
<1>8. PICK q \in DOMAIN H : q + H[q].size = b
  BY <1>4, <1>7 DEF Tiles, Joined
<1>9. q \in Nat \ {0} /\ H[q].size \in Nat /\ H[q].size >= 72
  BY SlotOf
<1>10. q \in InSlot(H, e, n)
  <2>1. PICK k \in DOMAIN e : Low(e, k) <= q /\ q + H[q].size <= High(e, k)
    BY DEF Tiles, InSlots
  <2>2. k # n => High(e, n) < Low(e, k) \/ High(e, k) < Low(e, n)
    BY DEF Apart
  <2>3. Low(e, k) \in Nat /\ High(e, k) \in Nat
    BY DEF Apart
  <2>4. k = n
    BY <1>4, <1>5, <1>6, <1>8, <1>9, <2>1, <2>2, <2>3
  <2>5. QED
    BY <1>4, <1>5, <1>6, <1>8, <1>9, <2>1, <2>4 DEF InSlot
<1>11. q \in E
  <2>1. q \notin Out
    BY <1>3, <1>5, <1>8, <1>9
  <2>2. QED
    BY <1>10, <2>1
<1>12. H[q].next = b
  BY <1>4, <1>8, SlotOf DEF Tiles, Linked
<1> QED
  BY <1>4, <1>5, <1>11, <1>12

LEMMA LastOfSlot ==
  ASSUME NEW e, NEW H, Apart(e), Tiles(H, e), NEW n \in DOMAIN e
  PROVE  \E b \in InSlot(H, e, n) : H[b].next = Start(e, n + 1)
<1> DEFINE Left == {High(e, n) - b : b \in InSlot(H, e, n)}
<1>1. Low(e, n) \in Nat /\ High(e, n) \in Nat /\ Low(e, n) < High(e, n)
  BY DEF Apart
<1>2. ASSUME NEW b \in InSlot(H, e, n)
      PROVE  /\ b \in DOMAIN H /\ b \in Nat /\ H[b].size \in Nat /\ H[b].size >= 72
             /\ Low(e, n) <= b /\ b + H[b].size <= High(e, n) /\ High(e, n) - b \in Nat
  <2>1. b \in DOMAIN H /\ Low(e, n) <= b /\ b + H[b].size <= High(e, n)
    BY DEF InSlot
  <2>2. b \in Nat /\ H[b].size \in Nat /\ H[b].size >= 72
    BY <2>1, SlotOf
  <2>3. QED
    BY <1>1, <2>1, <2>2
<1>3. Low(e, n) \in InSlot(H, e, n)
  <2>1. PICK b \in DOMAIN H : b = Low(e, n)
    BY DEF Tiles, SlotsBegin
  <2>2. PICK k \in DOMAIN e : Low(e, k) <= b /\ b + H[b].size <= High(e, k)
    BY DEF Tiles, InSlots
  <2>3. k # n => High(e, n) < Low(e, k) \/ High(e, k) < Low(e, n)
    BY DEF Apart
  <2>4. b \in Nat /\ H[b].size \in Nat /\ H[b].size >= 72 /\ Low(e, k) \in Nat /\ High(e, k) \in Nat
    BY SlotOf DEF Apart
  <2>5. k = n
    BY <1>1, <2>1, <2>2, <2>3, <2>4
  <2>6. QED
    BY <2>1, <2>2, <2>5 DEF InSlot
<1>4. Left # {} /\ Left \in SUBSET Nat
  BY <1>2, <1>3
<1>5. PICK d \in Left : \A y \in Left : d <= y
  <2> HIDE DEF Left
  <2>1. QED
    BY <1>4, HasSmallest
<1>6. PICK b \in InSlot(H, e, n) : d = High(e, n) - b
  OBVIOUS
<1>7. ASSUME b + H[b].size \in DOMAIN H PROVE FALSE
  <2>1. PICK c \in DOMAIN H : c = b + H[b].size
    BY <1>7
  <2>2. PICK k \in DOMAIN e : Low(e, k) <= c /\ c + H[c].size <= High(e, k)
    BY DEF Tiles, InSlots
  <2>3. k # n => High(e, n) < Low(e, k) \/ High(e, k) < Low(e, n)
    BY DEF Apart
  <2>4. c \in Nat /\ H[c].size \in Nat /\ H[c].size >= 72 /\ Low(e, k) \in Nat /\ High(e, k) \in Nat
    BY SlotOf DEF Apart
  <2>5. k = n
    BY <1>1, <1>2, <2>1, <2>2, <2>3, <2>4
  <2>6. c \in InSlot(H, e, n)
    BY <1>1, <1>2, <2>1, <2>2, <2>4, <2>5 DEF InSlot
  <2>7. d <= High(e, n) - c
    BY <1>5, <2>6
  <2>8. QED
    BY <1>1, <1>2, <1>6, <2>1, <2>4, <2>7
<1>8. PICK k \in DOMAIN e : b + H[b].size = High(e, k) /\ H[b].next = Start(e, k + 1)
  BY <1>2, <1>7 DEF Tiles, Linked
<1>9. k = n
  <2>1. k # n => High(e, n) < Low(e, k) \/ High(e, k) < Low(e, n)
    BY DEF Apart
  <2>2. Low(e, k) \in Nat /\ High(e, k) \in Nat /\ Low(e, k) < High(e, k)
    BY DEF Apart
  <2>3. QED
    BY <1>1, <1>2, <1>8, <2>1, <2>2
<1> QED
  BY <1>8, <1>9

Elems(s) == {s[j] : j \in DOMAIN s}

\* When nothing comes after it, the chain has all blocks.
LEMMA ChainFull ==
  ASSUME NEW e, NEW H, Apart(e), Tiles(H, e), NEW s, Chain(s, H, e), After(s, H, e) = 0
  PROVE  Elems(s) = DOMAIN H
<1> DEFINE E == {s[j] : j \in 1 .. Len(s)}
<1>0. Elems(s) = E
  BY LenProperties DEF Elems, Chain
<1>1. Len(s) \in Nat /\ (s # <<>> => Len(s) \in 1 .. Len(s)) /\ \A j \in 1 .. Len(s) : s[j] \in DOMAIN H
  BY LenProperties, ElementOfSeq, EmptySeq DEF Chain
<1>2. PICK N \in Nat : DOMAIN e = 1 .. N
  BY DEF Apart
<1>3. ASSUME NEW b \in E, H[b].next # 0 PROVE H[b].next \in E
  <2>1. PICK j \in 1 .. Len(s) : b = s[j]
    OBVIOUS
  <2>2. j # Len(s)
    <3>1. s # <<>>
      BY <2>1, EmptySeq
    <3>2. QED
      BY <1>3, <2>1, <3>1 DEF After
  <2>3. PICK k \in 1 .. Len(s) : k = j + 1
    BY <1>1, <2>2
  <2>4. s[k] = H[b].next
    BY <2>1, <2>3 DEF Chain
  <2>5. QED
    BY <2>4
<1>4. 1 \in DOMAIN e => Low(e, 1) \in E
  <2>1. SUFFICES ASSUME 1 \in DOMAIN e PROVE Low(e, 1) \in E
    OBVIOUS
  <2>2. Start(e, 1) = Low(e, 1) /\ Low(e, 1) # 0
    BY <2>1 DEF Start, Apart
  <2>3. s # <<>>
    BY <2>2 DEF After
  <2>4. s[1] = Low(e, 1) /\ 1 \in 1 .. Len(s)
    BY <1>1, <2>2, <2>3 DEF Chain
  <2>5. QED
    BY <2>4
<1> HIDE DEF E
<1> DEFINE S == {k \in Nat : k + 1 \in DOMAIN e => Low(e, k + 1) \in E}
<1>5. 0 \in S
  BY <1>4
<1>6. ASSUME NEW k \in Nat, k \in S PROVE k + 1 \in S
  <2>1. SUFFICES ASSUME (k + 1) + 1 \in DOMAIN e PROVE Low(e, (k + 1) + 1) \in E
    OBVIOUS
  <2>2. PICK n \in DOMAIN e : n = k + 1
    BY <1>2, <2>1
  <2>3. Low(e, n) \in E
    BY <1>6, <2>2
  <2>4. PICK b \in InSlot(H, e, n) : H[b].next = Start(e, n + 1)
    BY LastOfSlot
  <2>5. b \in E
    BY <1>3, <2>3, SlotFull
  <2>6. H[b].next = Low(e, n + 1) /\ H[b].next # 0
    BY <2>1, <2>2, <2>4 DEF Start, Apart
  <2>7. QED
    BY <1>3, <2>2, <2>5, <2>6
<1>7. Nat \subseteq S
  <2> HIDE DEF S
  <2>1. QED
    BY <1>5, <1>6, AllNumbers
<1>8. ASSUME NEW b \in DOMAIN H PROVE b \in E
  <2>1. PICK n \in DOMAIN e : Low(e, n) <= b /\ b + H[b].size <= High(e, n)
    BY DEF Tiles, InSlots
  <2>2. PICK k \in Nat : n = k + 1
    BY <1>2
  <2>3. Low(e, n) \in E
    BY <1>7, <2>2
  <2>4. b \in InSlot(H, e, n)
    BY <2>1 DEF InSlot
  <2>5. QED
    BY <1>3, <2>3, <2>4, SlotFull
<1>9. E \subseteq DOMAIN H
  BY <1>1 DEF E
<1> QED
  BY <1>0, <1>8, <1>9

LEMMA LongerIs ==
  ASSUME NEW m, MemVals(m), firstStart \in Int
  PROVE  \A s \in Seq(Int) : Longer(m, s) \in Seq(Int)
<1>1. \A x : NextPos(m, x) \in Int
  BY DEF NextPos, Field, Read, MemVals
<1>2. ASSUME NEW s \in Seq(Int) PROVE Longer(m, s) \in Seq(Int)
  <2>1. PICK x \in Int : x = IF s = <<>> THEN firstStart ELSE NextPos(m, s[Len(s)])
    BY <1>1
  <2>2. Longer(m, s) = IF x = 0 THEN s ELSE Append(s, x)
    BY <2>1 DEF Longer
  <2>3. QED
    BY <2>2
<1> QED
  BY <1>2

\* The recursive function in List, step by step.
LEMMA ListRounds ==
  ASSUME NEW m, MemVals(m), firstStart \in Int, NEW N \in Nat, N = Cardinality({a \in DOMAIN m : m[a] = Signature})
  PROVE  \E f : f[0] = <<>> /\ (\A k \in 1 .. N : f[k] = Longer(m, f[k - 1])) /\ List(m) = f[N]
<1> DEFINE Good(f) == f = [k \in 0 .. N |-> IF k = 0 THEN <<>> ELSE Longer(m, f[k - 1])]
           Walk == CHOOSE f : Good(f)
           step == [k \in 1 .. N |-> [s \in Seq(Int) |-> Longer(m, s)]]
<1>1. List(m) = Walk[N]
  BY DEF List
<1>2. step \in [1 .. N -> [Seq(Int) -> Seq(Int)]]
  BY LongerIs
<1>3. <<>> \in Seq(Int)
  OBVIOUS
<1>4. PICK f \in [0 .. N -> Seq(Int)] : Follows(f, N, <<>>, step)
  <2> HIDE DEF step
  <2>1. QED
    BY <1>2, <1>3, RecursionExists, Zenon
<1>5. \A k \in 0 .. N : f[k] = IF k = 0 THEN <<>> ELSE Longer(m, f[k - 1])
  <2>1. \A k \in 0 .. N : k # 0 => k \in 1 .. N /\ k - 1 \in 0 .. N
    OBVIOUS
  <2>2. \A k \in 1 .. N : f[k] = step[k][f[k - 1]]
    BY <1>4 DEF Follows
  <2>3. \A k \in 1 .. N : \A s \in Seq(Int) : step[k][s] = Longer(m, s)
    OBVIOUS
  <2>4. f[0] = <<>>
    BY <1>4 DEF Follows
  <2> HIDE DEF step
  <2>5. ASSUME NEW k \in 1 .. N PROVE f[k] = Longer(m, f[k - 1])
    <3>1. k - 1 \in 0 .. N
      OBVIOUS
    <3>2. f[k - 1] \in Seq(Int)
      BY <3>1
    <3>3. QED
      BY <2>2, <2>3, <3>2
  <2>6. QED
    BY <2>1, <2>4, <2>5
<1>6. f = [k \in 0 .. N |-> f[k]]
  OBVIOUS
<1>7. Good(f)
  BY <1>5, <1>6
<1>8. Good(Walk)
  BY <1>7
<1> HIDE DEF Walk
<1>9. \A k \in 0 .. N : Walk[k] = IF k = 0 THEN <<>> ELSE Longer(m, Walk[k - 1])
  BY <1>8, Zenon
<1>10. Walk[0] = <<>> /\ \A k \in 1 .. N : Walk[k] = Longer(m, Walk[k - 1])
  <2>1. 0 \in 0 .. N /\ \A k \in 1 .. N : k \in 0 .. N /\ k # 0
    OBVIOUS
  <2>2. QED
    BY <1>9, <2>1, Zenon
<1> QED
  BY <1>1, <1>10

\* The list has the blocks of the tiling, all of them and no others.
LEMMA ListIs ==
  ASSUME NEW m, NEW l, NEW H, Sound(m, l, e820, H)
  PROVE  List(m) \in Seq(DOMAIN H) /\ Elems(List(m)) = DOMAIN H
<1>1. MemVals(m) /\ Apart(e820) /\ Tiles(H, e820)
  BY SoundFacts
<1>2. firstStart = Start(e820, 1) /\ firstStart \in Int
  BY <1>1 DEF firstStart, SlotStart, Start, Low, Apart
<1>3. Chain(<<>>, H, e820)
  BY DEF Chain
<1>4. PICK N \in Nat : N = Cardinality({a \in DOMAIN m : m[a] = Signature})
  BY <1>3, ChainShort
<1>5. PICK f : f[0] = <<>> /\ (\A k \in 1 .. N : f[k] = Longer(m, f[k - 1])) /\ List(m) = f[N]
  BY <1>1, <1>2, <1>4, ListRounds
<1>6. ASSUME NEW s, Chain(s, H, e820)
      PROVE  Longer(m, s) = IF After(s, H, e820) = 0 THEN s ELSE Append(s, After(s, H, e820))
  <2>1. CASE s = <<>>
    BY <1>2, <2>1 DEF Longer, After
  <2>2. CASE s # <<>>
    <3>1. s[Len(s)] \in DOMAIN H
      BY <1>6, <2>2, LenProperties, ElementOfSeq, EmptySeq DEF Chain
    <3>2. NextPos(m, s[Len(s)]) = H[s[Len(s)]].next
      BY <3>1, SoundFacts, LiesFields
    <3>3. QED
      BY <2>2, <3>2 DEF Longer, After
  <2>3. QED
    BY <2>1, <2>2
<1> DEFINE S == {k \in Nat : k <= N => Chain(f[k], H, e820) /\ (Len(f[k]) = k \/ After(f[k], H, e820) = 0)}
<1>7. 0 \in S
  BY <1>3, <1>5
<1>8. ASSUME NEW k \in Nat, k \in S PROVE k + 1 \in S
  <2>1. SUFFICES ASSUME k + 1 <= N
                 PROVE  Chain(f[k + 1], H, e820) /\ (Len(f[k + 1]) = k + 1 \/ After(f[k + 1], H, e820) = 0)
    OBVIOUS
  <2>2. Chain(f[k], H, e820) /\ (Len(f[k]) = k \/ After(f[k], H, e820) = 0)
    BY <1>8, <2>1
  <2>3. f[k + 1] = Longer(m, f[k])
    <3>1. k + 1 \in 1 .. N /\ (k + 1) - 1 = k
      BY <2>1
    <3>2. QED
      BY <1>5, <3>1
  <2>4. CASE After(f[k], H, e820) = 0
    BY <1>6, <2>2, <2>3, <2>4
  <2>5. CASE After(f[k], H, e820) # 0
    <3>1. PICK s : s = f[k]
      OBVIOUS
    <3>2. PICK t : t = Append(s, After(s, H, e820))
      OBVIOUS
    <3>3. f[k + 1] = t
      BY <1>6, <2>2, <2>3, <2>5, <3>1, <3>2
    <3>4. Chain(t, H, e820) /\ Len(t) = Len(s) + 1
      BY <1>1, <2>2, <2>5, <3>1, <3>2, ChainGrows
    <3>5. QED
      BY <2>2, <2>5, <3>1, <3>3, <3>4
  <2>6. QED
    BY <2>4, <2>5
<1>9. Chain(f[N], H, e820) /\ (Len(f[N]) = N \/ After(f[N], H, e820) = 0)
  <2>1. Nat \subseteq S
    <3> HIDE DEF S
    <3>1. QED
      BY <1>7, <1>8, AllNumbers
  <2>2. QED
    BY <2>1
<1>10. PICK s : s = List(m)
  OBVIOUS
<1>11. Chain(s, H, e820) /\ (Len(s) = N \/ After(s, H, e820) = 0)
  BY <1>5, <1>9, <1>10
<1>12. After(s, H, e820) = 0
  <2>1. SUFFICES ASSUME After(s, H, e820) # 0 PROVE FALSE
    OBVIOUS
  <2>2. PICK t : Chain(t, H, e820) /\ Len(t) = N + 1
    <3>1. Len(s) = N /\ Chain(s, H, e820) /\ Apart(e820) /\ Tiles(H, e820)
      BY <1>1, <1>11, <2>1
    <3>2. /\ Chain(Append(s, After(s, H, e820)), H, e820)
          /\ Len(Append(s, After(s, H, e820))) = Len(s) + 1
      BY <2>1, <3>1, ChainGrows
    <3>3. QED
      BY <3>1, <3>2
  <2>3. Len(t) <= N
    BY <1>4, <2>2, ChainShort
  <2>4. QED
    BY <2>2, <2>3
<1>13. Elems(s) = DOMAIN H
  BY <1>1, <1>11, <1>12, ChainFull
<1>14. s \in Seq(DOMAIN H)
  BY <1>11 DEF Chain
<1> QED
  BY <1>10, <1>13, <1>14

-----------------------------------------------------------------------------
(* The three functions                                                     *)

LEMMA FirstFitIs ==
  ASSUME NEW m, NEW l, NEW H, Sound(m, l, e820, H), NEW n
  PROVE  /\ FirstFit(m, n) # 0 => /\ FirstFit(m, n) \in DOMAIN H /\ H[FirstFit(m, n)].type = Free
                                  /\ H[FirstFit(m, n)].size - 72 >= n
         /\ FirstFit(m, n) = 0 => \A f \in Elems(List(m)) : Type(m, f) = Free => ~ (MaxDataLen(m, f) >= n)
<1>1. PICK s : s = List(m)
  OBVIOUS
<1>2. s \in Seq(DOMAIN H) /\ Elems(s) = DOMAIN H
  BY <1>1, ListIs
<1>3. Len(s) \in Nat /\ DOMAIN s = 1 .. Len(s) /\ \A k \in DOMAIN s : s[k] \in DOMAIN H
  BY <1>2, LenProperties, ElementOfSeq
<1> DEFINE fits == {k \in DOMAIN s : Type(m, s[k]) = Free /\ MaxDataLen(m, s[k]) >= n}
<1>4. FirstFit(m, n) = IF fits = {} THEN 0 ELSE s[Min(fits)]
  BY <1>1 DEF FirstFit
<1>5. CASE fits = {}
  <2>1. ASSUME NEW f \in Elems(s), Type(m, f) = Free PROVE ~ (MaxDataLen(m, f) >= n)
    <3>1. PICK k \in DOMAIN s : f = s[k]
      BY DEF Elems
    <3>2. QED
      BY <1>5, <2>1, <3>1
  <2>2. QED
    BY <1>1, <1>4, <1>5, <2>1
<1>6. CASE fits # {}
  <2>1. fits \in SUBSET Nat
    BY <1>3
  <2>2. PICK k : k \in fits /\ k = Min(fits)
    <3> HIDE DEF fits
    <3>1. QED
      BY <1>6, <2>1, MinIsIn
  <2>3. PICK b \in DOMAIN H : b = s[k]
    BY <1>3, <2>2
  <2>4. FirstFit(m, n) = b /\ Type(m, b) = Free /\ MaxDataLen(m, b) >= n
    BY <1>4, <1>6, <2>2, <2>3
  <2>5. b # 0 /\ Type(m, b) = H[b].type /\ MaxDataLen(m, b) = H[b].size - 72
    BY SoundFacts, LiesFields DEF OverheadSize
  <2>6. QED
    BY <2>4, <2>5
<1> QED
  BY <1>5, <1>6

\* A block that a program holds.
LEMMA HeldIs ==
  ASSUME NEW m, NEW l, NEW e, NEW H, Sound(m, l, e, H), NEW b \in DOMAIN l
  PROVE  /\ b \in DOMAIN H /\ H[b].type = Use /\ l[b] = H[b].used /\ l[b] \in Nat /\ l[b] <= H[b].size - 72
         /\ Type(m, b) = Use /\ CurrentDataLen(m, b) = l[b] /\ MaxDataLen(m, b) = H[b].size - 72
         /\ TotalSize(m, b) = H[b].size /\ NextPos(m, b) = H[b].next
<1>1. b \in DOMAIN H /\ H[b].type = Use /\ l[b] = H[b].used
  BY DEF Sound, Holds
<1>2. /\ b \in Nat \ {0} /\ H[b].used \in Nat /\ H[b].used <= H[b].size - 72 /\ Block(m, b, H[b])
      /\ Lies(m, b, H[b].size, H[b].prev, H[b].next, H[b].type, H[b].used)
  BY <1>1, SoundFacts
<1>3. Type(m, b) = Use /\ MaxDataLen(m, b) = H[b].size - 72 /\ TotalSize(m, b) = H[b].size /\ NextPos(m, b) = H[b].next
  BY <1>1, <1>2, LiesFields DEF OverheadSize
<1>4. CurrentDataLen(m, b) = H[b].used
  BY <1>2, UsedField
<1> QED
  BY <1>1, <1>2, <1>3, <1>4

\* A program writes to what it has been given.
LEMMA GivenHeap ==
  ASSUME NEW m, NEW l, NEW e, HeapSound(m, l, e), NEW b \in DOMAIN l, NEW n, n = l[b]
  PROVE  HeapSound(Given(m, b, n), l, e) /\ HeapSound(Overwrite(m, b, n), l, e)
<1>1. PICK H : Sound(m, l, e, H)
  BY DEF HeapSound
<1>2. b \in DOMAIN H /\ n \in Nat /\ n <= H[b].size - 72
  BY <1>1, HeldIs
<1>3. Sound(Given(m, b, n), l, e, H) /\ Sound(Overwrite(m, b, n), l, e, H)
  BY <1>1, <1>2, GivenSound, OverwriteSound
<1> QED
  BY <1>3 DEF HeapSound

\* Only an answer of 0 changes nothing, and then there is no block for n bytes.
Refusal(n) == UNCHANGED <<mem, live>> /\ \A f \in OnList : Type(mem, f) = Free => ~ (MaxDataLen(mem, f) >= n)

LEMMA RefusalIs ==
  ASSUME NEW H, Sound(mem, live, e820, H), NEW n, FirstFit(mem, n) = 0, UNCHANGED <<mem, live>>
  PROVE  Refusal(n)
<1>1. OnList = Elems(List(mem))
  BY DEF OnList, Blocks, Elems
<1> QED
  BY <1>1, FirstFitIs DEF Refusal

LEMMA AllocStep ==
  ASSUME HeapSound(mem, live, e820), NEW size \in Nat, Alloc(size)
  PROVE  /\ HeapSound(mem', live', e820') /\ e820' = e820 /\ misled' = misled
         /\ refused' # 0 => Refusal(refused')
<1>1. PICK H : Sound(mem, live, e820, H)
  BY DEF HeapSound
<1>2. PICK n \in Nat : n = AlignSize(size)
  BY AlignFacts
<1>3. PICK b : b = FirstFit(mem, n)
  OBVIOUS
<1>4. /\ refused' = IF b = 0 THEN n ELSE 0
      /\ IF b = 0 THEN UNCHANGED <<mem, live>>
                  ELSE mem' = Given(Occupied(mem, b, n), b, n) /\ live' = Put(live, b, n)
      /\ e820' = e820 /\ misled' = misled
  BY <1>2, <1>3 DEF Alloc
<1>5. CASE b = 0
  BY <1>1, <1>3, <1>4, <1>5, RefusalIs
<1>6. CASE b # 0
  <2>1. b \in DOMAIN H /\ H[b].type = Free /\ H[b].size - 72 >= n /\ H[b].size \in Nat
    BY <1>1, <1>3, <1>6, FirstFitIs, SoundFacts
  <2>2. HeapSound(Occupied(mem, b, n), Put(live, b, n), e820)
    BY <1>1, <2>1, OccupiedSound DEF HeapSound
  <2>3. b \in DOMAIN Put(live, b, n) /\ Put(live, b, n)[b] = n
    BY DEF Put
  <2>4. HeapSound(Given(Occupied(mem, b, n), b, n), Put(live, b, n), e820)
    BY <2>2, <2>3, GivenHeap
  <2>5. QED
    BY <1>4, <1>6, <2>4
<1> QED
  BY <1>5, <1>6

LEMMA FreeStep ==
  ASSUME HeapSound(mem, live, e820), NEW b, FreeBlock(b), ~ misled'
  PROVE  HeapSound(mem', live', e820') /\ e820' = e820 /\ refused' = 0
<1>1. PICK H : Sound(mem, live, e820, H)
  BY DEF HeapSound
<1>2. /\ b \in DOMAIN live /\ mem' = Freed(mem, b) /\ live' = Forget(b) /\ refused' = 0
      /\ ~ Misleads(mem, b) /\ e820' = e820
  BY DEF FreeBlock
<1>3. b \in DOMAIN H /\ H[b].type = Use
  BY <1>1, <1>2, HeldIs
<1>4. HeapSound(Freed(mem, b), Forget(b), e820)
  BY <1>1, <1>2, <1>3, FreedSound DEF Forget
<1> QED
  BY <1>2, <1>4

LEMMA FillStep ==
  ASSUME HeapSound(mem, live, e820), NEW b, Fill(b)
  PROVE  HeapSound(mem', live', e820') /\ e820' = e820 /\ misled' = misled /\ refused' = 0
<1>1. b \in DOMAIN live /\ mem' = Overwrite(mem, b, live[b]) /\ UNCHANGED <<e820, live, misled>> /\ refused' = 0
  BY DEF Fill
<1>2. HeapSound(Overwrite(mem, b, live[b]), live, e820)
  BY <1>1, GivenHeap
<1> QED
  BY <1>1, <1>2

LEMMA EnlargeToNextStep ==
  ASSUME HeapSound(mem, live, e820), NEW b \in DOMAIN live, NEW n \in Nat, EnlargeToNext(b, n)
  PROVE  HeapSound(mem', live', e820')
<1>1. PICK H : Sound(mem, live, e820, H)
  BY DEF HeapSound
<1>2. PICK c : c = b + H[b].size
  OBVIOUS
<1>3. b \in DOMAIN H /\ H[b].type = Use /\ MaxDataLen(mem, b) = H[b].size - 72 /\ TotalSize(mem, b) = H[b].size
      /\ NextPos(mem, b) = H[b].next
  BY <1>1, HeldIs
<1>4. c = H[b].next /\ Type(mem, c) = Free /\ MaxDataLen(mem, b) + MaxDataLen(mem, c) >= n
  BY <1>2, <1>3 DEF EnlargeToNext, NextCanBeTaken
<1>5. c \in DOMAIN H
  BY <1>1, <1>2, <1>3, <1>4, NextIs
<1>6. Type(mem, c) = H[c].type /\ MaxDataLen(mem, c) = H[c].size - 72 /\ H[b].size \in Nat /\ H[c].size \in Nat
  BY <1>1, <1>3, <1>5, SoundFacts, LiesFields DEF OverheadSize
<1>7. H[c].type = Free /\ n <= H[b].size + H[c].size - 72
  BY <1>3, <1>4, <1>6
<1>8. HeapSound(Extended(mem, b, n), [live EXCEPT ![b] = n], e820)
  BY <1>1, <1>2, <1>3, <1>5, <1>7, ExtendedSound
<1>9. PICK l2 : l2 = [live EXCEPT ![b] = n] /\ b \in DOMAIN l2 /\ l2[b] = n
  <2>1. PICK l2 : l2 = [live EXCEPT ![b] = n]
    OBVIOUS
  <2>2. b \in DOMAIN l2 /\ l2[b] = n
    BY <2>1
  <2>3. QED
    BY <2>1, <2>2, Zenon
<1>10. HeapSound(Given(Extended(mem, b, n), b, n), l2, e820)
  BY <1>8, <1>9, GivenHeap
<1> QED
  BY <1>9, <1>10 DEF EnlargeToNext

LEMMA EnlargeInPlaceStep ==
  ASSUME HeapSound(mem, live, e820), NEW b \in DOMAIN live, NEW n \in Nat, EnlargeInPlace(b, n)
  PROVE  HeapSound(mem', live', e820')
<1>1. PICK H : Sound(mem, live, e820, H)
  BY DEF HeapSound
<1>2. b \in DOMAIN H /\ H[b].type = Use /\ n <= H[b].size - 72
  BY <1>1, HeldIs DEF EnlargeInPlace
<1>3. HeapSound(Set(mem, b, 56, n), [live EXCEPT ![b] = n], e820)
  BY <1>1, <1>2, InPlaceSound
<1>4. PICK l2 : l2 = [live EXCEPT ![b] = n] /\ b \in DOMAIN l2 /\ l2[b] = n
  <2>1. PICK l2 : l2 = [live EXCEPT ![b] = n]
    OBVIOUS
  <2>2. b \in DOMAIN l2 /\ l2[b] = n
    BY <2>1
  <2>3. QED
    BY <2>1, <2>2, Zenon
<1>5. HeapSound(Given(Set(mem, b, 56, n), b, n), l2, e820)
  BY <1>3, <1>4, GivenHeap
<1> QED
  BY <1>4, <1>5 DEF EnlargeInPlace

LEMMA EnlargeByMovingStep ==
  ASSUME HeapSound(mem, live, e820), NEW b \in DOMAIN live, NEW n \in Nat, EnlargeByMoving(b, n), ~ misled'
  PROVE  HeapSound(mem', live', e820') /\ (refused' # 0 => refused' = n /\ Refusal(n))
<1>1. PICK H : Sound(mem, live, e820, H)
  BY DEF HeapSound
<1>2. PICK p2 : p2 = FirstFit(mem, n)
  OBVIOUS
<1>3. PICK u : u = CurrentDataLen(mem, b)
  OBVIOUS
<1>4. PICK m1 : m1 = Occupied(mem, p2, n)
  OBVIOUS
<1>5. PICK m2 : m2 = CopyRange(m1, b + 64, p2 + 64, u)
  OBVIOUS
<1>6. /\ refused' = IF p2 = 0 THEN n ELSE 0
      /\ p2 = 0 => UNCHANGED <<mem, live>>
      /\ p2 # 0 => /\ misled' = (misled \/ Misleads(m2, b)) /\ mem' = Given(Freed(m2, b), p2, n)
                   /\ live' = Put(Forget(b), p2, n)
      /\ e820' = e820 /\ n > MaxDataLen(mem, b)
  BY <1>2, <1>3, <1>4, <1>5 DEF EnlargeByMoving
<1>7. CASE p2 = 0
  BY <1>1, <1>2, <1>6, <1>7, RefusalIs
<1>8. CASE p2 # 0
  <2>1. p2 \in DOMAIN H /\ H[p2].type = Free /\ n <= H[p2].size - 72
    BY <1>1, <1>2, <1>8, FirstFitIs, SoundFacts
  <2>2. b \in DOMAIN H /\ H[b].type = Use /\ b \in Nat /\ u \in Nat /\ u <= H[b].size - 72
        /\ n > H[b].size - 72 /\ H[b].size \in Nat
    BY <1>1, <1>3, <1>6, HeldIs, SoundFacts
  <2>3. p2 # b /\ u <= n
    BY <2>1, <2>2 DEF Free, Use
  <2>4. PICK l1 : l1 = Put(live, p2, n)
    OBVIOUS
  <2>5. b \in DOMAIN l1 /\ p2 \in DOMAIN l1 /\ l1[p2] = n /\ DOMAIN l1 = DOMAIN live \cup {p2}
        /\ \A x \in DOMAIN live : x # p2 => l1[x] = live[x]
    BY <2>4 DEF Put
  <2>6. PICK K : Sound(m1, l1, e820, K)
    BY <1>1, <1>4, <2>1, <2>4, OccupiedSound
  <2>7. p2 \in DOMAIN K /\ n <= K[p2].size - 72 /\ K[p2].size \in Nat /\ b \in DOMAIN K /\ K[b].type = Use
    BY <2>5, <2>6, HeldIs, SoundFacts
  <2>8. Sound(m2, l1, e820, K)
    <3>1. u <= K[p2].size - 72 /\ b + 64 \in Int
      BY <2>2, <2>3, <2>7
    <3>2. QED
      BY <1>5, <2>2, <2>6, <2>7, <3>1, CopySound
  <2>9. ~ Misleads(m2, b)
    BY <1>6, <1>8
  <2>10. PICK l2 : l2 = [x \in DOMAIN l1 \ {b} |-> l1[x]]
    OBVIOUS
  <2>11. HeapSound(Freed(m2, b), l2, e820)
    BY <2>7, <2>8, <2>9, <2>10, FreedSound
  <2>12. l2 = Put(Forget(b), p2, n) /\ p2 \in DOMAIN l2 /\ l2[p2] = n
    <3>1. PICK l3 : l3 = Put(Forget(b), p2, n)
      OBVIOUS
    <3>2. l3 = [y \in (DOMAIN live \ {b}) \cup {p2} |-> IF y = p2 THEN n ELSE live[y]]
      <4>1. DOMAIN Forget(b) = DOMAIN live \ {b} /\ \A y \in DOMAIN live \ {b} : Forget(b)[y] = live[y]
        BY DEF Forget
      <4>2. QED
        BY <3>1, <4>1 DEF Put
    <3>3. DOMAIN l2 = (DOMAIN live \ {b}) \cup {p2}
      BY <2>3, <2>5, <2>10
    <3>4. \A y \in DOMAIN l2 : l2[y] = IF y = p2 THEN n ELSE live[y]
      BY <2>5, <2>10
    <3>5. l2 = l3
      BY <2>10, <3>2, <3>3, <3>4
    <3>6. QED
      BY <2>3, <2>5, <2>10, <3>1, <3>5
  <2>13. HeapSound(Given(Freed(m2, b), p2, n), l2, e820)
    BY <2>11, <2>12, GivenHeap
  <2>14. QED
    BY <1>6, <1>8, <2>12, <2>13
<1> QED
  BY <1>7, <1>8

LEMMA EnlargeStep ==
  ASSUME HeapSound(mem, live, e820), NEW b, NEW size \in Nat, Enlarge(b, size), ~ misled'
  PROVE  /\ HeapSound(mem', live', e820') /\ e820' = e820
         /\ refused' # 0 => Refusal(refused')
<1>1. PICK n \in Nat : n = AlignSize(size)
  BY AlignFacts
<1>2. b \in DOMAIN live /\ (EnlargeNot(b, n) \/ EnlargeInPlace(b, n) \/ EnlargeToNext(b, n) \/ EnlargeByMoving(b, n))
  BY <1>1 DEF Enlarge
<1>3. CASE EnlargeNot(b, n)
  BY <1>3 DEF EnlargeNot
<1>4. CASE EnlargeInPlace(b, n)
  BY <1>2, <1>4, EnlargeInPlaceStep DEF EnlargeInPlace
<1>5. CASE EnlargeToNext(b, n)
  BY <1>2, <1>5, EnlargeToNextStep DEF EnlargeToNext
<1>6. CASE EnlargeByMoving(b, n)
  <2>1. e820' = e820
    BY <1>6 DEF EnlargeByMoving
  <2>2. QED
    BY <1>2, <1>6, <2>1, EnlargeByMovingStep
<1> QED
  BY <1>2, <1>3, <1>4, <1>5, <1>6

-----------------------------------------------------------------------------
(* What is so of a sound heap                                              *)

LEMMA OnListIs ==
  ASSUME NEW H, Sound(mem, live, e820, H)
  PROVE  OnList = DOMAIN H
<1>1. OnList = Elems(List(mem))
  BY DEF OnList, Blocks, Elems
<1> QED
  BY <1>1, ListIs

LEMMA SoundHeld ==
  ASSUME HeapSound(mem, live, e820)
  PROVE  HeldIsInUse
<1>1. PICK H : Sound(mem, live, e820, H)
  BY DEF HeapSound
<1>2. OnList = DOMAIN H
  BY <1>1, OnListIs
<1>3. ASSUME NEW b \in DOMAIN live
      PROVE  b \in OnList /\ Type(mem, b) = Use /\ live[b] = CurrentDataLen(mem, b) /\ live[b] <= MaxDataLen(mem, b)
  BY <1>1, <1>2, HeldIs
<1>4. ASSUME NEW b \in OnList, Type(mem, b) = Use PROVE b \in DOMAIN live
  <2>1. b \in DOMAIN H /\ H[b].type = Use
    BY <1>1, <1>2, <1>4, SoundFacts, LiesFields
  <2>2. QED
    BY <1>1, <2>1 DEF Sound, Holds
<1> QED
  BY <1>3, <1>4 DEF HeldIsInUse

LEMMA SoundTiles ==
  ASSUME HeapSound(mem, live, e820)
  PROVE  BlocksTile
<1>1. PICK H : Sound(mem, live, e820, H)
  BY DEF HeapSound
<1>2. OnList = DOMAIN H
  BY <1>1, OnListIs
<1>3. ASSUME NEW n \in DOMAIN e820 PROVE e820[n][1] \in OnList
  BY <1>1, <1>2 DEF Sound, Tiles, SlotsBegin, Low
<1>4. ASSUME NEW b \in OnList, NEW end, end = b + TotalSize(mem, b)
      PROVE  /\ Genuine(mem, b)
             /\ TotalSize(mem, b) = MaxDataLen(mem, b) + OverheadSize
             /\ Read(mem, end - 8) = TotalSize(mem, b)
             /\ \/ NextPos(mem, b) = end
                \/ \E n \in DOMAIN e820 : /\ end = e820[n][1] + e820[n][2]
                                          /\ NextPos(mem, b) = SlotStart(n + 1)
  <2>1. b \in DOMAIN H
    BY <1>2
  <2>2. b \in Nat \ {0} /\ H[b].size \in Nat /\ Lies(mem, b, H[b].size, H[b].prev, H[b].next, H[b].type, H[b].used)
    BY <1>1, <2>1, SoundFacts
  <2>3. /\ Genuine(mem, b) /\ TotalSize(mem, b) = H[b].size /\ NextPos(mem, b) = H[b].next
        /\ MaxDataLen(mem, b) = H[b].size - 72 /\ Read(mem, b + H[b].size - 8) = H[b].size
    BY <2>2, LiesFields DEF OverheadSize
  <2>4. TotalSize(mem, b) = MaxDataLen(mem, b) + OverheadSize
    BY <2>2, <2>3 DEF OverheadSize
  <2>5. Read(mem, end - 8) = TotalSize(mem, b)
    <3>1. end - 8 = b + H[b].size - 8
      BY <1>4, <2>2, <2>3
    <3>2. QED
      BY <2>3, <3>1
  <2>6. end = b + H[b].size
    BY <1>4, <2>3
  <2>7. ASSUME NEW n \in DOMAIN e820, end = High(e820, n), H[b].next = Start(e820, n + 1)
        PROVE  end = e820[n][1] + e820[n][2] /\ NextPos(mem, b) = SlotStart(n + 1)
    BY <2>3, <2>7 DEF High, Start, Low, SlotStart
  <2>8. \/ H[b].next = end
        \/ \E n \in DOMAIN e820 : end = High(e820, n) /\ H[b].next = Start(e820, n + 1)
    BY <1>1, <2>1, <2>6 DEF Sound, Tiles, Linked
  <2>9. QED
    BY <2>3, <2>4, <2>5, <2>7, <2>8
<1> QED
  BY <1>3, <1>4 DEF BlocksTile

\* The heap before there is one.
LEMMA EmptySound ==
  HeapSound(<<>>, <<>>, <<>>)
<1>1. PICK z : z = <<>>
  OBVIOUS
<1>2. DOMAIN z = {} /\ DOMAIN z = 1 .. 0
  BY <1>1
<1>3. Apart(z)
  BY <1>2 DEF Apart
<1>4. MemOK(z, z)
  BY <1>2, FS_EmptySet DEF MemOK
<1>5. Rep(z, z) /\ Holds(z, z)
  BY <1>2 DEF Rep, Holds
<1>6. Tiles(z, z)
  BY <1>2 DEF Tiles, BlocksAre, InSlots, Disjoint, SlotsBegin, Joined, Linked
<1> QED
  BY <1>1, <1>3, <1>4, <1>5, <1>6 DEF HeapSound, Sound

-----------------------------------------------------------------------------
(* Making the slots ready                                                  *)

Offered(t, n) == t[n][1] >= MinAddr /\ t[n][3] = 1

Slot(t, n) == <<t[n][1], t[n][2]>>

\* The list s of what the first k slots of table t offer.
Listed(s, t, k) ==
  /\ s \in Seq(Nat \X Nat)
  /\ \A j \in 1 .. Len(s) : \E n \in 1 .. k : Offered(t, n) /\ s[j] = Slot(t, n)
  /\ \A n \in 1 .. k : Offered(t, n) => \E j \in 1 .. Len(s) : s[j] = Slot(t, n)
  /\ \A j, c \in 1 .. Len(s) : j # c => High(s, j) < Low(s, c) \/ High(s, c) < Low(s, j)

LEMMA ListedGrows ==
  ASSUME NEW t \in Tables, NEW d \in Nat, NEW k \in 1 .. Len(t), k = d + 1, NEW s, Listed(s, t, d)
  PROVE  Listed(WithSlot(s, t[k]), t, k)
<1>1. /\ t \in Seq(Nat \X Nat \X Nat) /\ Len(t) \in Nat
      /\ \A n \in 1 .. Len(t) : t[n][1] \in Nat /\ t[n][2] \in Nat
      /\ \A n, c \in 1 .. Len(t) : Offered(t, n) /\ Offered(t, c) /\ n # c =>
           t[n][1] + t[n][2] < t[c][1] \/ t[c][1] + t[c][2] < t[n][1]
  <2>1. t \in Seq(Nat \X Nat \X Nat)
    BY TablesEnd
  <2>2. Len(t) \in Nat /\ DOMAIN t = 1 .. Len(t) /\ \A n \in 1 .. Len(t) : t[n] \in Nat \X Nat \X Nat
    BY <2>1, LenProperties, ElementOfSeq
  <2>3. \A n \in 1 .. Len(t) : t[n][1] \in Nat /\ t[n][2] \in Nat
    BY <2>2
  <2>4. \A n, c \in 1 .. Len(t) : Offered(t, n) /\ Offered(t, c) /\ n # c =>
          t[n][1] + t[n][2] < t[c][1] \/ t[c][1] + t[c][2] < t[n][1]
    BY <2>2, TablesApart DEF Offered
  <2>5. QED
    BY <2>1, <2>2, <2>3, <2>4
<1>2. Len(s) \in Nat /\ s \in Seq(Nat \X Nat) /\ k \in Nat
  BY <1>1 DEF Listed
<1>3. CASE ~ Offered(t, k)
  <2>1. WithSlot(s, t[k]) = s
    BY <1>3 DEF WithSlot, Offered
  <2>2. \A n \in 1 .. k : n = k \/ n \in 1 .. d
    BY <1>2
  <2>3. 1 .. d \subseteq 1 .. k
    BY <1>2
  <2>4. \A j \in 1 .. Len(s) : \E n \in 1 .. k : Offered(t, n) /\ s[j] = Slot(t, n)
    BY <2>3 DEF Listed
  <2>5. \A n \in 1 .. k : Offered(t, n) => \E j \in 1 .. Len(s) : s[j] = Slot(t, n)
    BY <1>3, <2>2 DEF Listed
  <2>6. QED
    BY <2>1, <2>4, <2>5 DEF Listed
<1>4. CASE Offered(t, k)
  <2>1. PICK x : x = Slot(t, k)
    OBVIOUS
  <2>2. x \in Nat \X Nat /\ x[1] = t[k][1] /\ x[2] = t[k][2]
    BY <1>1, <2>1 DEF Slot
  <2>3. PICK z : z = Append(s, x)
    OBVIOUS
  <2>4. /\ z \in Seq(Nat \X Nat) /\ Len(z) = Len(s) + 1 /\ z[Len(s) + 1] = x
        /\ \A j \in 1 .. Len(s) : z[j] = s[j]
    BY <1>2, <2>2, <2>3, AppendProperties
  <2>5. \A j \in 1 .. Len(z) : j \in 1 .. Len(s) \/ j = Len(s) + 1
    BY <1>2, <2>4
  <2>6. 1 .. d \subseteq 1 .. k /\ k \in 1 .. k /\ \A n \in 1 .. k : n = k \/ n \in 1 .. d
    BY <1>2
  <2>7. ASSUME NEW j \in 1 .. Len(z) PROVE \E n \in 1 .. k : Offered(t, n) /\ z[j] = Slot(t, n)
    <3>1. CASE j \in 1 .. Len(s)
      BY <2>4, <2>6, <3>1 DEF Listed
    <3>2. CASE j = Len(s) + 1
      BY <1>4, <2>1, <2>4, <2>6, <3>2
    <3>3. QED
      BY <2>5, <3>1, <3>2
  <2>8. ASSUME NEW n \in 1 .. k, Offered(t, n) PROVE \E j \in 1 .. Len(z) : z[j] = Slot(t, n)
    <3>1. CASE n = k
      <4>1. Len(s) + 1 \in 1 .. Len(z) /\ z[Len(s) + 1] = Slot(t, n)
        BY <1>2, <2>1, <2>4, <3>1
      <4>2. QED
        BY <4>1, Zenon
    <3>2. CASE n \in 1 .. d
      <4>1. PICK j \in 1 .. Len(s) : s[j] = Slot(t, n)
        BY <2>8, <3>2 DEF Listed
      <4>2. j \in 1 .. Len(z) /\ z[j] = s[j]
        BY <1>2, <2>4
      <4>3. z[j] = Slot(t, n)
        BY <4>1, <4>2
      <4>4. QED
        BY <4>2, <4>3, Zenon
    <3>3. QED
      BY <2>6, <3>1, <3>2
  <2>9. ASSUME NEW j \in 1 .. Len(s)
        PROVE  High(s, j) < Low(z, Len(s) + 1) \/ High(z, Len(s) + 1) < Low(s, j)
    <3>1. PICK n \in 1 .. d : Offered(t, n) /\ s[j] = Slot(t, n)
      BY DEF Listed
    <3>2. n # k /\ n \in 1 .. Len(t)
      BY <1>1, <1>2
    <3>3. t[n][1] + t[n][2] < t[k][1] \/ t[k][1] + t[k][2] < t[n][1]
      BY <1>1, <1>4, <3>1, <3>2
    <3>4. s[j][1] = t[n][1] /\ s[j][2] = t[n][2]
      BY <3>1 DEF Slot
    <3>5. QED
      BY <2>2, <2>4, <3>3, <3>4 DEF High, Low
  <2>10. \A j, c \in 1 .. Len(z) : j # c => High(z, j) < Low(z, c) \/ High(z, c) < Low(z, j)
    <3>1. \A j \in 1 .. Len(s) : High(z, j) = High(s, j) /\ Low(z, j) = Low(s, j)
      BY <2>4 DEF High, Low
    <3>2. \A j, c \in 1 .. Len(s) : j # c => High(s, j) < Low(s, c) \/ High(s, c) < Low(s, j)
      BY DEF Listed
    <3>3. QED
      BY <2>5, <2>9, <3>1, <3>2
  <2>11. WithSlot(s, t[k]) = z
    BY <1>4, <2>1, <2>3 DEF WithSlot, Offered, Slot
  <2>12. QED
    BY <2>4, <2>7, <2>8, <2>10, <2>11 DEF Listed
<1> QED
  BY <1>3, <1>4

\* What initE820Arr makes of the table.
LEMMA E820Is ==
  ASSUME table \in Tables
  PROVE  /\ Listed(initE820Arr, table, Len(table) - 1) /\ DOMAIN table = 1 .. Len(table)
         /\ \A n \in DOMAIN table : Offered(table, n) => n \in 1 .. Len(table) - 1
<1>1. PICK t \in Tables : t = table
  OBVIOUS
<1>2. /\ t \in Seq(Nat \X Nat \X Nat) /\ t # <<>>
      /\ \A n \in DOMAIN t : t[n][1] >= MinAddr /\ t[n][3] = 0 <=> n = Len(t)
  BY TablesEnd
<1>3. Len(t) \in Nat \ {0} /\ DOMAIN t = 1 .. Len(t) /\ \A n \in 1 .. Len(t) : t[n] \in Nat \X Nat \X Nat
  BY <1>2, LenProperties, ElementOfSeq, EmptySeq
<1>4. PICK N \in Nat : N = Len(t) - 1
  <2>1. Len(t) - 1 \in Nat
    BY <1>3
  <2>2. QED
    BY <2>1, Zenon
<1>5. Min({n \in DOMAIN table : table[n][1] >= MinAddr /\ table[n][3] = 0}) = Len(t)
  <2> DEFINE Marked == {n \in DOMAIN table : table[n][1] >= MinAddr /\ table[n][3] = 0}
  <2>1. Len(t) \in Marked /\ Marked \in SUBSET Nat
    BY <1>1, <1>2, <1>3
  <2>2. Min(Marked) \in Marked
    <3> HIDE DEF Marked
    <3>1. QED
      BY <2>1, MinIsIn
  <2>3. QED
    BY <1>1, <1>2, <2>2
<1> DEFINE Good(f) == f = [n \in 0 .. N |-> IF n = 0 THEN <<>> ELSE WithSlot(f[n - 1], table[n])]
           Upto == CHOOSE f : Good(f)
           V == Seq(Nat \X Nat)
           step == [n \in 1 .. N |-> [s \in V |-> WithSlot(s, table[n])]]
<1>6. initE820Arr = Upto[N]
  BY <1>4, <1>5 DEF initE820Arr
<1>7. \A n \in 1 .. N : \A s \in V : WithSlot(s, table[n]) \in V
  <2>1. \A n \in 1 .. N : n \in 1 .. Len(t)
    BY <1>3, <1>4
  <2>2. ASSUME NEW n \in 1 .. N, NEW s \in V PROVE WithSlot(s, table[n]) \in V
    <3>1. <<table[n][1], table[n][2]>> \in Nat \X Nat
      BY <1>1, <1>3, <2>1
    <3>2. QED
      BY <3>1 DEF WithSlot
  <2>3. QED
    BY <2>2
<1>8. step \in [1 .. N -> [V -> V]]
  BY <1>7
<1>9. <<>> \in V
  OBVIOUS
<1>10. PICK f \in [0 .. N -> V] : Follows(f, N, <<>>, step)
  <2> HIDE DEF step, V
  <2>1. QED
    BY <1>8, <1>9, RecursionExists, Zenon
<1>11. \A n \in 0 .. N : f[n] = IF n = 0 THEN <<>> ELSE WithSlot(f[n - 1], table[n])
  <2>1. \A n \in 0 .. N : n # 0 => n \in 1 .. N /\ n - 1 \in 0 .. N
    OBVIOUS
  <2>2. \A n \in 1 .. N : f[n] = step[n][f[n - 1]]
    BY <1>10 DEF Follows
  <2>3. \A n \in 1 .. N : \A s \in V : step[n][s] = WithSlot(s, table[n])
    OBVIOUS
  <2>4. f[0] = <<>>
    BY <1>10 DEF Follows
  <2> HIDE DEF step, V
  <2>5. ASSUME NEW n \in 1 .. N PROVE f[n] = WithSlot(f[n - 1], table[n])
    <3>1. n - 1 \in 0 .. N
      OBVIOUS
    <3>2. f[n - 1] \in V
      BY <3>1
    <3>3. QED
      BY <2>2, <2>3, <3>2
  <2>6. QED
    BY <2>1, <2>4, <2>5
<1>12. f = [n \in 0 .. N |-> f[n]]
  OBVIOUS
<1>13. Good(f)
  BY <1>11, <1>12
<1>14. Good(Upto)
  BY <1>13
<1> HIDE DEF Upto
<1>15. \A n \in 0 .. N : Upto[n] = IF n = 0 THEN <<>> ELSE WithSlot(Upto[n - 1], table[n])
  BY <1>14, Zenon
<1> DEFINE S == {k \in Nat : k <= N => Listed(Upto[k], t, k)}
<1>16. 0 \in S
  <2>1. 0 \in 0 .. N
    OBVIOUS
  <2>2. Upto[0] = <<>>
    BY <1>15, <2>1, Zenon
  <2>3. Listed(<<>>, t, 0)
    <3>1. PICK z : z = <<>>
      OBVIOUS
    <3>2. z \in Seq(Nat \X Nat) /\ Len(z) = 0
      BY <3>1
    <3>3. Listed(z, t, 0)
      BY <3>2 DEF Listed
    <3>4. QED
      BY <3>1, <3>3
  <2>4. QED
    BY <2>2, <2>3
<1>17. ASSUME NEW k \in Nat, k \in S PROVE k + 1 \in S
  <2>1. SUFFICES ASSUME k + 1 <= N PROVE Listed(Upto[k + 1], t, k + 1)
    OBVIOUS
  <2>2. PICK n \in 1 .. Len(t) : n = k + 1 /\ n \in 0 .. N /\ n # 0 /\ n - 1 = k
    BY <1>3, <1>4, <2>1
  <2>3. Listed(Upto[n - 1], t, n - 1)
    BY <1>17, <2>1, <2>2
  <2>4. Upto[n] = WithSlot(Upto[n - 1], t[n])
    BY <1>1, <1>15, <2>2, Zenon
  <2>5. Listed(WithSlot(Upto[n - 1], t[n]), t, n)
    BY <2>2, <2>3, ListedGrows
  <2>6. QED
    BY <2>2, <2>4, <2>5
<1>18. Listed(Upto[N], t, N)
  <2>1. Nat \subseteq S
    <3> HIDE DEF S
    <3>1. QED
      BY <1>16, <1>17, AllNumbers
  <2>2. QED
    BY <2>1
<1>19. ASSUME NEW n \in DOMAIN t, Offered(t, n) PROVE n \in 1 .. Len(t) - 1
  <2>1. n # Len(t)
    BY <1>2, <1>19 DEF Offered
  <2>2. QED
    BY <1>3, <2>1
<1> QED
  BY <1>1, <1>3, <1>4, <1>6, <1>18, <1>19

\* What reserve makes of one slot, for the range from 0 on.
LEMMA ReserveOne ==
  ASSUME NEW s, NEW n \in DOMAIN s, NEW P \in Nat, s[n][1] \in Nat, s[n][2] \in Nat
  PROVE  reserve(s, 0, P)[n] = IF s[n][1] < P /\ s[n][1] + s[n][2] > P
                                 THEN <<P, (s[n][1] + s[n][2]) - P>>
                               ELSE IF P >= s[n][1] + s[n][2] THEN <<s[n][1], 0>>
                               ELSE s[n]
<1>1. 0 + P = P /\ 0 <= s[n][1]
  OBVIOUS
<1>2. reserve(s, 0, P)[n] = IF s[n][1] < 0 + P /\ s[n][1] + s[n][2] > 0 + P
                              THEN <<0 + P, (s[n][1] + s[n][2]) - (0 + P)>>
                            ELSE IF 0 <= s[n][1] /\ 0 + P >= s[n][1] + s[n][2] THEN <<s[n][1], 0>>
                            ELSE s[n]
  BY ONLY n \in DOMAIN s, Zenon DEF reserve
<1>3. QED
  BY <1>1, <1>2, Zenon

\* The slots to give out cover the usable memory above the kernel, and nothing else.
LEMMA ReserveIs ==
  ASSUME table \in Tables, NEW z, z = reserve(initE820Arr, 0, MaxKernel)
  PROVE  /\ z \in Seq(Nat \X Nat) /\ DOMAIN z = 1 .. Len(z)
         /\ \A n \in DOMAIN z : /\ Low(z, n) \in Nat /\ Low(z, n) >= 8 /\ High(z, n) \in Nat
                                /\ z[n][2] \in Nat /\ High(z, n) >= Low(z, n)
         /\ \A n, k \in DOMAIN z : n # k => High(z, n) < Low(z, k) \/ High(z, k) < Low(z, n)
         /\ \A n \in DOMAIN z : \A a \in Int : Low(z, n) <= a /\ a < High(z, n) => Usable(a)
         /\ \A a \in Int : Usable(a) => \E n \in DOMAIN z : Low(z, n) <= a /\ a < High(z, n)
<1>1. PICK s : s = initE820Arr
  OBVIOUS
<1>2. Listed(s, table, Len(table) - 1) /\ DOMAIN table = 1 .. Len(table) /\ Len(table) \in Nat
      /\ \A n \in DOMAIN table : Offered(table, n) => n \in 1 .. Len(table) - 1
  <2>1. table \in Seq(Nat \X Nat \X Nat)
    BY TablesEnd
  <2>2. QED
    BY <1>1, <2>1, E820Is, LenProperties
<1>3. PICK d \in Int : d = Len(table) - 1
  <2>1. Len(table) - 1 \in Int
    BY <1>2
  <2>2. QED
    BY <2>1, Zenon
<1>4. Listed(s, table, d) /\ 1 .. d \subseteq DOMAIN table /\ \A n \in DOMAIN table : Offered(table, n) => n \in 1 .. d
  BY <1>2, <1>3
<1>5. s \in Seq(Nat \X Nat) /\ Len(s) \in Nat /\ DOMAIN s = 1 .. Len(s)
  BY <1>4, LenProperties DEF Listed
<1>6. ASSUME NEW n \in 1 .. Len(s)
      PROVE  s[n] \in Nat \X Nat /\ s[n][1] \in Nat /\ s[n][2] \in Nat /\ s[n][1] >= 8
             /\ \E k \in DOMAIN table : Offered(table, k) /\ s[n] = Slot(table, k)
  <2>1. s[n] \in Nat \X Nat
    BY <1>5, ElementOfSeq
  <2>2. PICK k \in 1 .. d : Offered(table, k) /\ s[n] = Slot(table, k)
    BY <1>4 DEF Listed
  <2>3. k \in DOMAIN table
    BY <1>4
  <2>4. s[n][1] = table[k][1]
    BY <2>2 DEF Slot
  <2>5. s[n][1] >= 8
    <3>1. s[n][1] \in Nat /\ s[n][1] >= MinAddr
      BY <2>1, <2>2, <2>4 DEF Offered
    <3>2. MinAddr \in Nat /\ MinAddr >= 8
      BY MmAssumption
    <3>3. QED
      BY <3>1, <3>2
  <2>6. QED
    BY <2>1, <2>2, <2>3, <2>5
<1>7. DOMAIN z = 1 .. Len(s) /\ MaxKernel \in Nat
  BY <1>1, <1>5, MmAssumption DEF reserve
<1>8. ASSUME NEW n \in 1 .. Len(s)
      PROVE  z[n] = IF s[n][1] < MaxKernel /\ s[n][1] + s[n][2] > MaxKernel
                      THEN <<MaxKernel, (s[n][1] + s[n][2]) - MaxKernel>>
                    ELSE IF MaxKernel >= s[n][1] + s[n][2] THEN <<s[n][1], 0>>
                    ELSE s[n]
  <2>1. n \in DOMAIN s /\ s[n][1] \in Nat /\ s[n][2] \in Nat /\ MaxKernel \in Nat
    BY <1>5, <1>6, <1>7
  <2>2. QED
    BY <1>1, <2>1, ReserveOne
<1>9. ASSUME NEW n \in 1 .. Len(s)
      PROVE  /\ z[n] \in Nat \X Nat /\ z[n][1] \in Nat /\ z[n][2] \in Nat /\ z[n][1] >= 8
             /\ z[n][1] >= s[n][1] /\ z[n][1] + z[n][2] <= s[n][1] + s[n][2]
             /\ \A a \in Int : (s[n][1] <= a /\ a < s[n][1] + s[n][2] /\ a >= MaxKernel)
                                 <=> (z[n][1] <= a /\ a < z[n][1] + z[n][2])
  <2>1. s[n] \in Nat \X Nat /\ s[n][1] \in Nat /\ s[n][2] \in Nat /\ s[n][1] >= 8
    BY <1>6
  <2>2. CASE s[n][1] < MaxKernel /\ s[n][1] + s[n][2] > MaxKernel
    <3>1. PICK x \in Nat : x = (s[n][1] + s[n][2]) - MaxKernel
      <4>1. (s[n][1] + s[n][2]) - MaxKernel \in Nat
        BY <1>7, <2>1, <2>2
      <4>2. QED
        BY <4>1, Zenon
    <3>2. z[n] = <<MaxKernel, x>>
      BY <1>8, <2>2, <3>1
    <3>3. z[n][1] = MaxKernel /\ z[n][2] = x /\ z[n] \in Nat \X Nat
      <4>1. PICK y : y = z[n]
        OBVIOUS
      <4>2. y = <<MaxKernel, x>> /\ x \in Nat /\ MaxKernel \in Nat
        BY <1>7, <3>2, <4>1
      <4>3. y[1] = MaxKernel /\ y[2] = x /\ y \in Nat \X Nat
        BY ONLY <4>2
      <4>4. QED
        BY <4>1, <4>3
    <3>4. QED
      BY <1>7, <2>1, <2>2, <3>1, <3>3
  <2>3. CASE ~ (s[n][1] < MaxKernel /\ s[n][1] + s[n][2] > MaxKernel) /\ MaxKernel >= s[n][1] + s[n][2]
    <3>1. z[n] = <<s[n][1], 0>>
      BY <1>8, <2>3
    <3>2. z[n][1] = s[n][1] /\ z[n][2] = 0 /\ z[n] \in Nat \X Nat
      BY <2>1, <3>1
    <3>3. QED
      BY <1>7, <2>1, <2>3, <3>2
  <2>4. CASE ~ (s[n][1] < MaxKernel /\ s[n][1] + s[n][2] > MaxKernel) /\ ~ (MaxKernel >= s[n][1] + s[n][2])
    <3>1. z[n] = s[n]
      BY <1>8, <2>4
    <3>2. QED
      BY <1>7, <2>1, <2>4, <3>1
  <2>5. QED
    BY <2>2, <2>3, <2>4
<1>10. z \in Seq(Nat \X Nat) /\ Len(z) = Len(s)
  <2>1. z \in [1 .. Len(s) -> Nat \X Nat]
    <3>1. z = [n \in 1 .. Len(s) |-> z[n]]
      BY <1>1, <1>5 DEF reserve
    <3>2. QED
      BY <1>9, <3>1
  <2>2. z \in Seq(Nat \X Nat)
    BY <1>5, <2>1, SeqDef
  <2>3. DOMAIN z = 1 .. Len(z) /\ Len(z) \in Nat
    BY <2>2, LenProperties
  <2>4. QED
    BY <1>5, <1>7, <2>2, <2>3
<1>11. ASSUME NEW n \in DOMAIN z
       PROVE  /\ Low(z, n) \in Nat /\ Low(z, n) >= 8 /\ High(z, n) \in Nat
              /\ z[n][2] \in Nat /\ High(z, n) >= Low(z, n)
  BY <1>7, <1>9 DEF Low, High
<1>12. ASSUME NEW n \in DOMAIN z, NEW k \in DOMAIN z, n # k
       PROVE  High(z, n) < Low(z, k) \/ High(z, k) < Low(z, n)
  <2>1. High(s, n) < Low(s, k) \/ High(s, k) < Low(s, n)
    BY <1>4, <1>7, <1>12 DEF Listed
  <2>2. n \in 1 .. Len(s) /\ k \in 1 .. Len(s)
    BY <1>7
  <2>3. PICK x \in Nat, y \in Nat, xx \in Nat, yy \in Nat :
          x = s[n][1] /\ y = s[n][2] /\ xx = s[k][1] /\ yy = s[k][2]
    BY <1>6, <2>2
  <2>4. PICK v \in Nat, w \in Nat, vv \in Nat, ww \in Nat :
          v = z[n][1] /\ w = z[n][2] /\ vv = z[k][1] /\ ww = z[k][2]
    BY <1>9, <2>2
  <2>5. v >= x /\ v + w <= x + y /\ vv >= xx /\ vv + ww <= xx + yy
    BY <1>9, <2>2, <2>3, <2>4
  <2>6. x + y < xx \/ xx + yy < x
    BY <2>1, <2>3 DEF Low, High
  <2>7. v + w < vv \/ vv + ww < v
    BY <2>5, <2>6
  <2>8. QED
    BY <2>4, <2>7 DEF Low, High
<1>13. ASSUME NEW n \in DOMAIN z, NEW a \in Int, Low(z, n) <= a, a < High(z, n)
       PROVE  Usable(a)
  <2>1. n \in 1 .. Len(s)
    BY <1>7
  <2>2. s[n][1] <= a /\ a < s[n][1] + s[n][2] /\ a >= MaxKernel
    BY <1>9, <1>13, <2>1 DEF Low, High
  <2>3. PICK k \in DOMAIN table : Offered(table, k) /\ s[n] = Slot(table, k)
    BY <1>6, <2>1
  <2>4. s[n][1] = table[k][1] /\ s[n][2] = table[k][2]
    BY <2>3 DEF Slot
  <2>5. QED
    BY <2>2, <2>3, <2>4 DEF Usable, Offered
<1>14. ASSUME NEW a \in Int, Usable(a)
       PROVE  \E n \in DOMAIN z : Low(z, n) <= a /\ a < High(z, n)
  <2>1. PICK k \in DOMAIN table : /\ Offered(table, k) /\ table[k][1] <= a /\ a < table[k][1] + table[k][2]
                                  /\ a >= MaxKernel
    BY <1>14 DEF Usable, Offered
  <2>2. PICK n \in 1 .. Len(s) : s[n] = Slot(table, k)
    BY <1>4, <2>1 DEF Listed
  <2>3. s[n][1] = table[k][1] /\ s[n][2] = table[k][2]
    BY <2>2 DEF Slot
  <2>4. z[n][1] <= a /\ a < z[n][1] + z[n][2]
    BY <1>9, <2>1, <2>3
  <2>5. QED
    BY <1>7, <2>4 DEF Low, High
<1> QED
  BY <1>7, <1>10, <1>11, <1>12, <1>13, <1>14

\* Slots that format can be given.
SlotList(z) ==
  /\ z \in Seq(Nat \X Nat) /\ Len(z) \in Nat /\ DOMAIN z = 1 .. Len(z)
  /\ \A n \in DOMAIN z : /\ Low(z, n) \in Nat /\ Low(z, n) >= 8 /\ High(z, n) \in Nat
                         /\ z[n][2] \in Nat /\ High(z, n) >= Low(z, n)
  /\ \A n, k \in DOMAIN z : n # k => High(z, n) < Low(z, k) \/ High(z, k) < Low(z, n)

\* Memory m when format has come to the end of slot k.
FormattedTo(m, z, k) ==
  /\ MemVals(m)
  /\ \A n \in 1 .. k : z[n][2] >= 144
  /\ \A n \in 1 .. k : Lies(m, Low(z, n), z[n][2], Start(z, n - 1), Start(z, n + 1), Free, 0)
  /\ \A a \in DOMAIN m : \E n \in 1 .. k : Low(z, n) <= a /\ a + 8 <= High(z, n)
  /\ \A a \in DOMAIN m : m[a] # Use

\* The words that format writes.
LEMMA FormatWords ==
  ASSUME NEW m, NEW b \in Nat, NEW s \in Int, s >= 144, NEW pr \in Int, NEW nx \in Int, pr # Use, nx # Use,
         \A a \in DOMAIN m : m[a] # Use
  PROVE  \A a \in DOMAIN Format0(m, b, s, pr, nx) : Format0(m, b, s, pr, nx)[a] # Use
<1> DEFINE head == <<s, Signature, pr, nx, Free, s - OverheadSize, 0, 0>>
           At8 == {b + 8 * k : k \in 0 .. 7}
           W == [a \in DOMAIN m \cup At8 |-> IF a \in At8 THEN head[(a - b) \div 8 + 1] ELSE m[a]]
           F == Put(W, b + s - 8, s)
<1>1. Format0(m, b, s, pr, nx) = F
  BY DEF Format0
<1>2. \A j \in 1 .. 8 : head[j] # Use
  BY DEF Use, Signature, Free, OverheadSize
<1>3. ASSUME NEW a \in DOMAIN W PROVE W[a] # Use
  <2>1. CASE a \in At8
    <3>1. PICK k \in 0 .. 7 : a = b + 8 * k
      BY <2>1
    <3>2. (a - b) \div 8 + 1 \in 1 .. 8
      BY <3>1
    <3>3. W[a] = head[(a - b) \div 8 + 1]
      BY <2>1
    <3> HIDE DEF head, W
    <3>4. QED
      BY <1>2, <3>2, <3>3
  <2>2. CASE a \notin At8
    BY <2>2
  <2>3. QED
    BY <2>1, <2>2
<1> HIDE DEF W
<1>4. s # Use
  BY DEF Use
<1>5. ASSUME NEW a \in DOMAIN F PROVE F[a] # Use
  BY <1>3, <1>4 DEF Put
<1> HIDE DEF F
<1> QED
  BY <1>1, <1>5

LEMMA FormatGrows ==
  ASSUME NEW z, SlotList(z), NEW d \in Nat, NEW k \in 1 .. Len(z), k = d + 1, ~ TooSmall(z[k]),
         NEW m, FormattedTo(m, z, d)
  PROVE  FormattedTo(FormatSlot(m, z, k), z, k)
<1>1. PICK b \in Nat \ {0}, s \in Nat, pr \in Int, nx \in Int :
        b = Low(z, k) /\ s = z[k][2] /\ pr = Start(z, k - 1) /\ nx = Start(z, k + 1)
  <2>1. k \in DOMAIN z /\ Low(z, k) \in Nat \ {0} /\ z[k][2] \in Nat
    <3>1. k \in DOMAIN z
      BY DEF SlotList
    <3>2. Low(z, k) \in Nat /\ Low(z, k) >= 8 /\ z[k][2] \in Nat
      BY <3>1 DEF SlotList
    <3>3. Low(z, k) # 0
      BY <3>2
    <3>4. QED
      BY <3>1, <3>2, <3>3
  <2>2. \A n : Start(z, n) \in Int
    BY DEF SlotList, Start
  <2>3. QED
    BY <2>1, <2>2, Zenon
<1>2. High(z, k) = b + s /\ k \in DOMAIN z /\ s >= 144
  BY <1>1 DEF High, Low, TooSmall, MinDataSize, OverheadSize, SlotList
<1>3. pr # Use /\ nx # Use
  <2>1. ASSUME NEW n PROVE Start(z, n) # Use
    <3>1. CASE n \in DOMAIN z
      <4>1. Low(z, n) \in Nat /\ Low(z, n) >= 8
        BY <3>1 DEF SlotList
      <4>2. QED
        BY <3>1, <4>1 DEF Start, Use
    <3>2. CASE n \notin DOMAIN z
      BY <3>2 DEF Start, Use
    <3>3. QED
      BY <3>1, <3>2
  <2>2. QED
    BY <1>1, <2>1
<1>4. PICK m2 : m2 = FormatSlot(m, z, k)
  OBVIOUS
<1>5. m2 = Format0(m, b, s, pr, nx)
  BY <1>1, <1>2, <1>4 DEF FormatSlot, Start, Low
<1>6. MemVals(m) /\ \A a \in DOMAIN m : m[a] # Use
  BY DEF FormattedTo
<1>7. Lies(m2, b, s, pr, nx, Free, 0) /\ Changed(m, m2, b, b + s)
  BY <1>2, <1>5, <1>6, FormatIs
<1>8. \A a \in DOMAIN m2 : m2[a] # Use
  BY <1>2, <1>3, <1>5, <1>6, FormatWords
<1>9. \A n \in 1 .. k : n = k \/ (n \in 1 .. d /\ n \in DOMAIN z /\ n # k)
  BY DEF SlotList
<1>10. k \in 1 .. k /\ 1 .. d \subseteq 1 .. k
  OBVIOUS
<1>11. ASSUME NEW n \in 1 .. k PROVE Lies(m2, Low(z, n), z[n][2], Start(z, n - 1), Start(z, n + 1), Free, 0)
  <2>1. CASE n = k
    BY <1>1, <1>7, <2>1
  <2>2. CASE n \in 1 .. d /\ n \in DOMAIN z /\ n # k
    <3>0. PICK px, nn : px = Start(z, n - 1) /\ nn = Start(z, n + 1)
      OBVIOUS
    <3>1. PICK c \in Nat, w \in Nat : c = Low(z, n) /\ w = z[n][2]
      BY <2>2 DEF SlotList
    <3>2. Lies(m, c, w, px, nn, Free, 0)
      BY <2>2, <3>0, <3>1 DEF FormattedTo
    <3>3. High(z, n) = c + w
      BY <3>1 DEF High, Low
    <3>4. c + w < b \/ b + s < c
      BY <1>1, <1>2, <2>2, <3>1, <3>3 DEF SlotList
    <3>5. w >= 72
      <4>1. w >= 144
        BY <2>2, <3>1 DEF FormattedTo
      <4>2. QED
        BY <4>1
    <3>6. Lies(m2, c, w, px, nn, Free, 0)
      <4>1. c + w <= b \/ c >= b + s
        BY <3>4
      <4>2. QED
        BY <1>7, <3>2, <3>5, <4>1, LiesStays
    <3>7. QED
      BY <3>0, <3>1, <3>6
  <2>3. QED
    BY <1>9, <2>1, <2>2
<1>12. ASSUME NEW a \in DOMAIN m2 PROVE \E n \in 1 .. k : Low(z, n) <= a /\ a + 8 <= High(z, n)
  <2>1. CASE a \in DOMAIN m
    BY <1>10, <2>1 DEF FormattedTo
  <2>2. CASE b <= a /\ a + 8 <= b + s
    BY <1>1, <1>2, <1>10, <2>2
  <2>3. QED
    BY <1>7, <2>1, <2>2 DEF Changed
<1>13. MemVals(m2)
  BY <1>7 DEF Changed
<1>14. ASSUME NEW n \in 1 .. k PROVE z[n][2] >= 144
  BY <1>1, <1>2, <1>9 DEF FormattedTo
<1>15. FormattedTo(m2, z, k)
  BY <1>14, <1>8, <1>11, <1>12, <1>13 DEF FormattedTo
<1> QED
  BY <1>4, <1>15

\* How far format comes.
LEMMA ReachedIs ==
  ASSUME NEW z, SlotList(z)
  PROVE  /\ Reached(z) \in Nat /\ Reached(z) <= Len(z)
         /\ \A n \in 1 .. Reached(z) : ~ TooSmall(z[n])
         /\ Reached(z) < Len(z) => \E n \in DOMAIN z : TooSmall(z[n])
<1> DEFINE small == {n \in DOMAIN z : TooSmall(z[n])}
<1>1. Len(z) \in Nat /\ DOMAIN z = 1 .. Len(z)
  BY DEF SlotList
<1>2. CASE small = {}
  <2>1. Reached(z) = Len(z)
    BY <1>2 DEF Reached
  <2>2. QED
    BY <1>1, <1>2, <2>1
<1>3. CASE small # {}
  <2>1. Reached(z) = Min(small) - 1
    BY <1>3 DEF Reached
  <2>2. small \in SUBSET Nat /\ \A n \in small : n \in 1 .. Len(z) /\ TooSmall(z[n])
    BY <1>1
  <2>3. \A n \in 1 .. Len(z) : TooSmall(z[n]) => n \in small
    BY <1>1
  <2> HIDE DEF small
  <2>4. PICK k \in Nat : k = Min(small) /\ k \in small /\ \A n \in small : n >= k
    <3>0. Min(small) \in small /\ \A n \in small : Min(small) <= n
      BY <1>3, <2>2, MinIsIn
    <3>1. Min(small) \in small /\ \A n \in small : n >= Min(small)
      BY <2>2, <3>0
    <3>2. Min(small) \in Nat
      BY <2>2, <3>1
    <3>3. QED
      BY <3>1, <3>2, Zenon
  <2>5. Reached(z) = k - 1 /\ k \in 1 .. Len(z) /\ TooSmall(z[k])
    BY <2>1, <2>2, <2>4
  <2>6. ASSUME NEW n \in 1 .. k - 1 PROVE ~ TooSmall(z[n])
    <3>1. n \in 1 .. Len(z) /\ ~ (n >= k)
      BY <1>1, <2>5
    <3>2. QED
      BY <2>3, <2>4, <3>1
  <2>7. QED
    BY <1>1, <2>5, <2>6
<1>4. QED
  BY <1>2, <1>3

\* What format makes of memory.
LEMMA FormattedIs ==
  ASSUME NEW z, SlotList(z)
  PROVE  FormattedTo(Formatted(z), z, Reached(z))
<1>1. PICK N \in Nat : N = Reached(z)
  BY ReachedIs
<1>2. N <= Len(z) /\ \A n \in 1 .. N : ~ TooSmall(z[n]) /\ n \in 1 .. Len(z)
  <2>1. Len(z) \in Nat
    BY DEF SlotList
  <2>2. N <= Len(z) /\ \A n \in 1 .. N : ~ TooSmall(z[n])
    BY <1>1, ReachedIs, Zenon
  <2>3. \A n \in 1 .. N : n \in 1 .. Len(z)
    BY <2>1, <2>2
  <2>4. QED
    BY <2>2, <2>3
<1> DEFINE Good(f) == f = [n \in 0 .. N |-> IF n = 0 THEN <<>> ELSE FormatSlot(f[n - 1], z, n)]
           Upto == CHOOSE f : Good(f)
           V == UNION {[D -> Int] : D \in SUBSET Int}
           M == {m \in V : MemVals(m)}
           step == [n \in 1 .. N |-> [m \in M |-> FormatSlot(m, z, n)]]
<1>3. Formatted(z) = Upto[N]
  BY <1>1 DEF Formatted
<1>4. \A m : MemVals(m) /\ m = [a \in DOMAIN m |-> m[a]] => m \in M
  <2>1. ASSUME NEW m, MemVals(m), m = [a \in DOMAIN m |-> m[a]] PROVE m \in M
    <3>1. PICK D : D = DOMAIN m
      OBVIOUS
    <3>2. m \in [D -> Int] /\ D \in SUBSET Int
      BY <2>1, <3>1 DEF MemVals
    <3>3. QED
      BY <2>1, <3>2
  <2>2. QED
    BY <2>1
<1>5. \A n \in 1 .. N : \A m \in M : FormatSlot(m, z, n) \in M
  <2>1. SUFFICES ASSUME NEW n \in 1 .. N, NEW m \in M PROVE FormatSlot(m, z, n) \in M
    OBVIOUS
  <2>2. PICK b \in Nat \ {0}, s \in Nat, pr \in Int, nx \in Int :
          b = Low(z, n) /\ s = z[n][2] /\ pr = Start(z, n - 1) /\ nx = Start(z, n + 1)
    <3>1. n \in DOMAIN z
      BY <1>2 DEF SlotList
    <3>2. Low(z, n) \in Nat \ {0} /\ z[n][2] \in Nat
      BY <3>1 DEF SlotList
    <3>3. \A k : Start(z, k) \in Int
      BY DEF SlotList, Start
    <3>4. QED
      BY <3>2, <3>3, Zenon
  <2>3. s >= 72 /\ n \in DOMAIN z
    <3>1. n \in DOMAIN z /\ ~ TooSmall(z[n])
      BY <1>2 DEF SlotList
    <3>2. ~ (s < 144)
      BY <2>2, <3>1 DEF TooSmall, MinDataSize, OverheadSize
    <3>3. QED
      BY <3>1, <3>2
  <2>4. FormatSlot(m, z, n) = Format0(m, b, s, pr, nx)
    BY <2>2, <2>3 DEF FormatSlot, Start, Low
  <2>5. MemVals(m)
    OBVIOUS
  <2>6. MemVals(Format0(m, b, s, pr, nx))
    BY <2>3, <2>5, FormatIs DEF Changed
  <2>7. Format0(m, b, s, pr, nx) = [a \in DOMAIN Format0(m, b, s, pr, nx) |-> Format0(m, b, s, pr, nx)[a]]
    <3> DEFINE W == [a \in DOMAIN m \cup {b + 8 * k : k \in 0 .. 7} |->
                       IF a \in {b + 8 * k : k \in 0 .. 7}
                         THEN <<s, Signature, pr, nx, Free, s - OverheadSize, 0, 0>>[(a - b) \div 8 + 1] ELSE m[a]]
    <3>1. Format0(m, b, s, pr, nx) = Put(W, b + s - 8, s)
      BY DEF Format0
    <3> HIDE DEF W
    <3>2. \A f, x, v : Put(f, x, v) = [a \in DOMAIN Put(f, x, v) |-> Put(f, x, v)[a]]
      BY DEF Put
    <3>3. QED
      BY <3>1, <3>2
  <2>8. PICK r : r = Format0(m, b, s, pr, nx)
    OBVIOUS
  <2>9. r \in M
    <3> HIDE DEF M
    <3>1. QED
      BY <1>4, <2>6, <2>7, <2>8
  <2>10. QED
    BY <2>4, <2>8, <2>9
<1>6. step \in [1 .. N -> [M -> M]]
  <2> HIDE DEF M
  <2>1. QED
    BY <1>5
<1>7. MemVals(<<>>) /\ <<>> \in M
  <2>1. PICK m : m = <<>>
    OBVIOUS
  <2>2. DOMAIN m = {} /\ m = [a \in DOMAIN m |-> m[a]]
    BY <2>1
  <2>3. MemVals(m)
    BY <2>2, FS_EmptySet DEF MemVals
  <2> HIDE DEF M
  <2>4. QED
    BY <1>4, <2>1, <2>2, <2>3
<1> HIDE DEF M
<1>8. PICK f \in [0 .. N -> M] : Follows(f, N, <<>>, step)
  <2> HIDE DEF step
  <2>1. QED
    BY <1>6, <1>7, RecursionExists, Zenon
<1>9. \A n \in 0 .. N : f[n] = IF n = 0 THEN <<>> ELSE FormatSlot(f[n - 1], z, n)
  <2>1. \A n \in 0 .. N : n # 0 => n \in 1 .. N /\ n - 1 \in 0 .. N
    OBVIOUS
  <2>2. \A n \in 1 .. N : f[n] = step[n][f[n - 1]]
    BY <1>8 DEF Follows
  <2>3. \A n \in 1 .. N : \A m \in M : step[n][m] = FormatSlot(m, z, n)
    OBVIOUS
  <2>4. f[0] = <<>>
    BY <1>8 DEF Follows
  <2> HIDE DEF step
  <2>5. ASSUME NEW n \in 1 .. N PROVE f[n] = FormatSlot(f[n - 1], z, n)
    <3>1. n - 1 \in 0 .. N
      OBVIOUS
    <3>2. f[n - 1] \in M
      BY <3>1
    <3>3. QED
      BY <2>2, <2>3, <3>2
  <2>6. QED
    BY <2>1, <2>4, <2>5
<1>10. f = [n \in 0 .. N |-> f[n]]
  OBVIOUS
<1>11. Good(f)
  BY <1>9, <1>10
<1>12. Good(Upto)
  BY <1>11
<1> HIDE DEF Upto
<1>13. \A n \in 0 .. N : Upto[n] = IF n = 0 THEN <<>> ELSE FormatSlot(Upto[n - 1], z, n)
  BY <1>12, Zenon
<1> DEFINE S == {k \in Nat : k <= N => FormattedTo(Upto[k], z, k)}
<1>14. 0 \in S
  <2>1. 0 \in 0 .. N
    OBVIOUS
  <2>2. Upto[0] = <<>>
    BY <1>13, <2>1, Zenon
  <2>3. PICK m : m = <<>>
    OBVIOUS
  <2>4. DOMAIN m = {} /\ MemVals(m)
    BY <1>7, <2>3
  <2>5. FormattedTo(m, z, 0)
    BY <2>4 DEF FormattedTo
  <2>6. QED
    BY <2>2, <2>3, <2>5
<1>15. ASSUME NEW k \in Nat, k \in S PROVE k + 1 \in S
  <2>1. SUFFICES ASSUME k + 1 <= N PROVE FormattedTo(Upto[k + 1], z, k + 1)
    OBVIOUS
  <2>2. PICK n \in 1 .. Len(z) : n = k + 1 /\ n \in 0 .. N /\ n # 0 /\ n - 1 = k /\ ~ TooSmall(z[n])
    <3>1. k + 1 \in 1 .. N /\ k + 1 \in 0 .. N /\ k + 1 # 0 /\ (k + 1) - 1 = k
      BY <2>1
    <3>2. QED
      BY <1>2, <3>1, Zenon
  <2>3. FormattedTo(Upto[n - 1], z, n - 1)
    BY <1>15, <2>1, <2>2
  <2>4. Upto[n] = FormatSlot(Upto[n - 1], z, n)
    BY <1>13, <2>2, Zenon
  <2>5. FormattedTo(FormatSlot(Upto[n - 1], z, n), z, n)
    BY <2>2, <2>3, FormatGrows
  <2>6. QED
    BY <2>2, <2>4, <2>5
<1>16. FormattedTo(Upto[N], z, N)
  <2>1. Nat \subseteq S
    <3> HIDE DEF S
    <3>1. QED
      BY <1>14, <1>15, AllNumbers
  <2>2. QED
    BY <2>1
<1> QED
  BY <1>1, <1>3, <1>16

\* After format each slot is one free block.
LEMMA FormattedSound ==
  ASSUME NEW z, SlotList(z), Reached(z) = Len(z)
  PROVE  HeapSound(Formatted(z), <<>>, z)
<1>1. PICK m : m = Formatted(z)
  OBVIOUS
<1>2. Len(z) \in Nat /\ DOMAIN z = 1 .. Len(z) /\ FormattedTo(m, z, Len(z))
  BY <1>1, FormattedIs DEF SlotList
<1>3. ASSUME NEW n \in DOMAIN z
      PROVE  /\ Low(z, n) \in Nat \ {0} /\ High(z, n) \in Nat /\ z[n][2] \in Nat /\ z[n][2] >= 144
             /\ High(z, n) = Low(z, n) + z[n][2] /\ High(z, n) > Low(z, n)
  <2>1. Low(z, n) \in Nat /\ Low(z, n) >= 8 /\ High(z, n) \in Nat /\ z[n][2] \in Nat
    BY DEF SlotList
  <2>2. z[n][2] >= 144 /\ High(z, n) = Low(z, n) + z[n][2]
    BY <1>2 DEF FormattedTo, High, Low
  <2>3. QED
    BY <2>1, <2>2
<1>4. \A n, k \in DOMAIN z : n # k => High(z, n) < Low(z, k) \/ High(z, k) < Low(z, n)
  BY DEF SlotList
<1>5. \A n, k \in DOMAIN z : Low(z, n) = Low(z, k) => n = k
  BY <1>3, <1>4
<1>6. \A n : Start(z, n) \in Int
  BY <1>3 DEF Start
<1> DEFINE At(b) == CHOOSE n \in DOMAIN z : Low(z, n) = b
           H == [b \in {Low(z, n) : n \in DOMAIN z} |->
                   Blk(z[At(b)][2], Start(z, At(b) - 1), Start(z, At(b) + 1), Free, 0)]
<1>7. \A n \in DOMAIN z : At(Low(z, n)) = n
  BY <1>5
<1> HIDE DEF At
<1>8. \A b \in DOMAIN H : \E n \in DOMAIN z : b = Low(z, n)
  OBVIOUS
<1>9. ASSUME NEW n \in DOMAIN z
      PROVE  /\ Low(z, n) \in DOMAIN H
             /\ H[Low(z, n)] = Blk(z[n][2], Start(z, n - 1), Start(z, n + 1), Free, 0)
  <2>1. At(Low(z, n)) = n
    BY <1>7
  <2>2. Low(z, n) \in DOMAIN H
    OBVIOUS
  <2>3. H[Low(z, n)] = Blk(z[At(Low(z, n))][2], Start(z, At(Low(z, n)) - 1), Start(z, At(Low(z, n)) + 1), Free, 0)
    BY <2>2
  <2>4. QED
    BY <2>1, <2>2, <2>3
<1> HIDE DEF H
<1>10. ASSUME NEW n \in DOMAIN z
       PROVE  LET x == H[Low(z, n)]
              IN  /\ x \in BlockSet /\ x.size = z[n][2] /\ x.prev = Start(z, n - 1)
                  /\ x.next = Start(z, n + 1) /\ x.type = Free /\ x.used = 0
  <2>1. PICK s \in Nat, pr \in Int, nx \in Int : s = z[n][2] /\ pr = Start(z, n - 1) /\ nx = Start(z, n + 1)
    BY <1>3, <1>6, Zenon
  <2>2. H[Low(z, n)] = Blk(s, pr, nx, Free, 0)
    BY <1>9, <2>1
  <2>3. Blk(s, pr, nx, Free, 0) \in BlockSet
    BY DEF Blk, BlockSet
  <2>4. QED
    BY <2>1, <2>2, <2>3, BlkIs
<1>11. Apart(z)
  BY <1>2, <1>3, <1>4 DEF Apart
<1>12. MemOK(m, z)
  BY <1>2 DEF FormattedTo, MemOK, MemVals
<1>13. Rep(m, H)
  <2>1. ASSUME NEW b \in DOMAIN H PROVE Block(m, b, H[b])
    <3>1. PICK n \in DOMAIN z : b = Low(z, n)
      BY <1>8
    <3>2. Lies(m, Low(z, n), z[n][2], Start(z, n - 1), Start(z, n + 1), Free, 0)
      BY <1>2 DEF FormattedTo
    <3>3. QED
      BY <1>10, <3>1, <3>2 DEF Block
  <2>2. QED
    BY <2>1 DEF Rep
<1>14. BlocksAre(H)
  <2>1. ASSUME NEW b \in DOMAIN H
        PROVE  /\ b \in Nat \ {0} /\ H[b] \in BlockSet
               /\ H[b].size >= OverheadSize /\ H[b].used <= H[b].size - OverheadSize
    <3>1. PICK n \in DOMAIN z : b = Low(z, n)
      BY <1>8
    <3>2. b \in Nat \ {0} /\ H[b] \in BlockSet /\ H[b].size = z[n][2] /\ H[b].used = 0
      BY <1>3, <1>10, <3>1
    <3>3. z[n][2] \in Nat /\ z[n][2] >= 144
      BY <1>3
    <3>4. PICK w \in Nat : w = z[n][2]
      BY <3>3
    <3>5. H[b].size >= OverheadSize /\ 0 <= H[b].size - OverheadSize
      BY <3>2, <3>3, <3>4 DEF OverheadSize
    <3>6. QED
      BY <3>2, <3>5
  <2>2. QED
    BY <2>1 DEF BlocksAre
<1>15. InSlots(H, z)
  <2>1. ASSUME NEW b \in DOMAIN H PROVE \E n \in DOMAIN z : Low(z, n) <= b /\ b + H[b].size <= High(z, n)
    <3>1. PICK n \in DOMAIN z : b = Low(z, n)
      BY <1>8
    <3>2. Low(z, n) <= b /\ b + H[b].size <= High(z, n)
      BY <1>3, <1>10, <3>1
    <3>3. QED
      BY <3>2
  <2>2. QED
    BY <2>1 DEF InSlots
<1>16. Disjoint(H)
  <2>1. ASSUME NEW b \in DOMAIN H, NEW c \in DOMAIN H, b < c PROVE b + H[b].size <= c
    <3>1. PICK n \in DOMAIN z : b = Low(z, n)
      BY <1>8
    <3>2. PICK k \in DOMAIN z : c = Low(z, k)
      BY <1>8
    <3>3. n # k
      BY <1>3, <2>1, <3>1, <3>2
    <3>4. High(z, n) < Low(z, k) \/ High(z, k) < Low(z, n)
      BY <1>4, <3>3
    <3>5. H[b].size = z[n][2]
      BY <1>10, <3>1
    <3>6. QED
      BY <1>3, <2>1, <3>1, <3>2, <3>4, <3>5
  <2>2. QED
    BY <2>1 DEF Disjoint
<1>17. SlotsBegin(H, z)
  BY <1>9, <1>10 DEF SlotsBegin
<1>18. Joined(H, z)
  BY <1>8 DEF Joined
<1>19. Linked(H, z)
  <2>1. ASSUME NEW b \in DOMAIN H
        PROVE  \E n \in DOMAIN z : b + H[b].size = High(z, n) /\ H[b].next = Start(z, n + 1)
    <3>1. PICK n \in DOMAIN z : b = Low(z, n)
      BY <1>8
    <3>2. b + H[b].size = High(z, n) /\ H[b].next = Start(z, n + 1)
      BY <1>3, <1>10, <3>1
    <3>3. QED
      BY <3>2
  <2>2. QED
    BY <2>1 DEF Linked
<1>20. PICK l : l = <<>>
  OBVIOUS
<1>21. Holds(H, l)
  <2>1. DOMAIN l = {}
    BY <1>20
  <2>2. \A b \in DOMAIN H : H[b].type # Use
    BY <1>8, <1>10 DEF Free, Use
  <2>3. QED
    BY <2>1, <2>2 DEF Holds
<1>22. Sound(m, l, z, H)
  BY <1>11, <1>12, <1>13, <1>14, <1>15, <1>16, <1>17, <1>18, <1>19, <1>21 DEF Sound, Tiles
<1> QED
  BY <1>1, <1>20, <1>22 DEF HeapSound

\* Where format stops at a slot that is too small, no word says that a block is in use.
LEMMA FormattedStops ==
  ASSUME NEW z, SlotList(z), Reached(z) < Len(z)
  PROVE  /\ \E n \in DOMAIN z : ~ (z[n][2] >= MinDataSize + OverheadSize)
         /\ \A a \in DOMAIN Formatted(z) :
              /\ a \in Int /\ Formatted(z)[a] # Use
              /\ \E n \in DOMAIN z : Low(z, n) <= a /\ a + 8 <= High(z, n)
<1>1. PICK m : m = Formatted(z)
  OBVIOUS
<1>2. FormattedTo(m, z, Reached(z))
  BY <1>1, FormattedIs
<1>3. PICK N \in Nat : N = Reached(z) /\ N < Len(z)
  BY ReachedIs
<1>4. \A n \in 1 .. N : n \in DOMAIN z
  BY <1>3 DEF SlotList
<1>5. ASSUME NEW a \in DOMAIN m
      PROVE  a \in Int /\ m[a] # Use /\ \E n \in DOMAIN z : Low(z, n) <= a /\ a + 8 <= High(z, n)
  BY <1>2, <1>3, <1>4 DEF FormattedTo, MemVals
<1>6. PICK n \in DOMAIN z : TooSmall(z[n])
  BY ReachedIs
<1>7. ~ (z[n][2] >= MinDataSize + OverheadSize)
  <2>1. z[n][2] \in Nat /\ z[n][2] < MinDataSize + OverheadSize
    BY <1>6 DEF SlotList, TooSmall
  <2>2. QED
    BY <2>1 DEF MinDataSize, OverheadSize
<1> QED
  BY <1>1, <1>5, <1>7

-----------------------------------------------------------------------------
(* A call, whoever makes it                                                *)

Called ==
  \/ \E size \in Nat : Alloc(size)
  \/ \E b : FreeBlock(b)
  \/ \E b : \E size \in Nat : Enlarge(b, size)
  \/ \E b : Fill(b)

LEMMA CalledByPrograms ==
  ASSUME HeapNext PROVE Called
BY HeapAssumption DEF HeapNext, Called

\* The sizes that the test asks for are numbers.
LEMMA CallsAre ==
  /\ calls \in Seq([op : {"alloc", "enlarge", "free"}, of : Nat, size : Nat])
  /\ Len(calls) \in Nat \ {0} /\ DOMAIN calls = 1 .. Len(calls)
<1> DEFINE C == [op : {"alloc", "enlarge", "free"}, of : Nat, size : Nat]
<1>1. \A k \in Nat, size \in Nat : alloc(k, size) \in C /\ enlarge(k, size) \in C /\ free(k) \in C
  BY DEF alloc, enlarge, free
<1>2. Small \in Nat /\ Large \in Nat /\ Large + 1 \in Nat /\ Large + 5 \in Nat /\ 2 * Large \in Nat /\ Small + 100 \in Nat
  BY MmAssumption
<1> HIDE DEF C
<1>3. testAllocFrees \in Seq(C)
  <2>1. /\ alloc(1, Small) \in C /\ alloc(2, Large) \in C /\ alloc(3, Large) \in C /\ alloc(4, Large) \in C
        /\ alloc(4, Large + 1) \in C /\ free(1) \in C /\ free(2) \in C /\ free(3) \in C /\ free(4) \in C
    BY <1>1, <1>2
  <2>2. QED
    BY <2>1 DEF testAllocFrees
<1>4. testEnlarge \in Seq(C) /\ Len(testEnlarge) = 10
  <2>1. /\ alloc(1, Small) \in C /\ alloc(2, Large) \in C /\ alloc(3, Large) \in C /\ alloc(4, Large) \in C
        /\ alloc(4, Large + 1) \in C /\ enlarge(4, Large + 5) \in C /\ enlarge(4, 2 * Large) \in C
        /\ enlarge(1, Small + 100) \in C /\ alloc(5, Small) \in C /\ free(4) \in C
    BY <1>1, <1>2
  <2>2. QED
    BY <2>1 DEF testEnlarge
<1>5. calls \in Seq(C) /\ Len(calls) = Len(testAllocFrees) + Len(testEnlarge)
  BY <1>3, <1>4, ConcatProperties DEF calls
<1>6. Len(testAllocFrees) \in Nat /\ DOMAIN calls = 1 .. Len(calls)
  BY <1>3, <1>5, LenProperties
<1> QED
  BY <1>4, <1>5, <1>6 DEF C

LEMMA CalledByTest ==
  ASSUME TestCall, i \in DOMAIN calls PROVE Called
<1>1. calls[i].size \in Nat
  <2>1. PICK C : C = [op : {"alloc", "enlarge", "free"}, of : Nat, size : Nat]
    OBVIOUS
  <2>2. calls \in Seq(C) /\ i \in 1 .. Len(calls)
    BY <2>1, CallsAre
  <2>3. calls[i] \in C
    BY <2>2, ElementOfSeq
  <2>4. QED
    BY <2>1, <2>3
<1>2. \/ Alloc(calls[i].size)
      \/ Enlarge(p[calls[i].of], calls[i].size)
      \/ FreeBlock(p[calls[i].of])
  BY DEF TestCall
<1> QED
  BY <1>1, <1>2 DEF Called

LEMMA SizesAre ==
  ASSUME HeapSound(mem, live, e820)
  PROVE  \A f \in OnList : MaxDataLen(mem, f) \in Int
<1>1. PICK H : Sound(mem, live, e820, H)
  BY DEF HeapSound
<1>2. OnList = DOMAIN H
  BY <1>1, OnListIs
<1>3. ASSUME NEW f \in DOMAIN H PROVE MaxDataLen(mem, f) \in Int
  <2>1. f \in Nat \ {0} /\ H[f].size \in Nat /\ Lies(mem, f, H[f].size, H[f].prev, H[f].next, H[f].type, H[f].used)
    BY <1>1, SoundFacts
  <2>2. MaxDataLen(mem, f) = H[f].size - OverheadSize
    BY <2>1, LiesFields
  <2>3. QED
    BY <2>1, <2>2 DEF OverheadSize
<1> QED
  BY <1>2, <1>3

LEMMA CallStep ==
  ASSUME HeapSound(mem, live, e820), Called
  PROVE  /\ e820' = e820
         /\ ~ misled' => ~ misled /\ HeapSound(mem', live', e820')
         /\ ~ misled /\ refused' # 0 =>
              /\ UNCHANGED <<mem, live>>
              /\ \A f \in OnList : Type(mem, f) = Free => MaxDataLen(mem, f) < refused'
<1>1. ASSUME refused' \in Nat, refused' # 0 => Refusal(refused')
      PROVE  refused' # 0 => /\ UNCHANGED <<mem, live>>
                             /\ \A f \in OnList : Type(mem, f) = Free => MaxDataLen(mem, f) < refused'
  <2>1. \A f \in OnList : MaxDataLen(mem, f) \in Int
    BY SizesAre
  <2>2. SUFFICES ASSUME refused' # 0
                 PROVE  /\ UNCHANGED <<mem, live>>
                        /\ \A f \in OnList : Type(mem, f) = Free => MaxDataLen(mem, f) < refused'
    OBVIOUS
  <2>3. UNCHANGED <<mem, live>> /\ \A f \in OnList : Type(mem, f) = Free => ~ (MaxDataLen(mem, f) >= refused')
    BY <1>1, <2>2 DEF Refusal
  <2>4. PICK r \in Nat : r = refused'
    BY <1>1
  <2>5. ASSUME NEW f \in OnList, Type(mem, f) = Free PROVE MaxDataLen(mem, f) < refused'
    <3>1. MaxDataLen(mem, f) \in Int /\ ~ (MaxDataLen(mem, f) >= r)
      BY <2>1, <2>3, <2>4, <2>5
    <3>2. MaxDataLen(mem, f) < r
      BY <3>1
    <3>3. QED
      BY <2>4, <3>2
  <2>6. QED
    BY <2>3, <2>5
<1>2. ASSUME NEW size \in Nat, Alloc(size) PROVE refused' \in Nat
  BY <1>2, AlignFacts DEF Alloc
<1>3. CASE \E size \in Nat : Alloc(size)
  BY <1>1, <1>2, <1>3, AllocStep
<1>4. CASE \E b : FreeBlock(b)
  <2>1. PICK b : FreeBlock(b)
    BY <1>4
  <2>2. refused' = 0 /\ e820' = e820 /\ (~ misled' => ~ misled)
    BY <2>1 DEF FreeBlock
  <2>3. ~ misled' => HeapSound(mem', live', e820')
    BY <2>1, FreeStep
  <2>4. QED
    BY <2>2, <2>3
<1>5. CASE \E b : \E size \in Nat : Enlarge(b, size)
  <2>1. PICK b : \E size \in Nat : Enlarge(b, size)
    BY <1>5
  <2>2. PICK size \in Nat : Enlarge(b, size)
    BY <2>1
  <2>3. PICK n \in Nat : n = AlignSize(size)
    BY AlignFacts
  <2>4. EnlargeNot(b, n) \/ EnlargeInPlace(b, n) \/ EnlargeToNext(b, n) \/ EnlargeByMoving(b, n)
    BY <2>2, <2>3 DEF Enlarge
  <2>5. /\ refused' \in {0, n} /\ e820' = e820 /\ (~ misled' => ~ misled)
        /\ refused' # 0 /\ ~ misled => ~ misled'
    <3>1. CASE EnlargeNot(b, n)
      BY <3>1 DEF EnlargeNot
    <3>2. CASE EnlargeInPlace(b, n)
      BY <3>2 DEF EnlargeInPlace
    <3>3. CASE EnlargeToNext(b, n)
      BY <3>3 DEF EnlargeToNext
    <3>4. CASE EnlargeByMoving(b, n)
      <4>1. PICK q : q = FirstFit(mem, n)
        OBVIOUS
      <4>2. PICK w : w = Misleads(CopyRange(Occupied(mem, q, n), b + 64, q + 64, CurrentDataLen(mem, b)), b)
        OBVIOUS
      <4>3. /\ refused' = IF q = 0 THEN n ELSE 0
            /\ IF q = 0 THEN misled' = misled ELSE misled' = (misled \/ w)
            /\ e820' = e820
        BY <3>4, <4>1, <4>2 DEF EnlargeByMoving
      <4>4. QED
        BY <4>3
    <3>5. QED
      BY <2>4, <3>1, <3>2, <3>3, <3>4
  <2>6. ~ misled' => HeapSound(mem', live', e820') /\ (refused' # 0 => Refusal(refused'))
    BY <2>2, EnlargeStep
  <2>7. refused' \in Nat
    BY <2>3, <2>5
  <2>8. CASE misled' \/ misled
    BY <2>5, <2>6, <2>8
  <2>9. CASE ~ misled' /\ ~ misled
    BY <1>1, <2>5, <2>6, <2>7, <2>9
  <2>10. QED
    BY <2>8, <2>9
<1>6. CASE \E b : Fill(b)
  BY <1>6, FillStep
<1> QED
  BY <1>3, <1>4, <1>5, <1>6 DEF Called

-----------------------------------------------------------------------------
(* The invariant of mm                                                     *)

\* Where format has stopped the machine.
Stopped ==
  /\ pc = "lost" /\ live = <<>> /\ ~ SlotsLargeEnough
  /\ \A a \in DOMAIN mem : /\ a \in Int /\ mem[a] # Use
                           /\ \E n \in DOMAIN e820 : Low(e820, n) <= a /\ a + 8 <= High(e820, n)

TheSlots == reserve(initE820Arr, 0, MaxKernel)

MmInv ==
  /\ table \in Tables
  /\ mm_inited \in {1, 2}
  /\ mm_inited = 1 => /\ pc = "prompt" /\ i = 1 /\ refused = 0 /\ ~ misled
                      /\ e820 = <<>> /\ mem = <<>> /\ live = <<>>
  /\ e820 = <<>> \/ e820 = TheSlots
  /\ mm_inited = 2 /\ pc # "lost" => e820 = TheSlots
  /\ pc = "test" => i \in DOMAIN calls
  /\ ~ misled => HeapSound(mem, live, e820) \/ Stopped

LEMMA TheSlotsAre ==
  ASSUME table \in Tables
  PROVE  SlotList(TheSlots)
<1>1. PICK z : z = TheSlots
  OBVIOUS
<1>2. SlotList(z)
  <2>1. z = reserve(initE820Arr, 0, MaxKernel)
    BY <1>1 DEF TheSlots
  <2>2. /\ z \in Seq(Nat \X Nat) /\ DOMAIN z = 1 .. Len(z)
        /\ \A n \in DOMAIN z : /\ Low(z, n) \in Nat /\ Low(z, n) >= 8 /\ High(z, n) \in Nat
                               /\ z[n][2] \in Nat /\ High(z, n) >= Low(z, n)
        /\ \A n, k \in DOMAIN z : n # k => High(z, n) < Low(z, k) \/ High(z, k) < Low(z, n)
    BY <2>1, ReserveIs
  <2>3. Len(z) \in Nat
    BY <2>2, LenProperties
  <2>4. QED
    BY <2>2, <2>3 DEF SlotList
<1> QED
  BY <1>1, <1>2

LEMMA MmInvInit ==
  ASSUME MmInit PROVE MmInv
<1>1. HeapSound(mem, live, e820)
  BY EmptySound DEF MmInit
<1> QED
  BY <1>1 DEF MmInit, MmInv

LEMMA MainStep ==
  ASSUME MmInv, mm_main
  PROVE  MmInv' /\ refused' = 0
<1>1. /\ mm_inited = 1 /\ i = 1 /\ refused = 0 /\ ~ misled /\ e820 = <<>> /\ mem = <<>> /\ live = <<>>
      /\ table \in Tables
  BY DEF MmInv, mm_main
<1>2. mm_inited' = 2 /\ UNCHANGED <<live, refused, misled, table, i, p>>
  BY DEF mm_main
<1>3. TheSlots' = TheSlots
  BY <1>2 DEF TheSlots, reserve, initE820Arr
<1>4. CASE TooManySlots
  <2>1. pc' = "lost" /\ e820' = e820 /\ mem' = mem
    BY <1>4 DEF TooManySlots
  <2>2. HeapSound(mem', live', e820')
    BY <1>1, <1>2, <2>1, EmptySound
  <2>3. QED
    BY <1>1, <1>2, <2>1, <2>2 DEF MmInv
<1>5. CASE SlotsReady
  <2>1. PICK z : z = TheSlots
    OBVIOUS
  <2>2. /\ e820' = z /\ mem' = Formatted(z)
        /\ pc' = IF Reached(z) < Len(z) THEN "lost" ELSE IF table \in ForTest THEN "test" ELSE "prompt"
    BY <1>5, <2>1 DEF SlotsReady, TheSlots
  <2>3. SlotList(z)
    BY <1>1, <2>1, TheSlotsAre
  <2>4. i' \in DOMAIN calls
    BY <1>1, <1>2, CallsAre
  <2>5. CASE Reached(z) < Len(z)
    <3>1. pc' = "lost"
      BY <2>2, <2>5
    <3>2. /\ \E n \in DOMAIN z : ~ (z[n][2] >= MinDataSize + OverheadSize)
          /\ \A a \in DOMAIN Formatted(z) :
               /\ a \in Int /\ Formatted(z)[a] # Use
               /\ \E n \in DOMAIN z : Low(z, n) <= a /\ a + 8 <= High(z, n)
      BY <2>3, <2>5, FormattedStops
    <3>3. (~ SlotsLargeEnough)'
      BY <2>2, <3>2 DEF SlotsLargeEnough
    <3>4. Stopped'
      BY <1>1, <1>2, <2>2, <3>1, <3>2, <3>3 DEF Stopped
    <3>5. QED
      BY <1>1, <1>2, <1>3, <2>1, <2>2, <3>1, <3>4 DEF MmInv
  <2>6. CASE ~ (Reached(z) < Len(z))
    <3>1. Reached(z) = Len(z)
      <4>1. PICK r \in Nat, l \in Nat : r = Reached(z) /\ l = Len(z) /\ r <= l
        BY <2>3, ReachedIs DEF SlotList
      <4>2. r = l
        BY <2>6, <4>1
      <4>3. QED
        BY <4>1, <4>2, SMTT(40)
    <3>2. HeapSound(Formatted(z), <<>>, z)
      BY <2>3, <3>1, FormattedSound
    <3>3. HeapSound(mem', live', e820')
      BY <1>1, <1>2, <2>2, <3>2
    <3>4. (i \in DOMAIN calls)'
      BY <2>4 DEF calls, testAllocFrees, testEnlarge, alloc, enlarge, free
    <3>5. QED
      BY <1>1, <1>2, <1>3, <2>1, <2>2, <3>3, <3>4 DEF MmInv
  <2>7. QED
    BY <2>5, <2>6
<1> QED
  BY <1>1, <1>2, <1>4, <1>5 DEF mm_main

\* No call changes the slots, and none takes back that a free was misled.
LEMMA CallKeeps ==
  ASSUME Called, misled
  PROVE  misled' /\ e820' = e820
<1>1. ASSUME NEW size, Alloc(size) PROVE misled' /\ e820' = e820
  BY <1>1 DEF Alloc
<1>2. ASSUME NEW b, FreeBlock(b) PROVE misled' /\ e820' = e820
  BY <1>2 DEF FreeBlock
<1>3. ASSUME NEW b, NEW size, Enlarge(b, size) PROVE misled' /\ e820' = e820
  <2>1. ASSUME NEW n, EnlargeNot(b, n) PROVE misled' /\ e820' = e820
    BY <2>1 DEF EnlargeNot
  <2>2. ASSUME NEW n, EnlargeInPlace(b, n) PROVE misled' /\ e820' = e820
    BY <2>2 DEF EnlargeInPlace
  <2>3. ASSUME NEW n, EnlargeToNext(b, n) PROVE misled' /\ e820' = e820
    BY <2>3 DEF EnlargeToNext
  <2>4. ASSUME NEW n, EnlargeByMoving(b, n) PROVE misled' /\ e820' = e820
    <3>1. PICK q : q = FirstFit(mem, n)
      OBVIOUS
    <3>2. PICK w : w = Misleads(CopyRange(Occupied(mem, q, n), b + 64, q + 64, CurrentDataLen(mem, b)), b)
      OBVIOUS
    <3>3. e820' = e820 /\ IF q = 0 THEN misled' = misled ELSE misled' = (misled \/ w)
      BY <2>4, <3>1, <3>2 DEF EnlargeByMoving
    <3>4. QED
      BY <3>3
  <2>5. QED
    BY <1>3, <2>1, <2>2, <2>3, <2>4 DEF Enlarge
<1>4. ASSUME NEW b, Fill(b) PROVE misled' /\ e820' = e820
  BY <1>4 DEF Fill
<1> QED
  BY <1>1, <1>2, <1>3, <1>4 DEF Called

\* A call leaves the invariant as it is, given where it leaves mm.
LEMMA CalledStep ==
  ASSUME MmInv, mm_inited = 2, pc # "lost", Called, UNCHANGED <<table, mm_inited>>, pc' # "lost",
         pc' = "test" => i' \in DOMAIN calls
  PROVE  MmInv'
<1>1. table \in Tables /\ e820 = TheSlots /\ (~ misled => HeapSound(mem, live, e820))
  BY DEF MmInv, Stopped
<1>2. TheSlots' = TheSlots
  BY DEF TheSlots, reserve, initE820Arr
<1>3. \/ e820' = e820 /\ (~ misled' => HeapSound(mem', live', e820'))
      \/ misled /\ misled' /\ e820' = e820
  <2>1. CASE ~ misled
    BY <1>1, <2>1, CallStep
  <2>2. CASE misled
    <3>1. misled' /\ e820' = e820
      BY <2>2, CallKeeps
    <3>2. QED
      BY <2>2, <3>1
  <2>3. QED
    BY <2>1, <2>2
<1>4. (pc = "test" => i \in DOMAIN calls)'
  BY SMTT(40) DEF calls, testAllocFrees, testEnlarge, alloc, enlarge, free
<1> QED
  BY <1>1, <1>2, <1>3, <1>4 DEF MmInv

LEMMA NextCallIs ==
  ASSUME MmInv, pc = "test", NextCall
  PROVE  pc' # "lost" /\ (pc' = "test" => i' \in DOMAIN calls) /\ UNCHANGED <<table, mm_inited>>
<1>1. i \in 1 .. Len(calls) /\ Len(calls) \in Nat /\ DOMAIN calls = 1 .. Len(calls)
  BY CallsAre DEF MmInv
<1>2. i' = i + 1 /\ pc' = IF i = Len(calls) THEN "prompt" ELSE "test"
  BY DEF NextCall
<1>3. i # Len(calls) => i + 1 \in 1 .. Len(calls)
  <2>1. PICK k \in Nat, l \in Nat : k = i /\ l = Len(calls) /\ k \in 1 .. l
    <3>1. i \in Nat
      BY <1>1
    <3>2. QED
      BY <1>1, <3>1, Zenon
  <2>2. k # l => k + 1 \in 1 .. l
    BY <2>1
  <2>3. QED
    BY <2>1, <2>2
<1> QED
  BY <1>1, <1>2, <1>3 DEF NextCall

LEMMA MmInvStutters ==
  ASSUME MmInv, UNCHANGED mmVars PROVE MmInv'
<1>1. UNCHANGED <<e820, mem, live, refused, misled, table, mm_inited, pc, i, p>>
  BY DEF mmVars, heapVars
<1>2. TheSlots' = TheSlots
  BY <1>1 DEF TheSlots, reserve, initE820Arr
<1>3. Stopped => Stopped'
  BY <1>1 DEF Stopped, SlotsLargeEnough
<1>4. calls' = calls
  BY DEF calls, testAllocFrees, testEnlarge, alloc, enlarge, free
<1> QED
  BY <1>1, <1>2, <1>3, <1>4 DEF MmInv

LEMMA MmInvNext ==
  ASSUME MmInv, MmNext PROVE MmInv'
<1>1. CASE mm_main
  BY <1>1, MainStep
<1>2. ASSUME UNCHANGED mmVars PROVE MmInv'
  BY <1>2, MmInvStutters
<1>3. CASE mm_main_refused \/ exit \/ Faulted
  BY <1>2, <1>3 DEF mm_main_refused, exit, Faulted
<1>4. CASE TestCall
  <2>1. pc = "test" /\ NextCall
    BY <1>4 DEF TestCall
  <2>2. mm_inited = 2 /\ i \in DOMAIN calls
    BY <2>1 DEF MmInv
  <2>3. Called
    BY <1>4, <2>2, CalledByTest
  <2>4. QED
    BY <2>1, <2>2, <2>3, NextCallIs, CalledStep
<1>5. CASE TestFault
  <2>1. pc = "test" /\ pc' = "fault" /\ UNCHANGED <<heapVars, table, mm_inited, i, p>>
    BY <1>5 DEF TestFault
  <2>2. TheSlots' = TheSlots
    BY <2>1 DEF TheSlots, reserve, initE820Arr
  <2>3. mm_inited = 2 /\ (~ misled => HeapSound(mem, live, e820))
    BY <2>1 DEF MmInv, Stopped
  <2>4. QED
    BY <2>1, <2>2, <2>3 DEF MmInv, heapVars
<1>6. CASE Programs
  <2>1. pc = "prompt" /\ mm_inited = 2 /\ Called /\ UNCHANGED <<table, mm_inited, pc, i, p>>
    BY <1>6, CalledByPrograms DEF Programs
  <2>2. QED
    BY <2>1, CalledStep
<1> QED
  BY <1>1, <1>3, <1>4, <1>5, <1>6 DEF MmNext

LEMMA MmInvariant == MmSpec => []MmInv
<1>1. MmInit => MmInv
  BY MmInvInit
<1>2. MmInv /\ [MmNext]_mmVars => MmInv'
  <2>1. SUFFICES ASSUME MmInv, UNCHANGED mmVars PROVE MmInv'
    BY MmInvNext
  <2>2. QED
    BY <2>1, MmInvStutters
<1>3. QED
  BY <1>1, <1>2, PTL DEF MmSpec

-----------------------------------------------------------------------------
(* Theorems                                                                *)

\* What programs hold is on the list, in use and long enough, and no other block is in use: no
\* sequence of alloc, enlarge and free leaks memory.
THEOREM HeldBlocksAreInUse == MmSpec => []HeldIsInUse
<1>1. MmInv => HeldIsInUse
  <2>1. CASE misled
    BY <2>1 DEF HeldIsInUse
  <2>2. CASE HeapSound(mem, live, e820)
    BY <2>2, SoundHeld
  <2>3. CASE Stopped
    <3>1. DOMAIN live = {}
      BY <2>3 DEF Stopped
    <3>2. \A b : Type(mem, b) # Use
      BY <2>3 DEF Stopped, Type, Field, Read, Use
    <3>3. QED
      BY <3>1, <3>2 DEF HeldIsInUse
  <2>4. QED
    BY <2>1, <2>2, <2>3 DEF MmInv
<1> QED
  BY <1>1, MmInvariant, PTL

\* The blocks of the list tile the slots, and the words at both ends of each agree.
THEOREM BlocksTileSlots == MmSpec => []BlocksTile
<1>1. MmInv => BlocksTile
  <2>1. CASE misled
    BY <2>1 DEF BlocksTile
  <2>2. CASE HeapSound(mem, live, e820)
    BY <2>2, SoundTiles
  <2>3. CASE Stopped
    BY <2>3 DEF Stopped, BlocksTile
  <2>4. QED
    BY <2>1, <2>2, <2>3 DEF MmInv
<1> QED
  BY <1>1, MmInvariant, PTL

\* A call answers 0 only when no free block is large enough, and has then changed nothing.
THEOREM RefusedOnlyWhenFull == MmSpec => FailsOnlyWhenFull
<1> DEFINE Kept == ~ misled /\ refused' # 0 =>
                     /\ UNCHANGED <<mem, live>>
                     /\ \A f \in OnList : Type(mem, f) = Free => MaxDataLen(mem, f) < refused'
<1>1. ASSUME MmInv, [MmNext]_mmVars PROVE [Kept]_heapVars
  <2>1. CASE UNCHANGED heapVars
    BY <2>1
  <2>2. CASE mm_main
    BY <1>1, <2>2, MainStep
  <2>3. CASE TestCall
    <3>1. pc = "test"
      BY <2>3 DEF TestCall
    <3>2. Called
      BY <1>1, <2>3, <3>1, CalledByTest DEF MmInv
    <3>3. ~ misled => HeapSound(mem, live, e820)
      BY <1>1, <3>1 DEF MmInv, Stopped
    <3>4. QED
      BY <3>2, <3>3, CallStep
  <2>4. CASE Programs
    <3>1. pc = "prompt" /\ Called
      BY <2>4, CalledByPrograms DEF Programs
    <3>2. ~ misled => HeapSound(mem, live, e820)
      BY <1>1, <3>1 DEF MmInv, Stopped
    <3>3. QED
      BY <3>1, <3>2, CallStep
  <2>5. CASE mm_main_refused \/ exit \/ Faulted \/ TestFault \/ UNCHANGED mmVars
    BY <2>1, <2>5 DEF mm_main_refused, exit, Faulted, TestFault, mmVars
  <2>6. QED
    BY <1>1, <2>2, <2>3, <2>4, <2>5 DEF MmNext
<1>2. QED
  BY <1>1, MmInvariant, PTL DEF MmSpec, FailsOnlyWhenFull

\* Until a free is misled, the allocator writes only to usable memory above the kernel, and has
\* all of it in its slots.
THEOREM UsableMemoryOnly == MmSpec => [](~ misled => OnlyUsableMemory)
<1>1. MmInv /\ ~ misled => OnlyUsableMemory
  <2>1. SUFFICES ASSUME MmInv, ~ misled PROVE OnlyUsableMemory
    OBVIOUS
  <2>2. PICK z : z = TheSlots /\ z = reserve(initE820Arr, 0, MaxKernel)
    BY DEF TheSlots
  <2>3. /\ \A n \in DOMAIN z : \A a \in Int : Low(z, n) <= a /\ a < High(z, n) => Usable(a)
        /\ \A n \in DOMAIN z : Low(z, n) \in Nat /\ High(z, n) \in Nat
        /\ \A a \in Int : Usable(a) => \E n \in DOMAIN z : Low(z, n) <= a /\ a < High(z, n)
    <3>1. table \in Tables
      BY <2>1 DEF MmInv
    <3>2. QED
      BY <2>2, <3>1, ReserveIs
  <2>4. ASSUME NEW a \in DOMAIN mem PROVE Usable(a) /\ Usable(a + 7)
    <3>1. /\ a \in Int
          /\ \E n \in DOMAIN e820 : Low(e820, n) <= a /\ a + 8 <= High(e820, n)
      <4>1. CASE HeapSound(mem, live, e820)
        BY <4>1 DEF HeapSound, Sound, MemOK
      <4>2. CASE Stopped
        BY <4>2 DEF Stopped
      <4>3. QED
        BY <2>1, <4>1, <4>2 DEF MmInv
    <3>2. PICK n \in DOMAIN e820 : Low(e820, n) <= a /\ a + 8 <= High(e820, n)
      BY <3>1
    <3>3. e820 = z
      <4>1. e820 # <<>>
        BY <3>2
      <4>2. QED
        BY <2>1, <2>2, <4>1 DEF MmInv
    <3>4. n \in DOMAIN z /\ Low(z, n) \in Nat /\ High(z, n) \in Nat /\ Low(z, n) <= a /\ a + 8 <= High(z, n)
      BY <2>3, <3>2, <3>3
    <3>5. a + 7 \in Int /\ a < High(z, n) /\ Low(z, n) <= a + 7 /\ a + 7 < High(z, n)
      BY <3>1, <3>4
    <3>6. QED
      BY <2>3, <3>1, <3>4, <3>5
  <2>5. ASSUME mm_inited = 2, pc # "lost", NEW n \in DOMAIN table,
               NEW a \in {table[n][1], table[n][1] + table[n][2] - 1}, Usable(a)
        PROVE  \E s \in DOMAIN e820 : e820[s][1] <= a /\ a < e820[s][1] + e820[s][2]
    <3>1. table[n] \in Nat \X Nat \X Nat
      BY <2>1, TablesEnd, ElementOfSeq DEF MmInv
    <3>2. a \in Int
      BY <3>1
    <3>3. e820 = z
      BY <2>1, <2>2, <2>5 DEF MmInv
    <3>4. QED
      BY <2>3, <2>5, <3>2, <3>3 DEF Low, High
  <2>6. QED
    BY <2>4, <2>5 DEF OnlyUsableMemory
<1>2. QED
  BY <1>1, MmInvariant, PTL

\* Until a free is misled, no byte of what a program holds lies in a free block: the pointer that
\* canMergePrev follows is the only way to the damage that HeldIsNotFree shows.
THEOREM NothingHeldIsFree == MmSpec => [](~ misled => HeldIsNotFree)
<1>1. MmInv /\ ~ misled => HeldIsNotFree
  <2>1. SUFFICES ASSUME MmInv, ~ misled, NEW b \in DOMAIN live, NEW f \in OnList, Type(mem, f) = Free
                 PROVE  b + 64 + live[b] <= f \/ f + TotalSize(mem, f) <= b + 64
    BY DEF HeldIsNotFree
  <2>2. PICK H : Sound(mem, live, e820, H)
    BY <2>1 DEF MmInv, Stopped, HeapSound
  <2>3. f \in DOMAIN H /\ b \in DOMAIN H /\ H[b].type = Use /\ live[b] = H[b].used
    BY <2>1, <2>2, OnListIs DEF Sound, Holds
  <2>4. /\ b \in Nat /\ H[b].size \in Nat /\ H[b].used \in Nat /\ H[b].used <= H[b].size - 72
        /\ f \in Nat \ {0} /\ H[f].size \in Nat
        /\ Lies(mem, f, H[f].size, H[f].prev, H[f].next, H[f].type, H[f].used)
    BY <2>2, <2>3, SoundFacts
  <2>5. TotalSize(mem, f) = H[f].size /\ H[f].type = Free
    BY <2>1, <2>4, LiesFields
  <2>6. b # f
    BY <2>3, <2>5 DEF Free, Use
  <2>7. b + H[b].size <= f \/ f + H[f].size <= b
    BY <2>2, <2>3, <2>4, <2>6 DEF Sound, Tiles, Disjoint
  <2>8. QED
    BY <2>3, <2>4, <2>5, <2>7
<1>2. QED
  BY <1>1, MmInvariant, PTL

=============================================================================
