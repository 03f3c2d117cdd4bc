---------------------------- MODULE DiscReadProofs ----------------------------
(***************************************************************************)
(* Type correctness and safety of the card's two drivers, and that a read  *)
(* of an emulated disc is answered with the words of the image, for every  *)
(* set of cards, lists of fragments and requests, and any number of faults *)
(* and swaps.                                                              *)
(*                                                                         *)
(* First what the plan of a read is, for every list of fragments, every    *)
(* request and every size of a sector: the parts follow one another in the *)
(* buffer and each takes its words from where the disc has them.  The      *)
(* plans are recursive functions.  That each is well defined, and what     *)
(* holds of it from every sector on, is proved by induction on sets of     *)
(* numbers, which rests on the least element of such a set.                *)
(***************************************************************************)

EXTENDS DiscRead, FiniteSetTheorems, WellFoundedInduction, TLAPS

-----------------------------------------------------------------------------
(* Sets of numbers *)

\* A set of natural numbers has a least element: the intervals from 0 to its
\* elements are finite, and inclusion is well-founded among them.
LEMMA LeastOfSet ==
  ASSUME NEW T \in SUBSET Nat, T # {}
  PROVE  \E n \in T : \A m \in T : n <= m
<1> DEFINE F == {0 .. n : n \in T}
<1>1. IsWellFoundedOn(StrictSubsetOrdering(Nat), FiniteSubsetsOf(Nat))
  BY FS_StrictSubsetOrderingWellFounded
<1>2. F \subseteq FiniteSubsetsOf(Nat) /\ F # {}
  <2>1. ASSUME NEW n \in T
        PROVE  0 .. n \in FiniteSubsetsOf(Nat)
    <3>1. IsFiniteSet(0 .. n)
      BY FS_Interval
    <3>2. 0 .. n \in SUBSET Nat
      OBVIOUS
    <3> QED
      BY <3>1, <3>2 DEF FiniteSubsetsOf
  <2> QED
    BY <2>1
<1>3. PICK s \in F : \A t \in F : ~(<<t, s>> \in StrictSubsetOrdering(Nat))
  <2> HIDE DEF F
  <2> QED
    BY <1>1, <1>2, WFMin
<1>4. PICK n \in T : s = 0 .. n
  OBVIOUS
<1>5. ASSUME NEW m \in T, m < n
      PROVE  FALSE
  <2>1. 0 .. m \in F /\ 0 .. m \in SUBSET Nat /\ 0 .. n \in SUBSET Nat
    OBVIOUS
  <2>2. 0 .. m \subseteq 0 .. n /\ n \in 0 .. n /\ n \notin 0 .. m
    BY <1>5
  <2> QED
    BY <1>3, <1>4, <2>1, <2>2 DEF StrictSubsetOrdering
<1> QED
  BY <1>5

\* Induction: a set with 0 and every successor has all natural numbers.
LEMMA SetInduction ==
  ASSUME NEW S \in SUBSET Nat, 0 \in S, \A n \in S : n + 1 \in S
  PROVE  S = Nat
<1> SUFFICES ASSUME S # Nat
             PROVE  FALSE
  OBVIOUS
<1>1. Nat \ S \in SUBSET Nat /\ Nat \ S # {}
  OBVIOUS
<1>2. PICK n \in Nat \ S : \A m \in Nat \ S : n <= m
  BY <1>1, LeastOfSet
<1>3. n # 0 /\ n - 1 \in Nat /\ n = (n - 1) + 1
  BY <1>2
<1>4. n - 1 \in S
  BY <1>2, <1>3
<1> QED
  BY <1>2, <1>3, <1>4

\* Min, which chooses it.
LEMMA MinIsLeast ==
  ASSUME NEW T \in SUBSET Nat, T # {}
  PROVE  Min(T) \in T /\ \A m \in T : Min(T) <= m
BY LeastOfSet DEF Min

\* The least of two numbers.
LEMMA MinOfTwo ==
  ASSUME NEW a \in Nat, NEW b \in Nat
  PROVE  Min({a, b}) = IF a <= b THEN a ELSE b
<1>1. {a, b} \in SUBSET Nat /\ {a, b} # {}
  OBVIOUS
<1>2. Min({a, b}) \in {a, b} /\ Min({a, b}) <= a /\ Min({a, b}) <= b
  BY <1>1, MinIsLeast
<1> QED
  BY <1>2

-----------------------------------------------------------------------------
(* Sectors and words *)

\* Multiplication keeps the order.
LEMMA TimesKeepsOrder ==
  ASSUME NEW a \in Nat, NEW b \in Nat, NEW w \in Nat, a <= b
  PROVE  a * w <= b * w /\ a * w \in Nat /\ b * w \in Nat
OBVIOUS

\* Multiplication distributes over addition.
LEMMA Distributes ==
  ASSUME NEW a \in Nat, NEW b \in Nat, NEW w \in Nat
  PROVE  (a + b) * w = a * w + b * w
OBVIOUS

\* Quotient and remainder.
LEMMA DivModInt ==
  ASSUME NEW n \in Int, NEW w \in Int, w > 0
  PROVE  n = w * (n \div w) + (n % w)
OBVIOUS

\* The same of natural numbers, with their types.
LEMMA DivMod ==
  ASSUME NEW n \in Nat, NEW w \in Nat \ {0}
  PROVE  /\ n \div w \in Nat /\ n % w \in 0 .. w - 1
         /\ n = (n \div w) * w + (n % w)
<1>1. n % w \in 0 .. w - 1 /\ n \div w \in Int /\ n \div w >= 0
  OBVIOUS
<1>2. n = w * (n \div w) + (n % w)
  BY DivModInt
<1> DEFINE q == n \div w
           r == n % w
<1> HIDE DEF q, r
<1>3. w * q = q * w
  BY <1>1 DEF q
<1> QED
  BY <1>1, <1>2, <1>3 DEF q, r

\* They are the only numbers of that kind.
LEMMA DivModUnique ==
  ASSUME NEW q \in Nat, NEW r \in Nat, NEW w \in Nat \ {0}, r < w,
         NEW n \in Nat, n = q * w + r
  PROVE  n \div w = q /\ n % w = r
<1> DEFINE p == n \div w
           s == n % w
<1>1. p \in Nat /\ s \in 0 .. w - 1 /\ n = p * w + s
  BY DivMod
<1> HIDE DEF p, s
<1>2. CASE p < q
  <2>1. (p + 1) * w <= q * w
    BY <1>1, <1>2, TimesKeepsOrder
  <2>2. (p + 1) * w = p * w + w
    BY <1>1
  <2>3. p * w \in Nat /\ q * w \in Nat
    BY <1>1, TimesKeepsOrder
  <2> QED
    BY <1>1, <2>1, <2>2, <2>3
<1>3. CASE q < p
  <2>1. (q + 1) * w <= p * w
    BY <1>1, <1>3, TimesKeepsOrder
  <2>2. (q + 1) * w = q * w + w
    OBVIOUS
  <2>3. p * w \in Nat /\ q * w \in Nat
    BY <1>1, TimesKeepsOrder
  <2> QED
    BY <1>1, <2>1, <2>2, <2>3
<1>4. CASE p = q
  <2>1. p * w \in Nat
    BY <1>1, TimesKeepsOrder
  <2>2. s = r
    BY <1>1, <1>4, <2>1
  <2> QED
    BY <1>4, <2>2 DEF p, s
<1> QED
  BY <1>1, <1>2, <1>3, <1>4

\* A word some words behind the beginning of a sector.
LEMMA WordBehind ==
  ASSUME NEW q \in Nat, NEW k \in Nat, NEW w \in Nat \ {0}
  PROVE  /\ q * w + k \in Nat
         /\ (q * w + k) \div w = q + k \div w
         /\ (q * w + k) % w = k % w
<1> DEFINE p == k \div w
           s == k % w
<1>1. p \in Nat /\ s \in 0 .. w - 1 /\ k = p * w + s
  BY DivMod
<1> HIDE DEF p, s
<1>2. q * w \in Nat /\ p * w \in Nat
  BY <1>1, TimesKeepsOrder
<1>3. (q + p) * w = q * w + p * w
  BY <1>1
<1>4. q * w + k = (q + p) * w + s /\ q * w + k \in Nat
  BY <1>1, <1>2, <1>3
<1>5. (q * w + k) \div w = q + p /\ (q * w + k) % w = s
  BY <1>1, <1>4, DivModUnique
<1> QED
  BY <1>4, <1>5 DEF p, s

-----------------------------------------------------------------------------
(* The fragments *)

\* A list that a loader sets.
LEMMA ListType ==
  ASSUME NEW l \in FragLists
  PROVE  /\ l.frag \in Seq(Fragments) /\ l.size \in Nat /\ Sorted(l.frag)
         /\ \A i \in DOMAIN l.frag :
              /\ i \in Nat /\ l.frag[i] \in Fragments /\ End(l.frag[i]) \in Nat
              /\ l.frag[i].offset \in Nat /\ l.frag[i].count \in Nat /\ l.frag[i].sector \in Nat
              /\ End(l.frag[i]) = l.frag[i].offset + l.frag[i].count
              /\ End(l.frag[i]) <= l.size
<1>1. l.frag \in Seq(Fragments) /\ l.size \in Nat /\ Sorted(l.frag)
      /\ \A i \in DOMAIN l.frag : End(l.frag[i]) <= l.size
  BY DiscAssumption
<1>2. ASSUME NEW i \in DOMAIN l.frag
      PROVE  i \in Nat /\ l.frag[i] \in Fragments
  BY <1>1
<1> QED
  BY SMTT(30), <1>1, <1>2 DEF Fragments, End

\* No fragment before the index of a sector's chunk holds it or comes after it.
LEMMA BeforeFirst ==
  ASSUME NEW l \in FragLists, NEW offset \in Nat, NEW i \in DOMAIN l.frag,
         ~(i >= FirstFrag(l, offset \div IdxChunk))
  PROVE  End(l.frag[i]) <= offset
<1> DEFINE chunk == offset \div IdxChunk
           late  == {j \in 1 .. Len(l.frag) : End(l.frag[j]) > chunk * IdxChunk} \cup {Len(l.frag)}
<1>1. l.frag \in Seq(Fragments) /\ i \in 1 .. Len(l.frag) /\ Len(l.frag) \in Nat /\ i \in Nat
  BY ListType
<1>2. late \in SUBSET Nat /\ late # {}
  BY <1>1
<1>3. FirstFrag(l, chunk) = Min(late)
  BY DEF FirstFrag
<1>4. Min(late) \in Nat /\ \A m \in late : Min(late) <= m
  <2> HIDE DEF late
  <2> QED
    BY <1>2, MinIsLeast
<1>5. i \notin late
  BY <1>1, <1>3, <1>4
<1>6. ~(End(l.frag[i]) > chunk * IdxChunk)
  BY <1>1, <1>5
<1>7. IdxChunk \in Nat \ {0}
  BY DiscAssumption
<1>8. chunk \in Nat /\ offset % IdxChunk \in Nat /\ offset = chunk * IdxChunk + (offset % IdxChunk)
  BY <1>7, DivMod
<1>9. End(l.frag[i]) \in Nat /\ chunk * IdxChunk \in Nat
  BY <1>7, <1>8, ListType, TimesKeepsOrder
<1> HIDE DEF chunk
<1> QED
  BY <1>6, <1>8, <1>9

\* __Frag_Get looks at every fragment that has to do with the sectors.
LEMMA HitsAll ==
  ASSUME NEW l \in FragLists, NEW offset \in Nat, NEW count \in Nat, NEW i \in DOMAIN l.frag,
         Within(l.frag[i], offset) \/ Ahead(l.frag[i], offset, count)
  PROVE  i >= FirstFrag(l, offset \div IdxChunk)
<1> SUFFICES ASSUME ~(i >= FirstFrag(l, offset \div IdxChunk))
             PROVE  FALSE
  OBVIOUS
<1>1. End(l.frag[i]) <= offset
  BY BeforeFirst
<1> QED
  BY SMTT(20), <1>1, ListType DEF Within, Ahead

\* What __Frag_Get finds: first sectors that no fragment has, then sectors of one
\* fragment, at least one of both, none of them behind what was asked for or
\* behind the disc.
Hole(l, first, n) ==
  \A s \in first .. first + n - 1 : \A i \in DOMAIN l.frag : ~Within(l.frag[i], s)
Piece(l, first, n, sector) ==
  \E i \in DOMAIN l.frag : \A s \in first .. first + n - 1 :
    Within(l.frag[i], s) /\ sector + (s - first) = l.frag[i].sector + (s - l.frag[i].offset)

\* __Frag_Get answers with such sectors.
LEMMA FragGetRight ==
  ASSUME NEW l \in FragLists, NEW offset \in Nat, NEW count \in Nat \ {0},
         FragGet(l, offset, count) # None
  PROVE  LET g == FragGet(l, offset, count) IN
         /\ g.skip \in Nat /\ g.sector \in Nat /\ g.count \in Nat
         /\ g.skip + g.count \in 1 .. count
         /\ Hole(l, offset, g.skip)
         /\ g.count # 0 => Piece(l, offset + g.skip, g.count, g.sector)
         /\ offset + g.skip + g.count <= l.size
<1> DEFINE hits == {i \in DOMAIN l.frag :
                      /\ i >= FirstFrag(l, offset \div IdxChunk)
                      /\ Within(l.frag[i], offset) \/ Ahead(l.frag[i], offset, count)}
           g == FragGet(l, offset, count)
<1>1. /\ \A i \in DOMAIN l.frag :
           /\ i \in Nat /\ End(l.frag[i]) = l.frag[i].offset + l.frag[i].count
           /\ l.frag[i].offset \in Nat /\ l.frag[i].count \in Nat /\ l.frag[i].sector \in Nat
           /\ End(l.frag[i]) <= l.size
      /\ \A i, j \in DOMAIN l.frag : i < j => End(l.frag[i]) <= l.frag[j].offset
      /\ l.size \in Nat
  BY ListType DEF Sorted
<1>2. CASE hits = {}
  <2>1. g = [skip |-> count, sector |-> 0, count |-> 0] /\ ~(offset + count > l.size)
    BY <1>2 DEF FragGet
  <2>2. ASSUME NEW s \in offset .. offset + count - 1, NEW i \in DOMAIN l.frag,
               Within(l.frag[i], s)
        PROVE  FALSE
    <3>1. ~(Within(l.frag[i], offset) \/ Ahead(l.frag[i], offset, count))
      BY <1>2, HitsAll
    <3> QED
      BY <1>1, <2>2, <3>1 DEF Within, Ahead
  <2>3. Hole(l, offset, g.skip)
    BY <2>1, <2>2 DEF Hole
  <2> QED
    BY <1>1, <2>1, <2>3
<1>3. CASE hits # {}
  <2>1. hits \in SUBSET Nat
    BY <1>1
  <2> DEFINE i == Min(hits)
             f == l.frag[i]
  <2>2. i \in hits /\ \A j \in hits : i <= j
    <3> HIDE DEF hits
    <3> QED
      BY <1>3, <2>1, MinIsLeast
  <2>3. g = Found(f, offset, count)
    BY <1>3 DEF FragGet
  <2>4. i \in DOMAIN l.frag /\ (Within(f, offset) \/ Ahead(f, offset, count))
    BY <2>2
  <2>5. ASSUME NEW j \in DOMAIN l.frag, j < i
        PROVE  ~(Within(l.frag[j], offset) \/ Ahead(l.frag[j], offset, count))
    <3>1. i \in Nat /\ j \in Nat
      BY <1>1, <2>4
    <3>2. j \notin hits
      <4> HIDE DEF hits, i
      <4> QED
        BY <2>2, <2>5, <3>1
    <3> QED
      BY <3>2, HitsAll
  <2> HIDE DEF hits, i
  <2>6. f.offset \in Nat /\ f.count \in Nat /\ f.sector \in Nat /\ End(f) = f.offset + f.count
        /\ End(f) <= l.size
    BY <1>1, <2>4
  <2>7. CASE Within(f, offset)
    <3>1. f.offset <= offset /\ End(f) > offset
      BY <2>7 DEF Within
    <3>2. End(f) - offset \in Nat
      BY <2>6, <3>1
    <3>3. g = [skip |-> 0, sector |-> f.sector + (offset - f.offset),
               count |-> Min({End(f) - offset, count})]
      BY <2>3, <2>7 DEF Found
    <3>4. g.count = IF End(f) - offset <= count THEN End(f) - offset ELSE count
      BY <3>2, <3>3, MinOfTwo
    <3>5. g.skip = 0 /\ g.sector = f.sector + (offset - f.offset)
      BY <3>3
    <3> HIDE DEF g
    <3>6. g.sector \in Nat /\ g.count \in 1 .. count /\ offset + g.count <= End(f)
      BY <2>6, <3>1, <3>2, <3>4, <3>5
    <3>7. ASSUME NEW s \in offset .. offset + g.count - 1
          PROVE  Within(f, s) /\ g.sector + (s - offset) = f.sector + (s - f.offset)
      BY <2>6, <3>1, <3>5, <3>6 DEF Within
    <3>8. Piece(l, offset + g.skip, g.count, g.sector)
      BY <2>4, <3>5, <3>7 DEF Piece
    <3>9. Hole(l, offset, g.skip)
      BY <3>5 DEF Hole
    <3>10. /\ g.skip \in Nat /\ g.sector \in Nat /\ g.count \in Nat
           /\ g.skip + g.count \in 1 .. count /\ offset + g.skip + g.count <= l.size
      BY <1>1, <2>6, <3>5, <3>6
    <3> QED
      BY <3>8, <3>9, <3>10 DEF g
  <2>8. CASE ~Within(f, offset)
    <3>1. f.offset > offset /\ f.offset < offset + count
      BY <2>4, <2>8 DEF Ahead
    <3>2. f.offset - offset \in Nat /\ count - (f.offset - offset) \in Nat
      BY <2>6, <3>1
    <3>3. g = [skip |-> f.offset - offset, sector |-> f.sector,
               count |-> Min({f.count, count - (f.offset - offset)})]
      BY <2>3, <2>8 DEF Found, FoundAhead
    <3>4. g.count = IF f.count <= count - (f.offset - offset) THEN f.count
                    ELSE count - (f.offset - offset)
      BY <2>6, <3>2, <3>3, MinOfTwo
    <3>5. g.skip = f.offset - offset /\ g.sector = f.sector
      BY <3>3
    <3> HIDE DEF g
    <3>6. /\ g.count \in Nat /\ g.skip \in Nat /\ g.skip + g.count \in 1 .. count
          /\ offset + g.skip = f.offset /\ f.offset + g.count <= End(f)
      BY <2>6, <3>1, <3>2, <3>4, <3>5
    <3>7. ASSUME NEW s \in f.offset .. f.offset + g.count - 1
          PROVE  Within(f, s) /\ g.sector + (s - f.offset) = f.sector + (s - f.offset)
      BY <2>6, <3>5, <3>6 DEF Within
    <3>8. Piece(l, offset + g.skip, g.count, g.sector)
      BY <2>4, <3>6, <3>7 DEF Piece
    <3>9. ASSUME NEW s \in offset .. offset + g.skip - 1, NEW j \in DOMAIN l.frag,
                 Within(l.frag[j], s)
          PROVE  FALSE
      <4>1. l.frag[j].offset <= s /\ End(l.frag[j]) > s /\ s \in Nat /\ s < f.offset /\ s >= offset
        BY <2>6, <3>6, <3>9 DEF Within
      <4>2. CASE j < i
        <5>1. ~(Within(l.frag[j], offset) \/ Ahead(l.frag[j], offset, count))
          BY <2>5, <4>2
        <5> QED
          BY <1>1, <2>6, <3>1, <4>1, <5>1 DEF Within, Ahead
      <4>3. CASE i < j
        <5>1. End(f) <= l.frag[j].offset
          BY <1>1, <2>4, <4>3
        <5> QED
          BY <1>1, <2>6, <4>1, <5>1
      <4>4. CASE i = j
        BY <1>1, <2>6, <4>1, <4>4
      <4>5. i \in Nat /\ j \in Nat
        BY <1>1, <2>4
      <4> QED
        BY <4>2, <4>3, <4>4, <4>5
    <3>10. Hole(l, offset, g.skip)
      BY <3>9 DEF Hole
    <3>11. g.sector \in Nat /\ offset + g.skip + g.count <= l.size
      BY <1>1, <2>6, <3>5, <3>6
    <3> QED
      BY <3>6, <3>8, <3>10, <3>11 DEF g
  <2> QED
    BY <2>7, <2>8
<1> QED
  BY <1>2, <1>3

\* A word of a hole, and one of a piece.
LEMMA HoleWord ==
  ASSUME NEW l \in FragLists, NEW first \in Nat, NEW n \in Nat, Hole(l, first, n),
         NEW w \in Nat, w \div Words \in first .. first + n - 1
  PROVE  ImageWord(l, w) = "zero"
BY DEF Hole, ImageWord

\* A word of a piece is one of the sector of the disc that holds it.
LEMMA PieceWord ==
  ASSUME NEW l \in FragLists, NEW first \in Nat, NEW n \in Nat, NEW sector \in Nat,
         Piece(l, first, n, sector),
         NEW w \in Nat, w \div Words \in first .. first + n - 1
  PROVE  ImageWord(l, w) = <<sector + (w \div Words - first), w % Words>>
<1> DEFINE s    == w \div Words
           hits == {i \in DOMAIN l.frag : Within(l.frag[i], s)}
           c    == CHOOSE i \in hits : TRUE
<1>1. PICK i \in DOMAIN l.frag : /\ Within(l.frag[i], s)
                                 /\ sector + (s - first) = l.frag[i].sector + (s - l.frag[i].offset)
  BY DEF Piece
<1>2. c \in DOMAIN l.frag /\ Within(l.frag[c], s) /\ hits # {}
  BY <1>1
<1>3. ImageWord(l, w) = <<l.frag[c].sector + (s - l.frag[c].offset), w % Words>>
  BY <1>2 DEF ImageWord
<1> HIDE DEF c, hits
<1>4. s \in Nat
  BY DiscAssumption, DivMod
<1> HIDE DEF s
<1>5. c = i
  <2>1. i \in Nat /\ c \in Nat
    BY <1>1, <1>2, ListType
  <2>2. ASSUME NEW j \in DOMAIN l.frag, NEW k \in DOMAIN l.frag, j < k,
               Within(l.frag[j], s), Within(l.frag[k], s)
        PROVE  FALSE
    <3>1. End(l.frag[j]) <= l.frag[k].offset
      BY <2>2, ListType DEF Sorted
    <3> QED
      BY SMTT(60), <1>4, <2>2, <3>1, ListType DEF Within
  <2> QED
    BY <1>1, <1>2, <2>1, <2>2
<1> QED
  BY <1>1, <1>3, <1>5 DEF s

-----------------------------------------------------------------------------
(* Parts *)

PartSet == [at : Nat, n : Nat, sector : Nat \cup {None}, from : Nat]

\* The parts of p follow one another from the place a of the buffer to b.
Chained(p, a, b) ==
  /\ p \in Seq(PartSet)
  /\ p = <<>> => a = b
  /\ p # <<>> => p[1].at = a /\ p[Len(p)].at + p[Len(p)].n = b
  /\ \A i \in 1 .. Len(p) - 1 : p[i + 1].at = p[i].at + p[i].n

\* A sequence is empty when its length is 0.
LEMMA NoLength ==
  ASSUME NEW S, NEW s \in Seq(S)
  PROVE  (s = <<>>) = (Len(s) = 0)
OBVIOUS

\* A chain and one that begins where it ends.
LEMMA ChainedConcat ==
  ASSUME NEW p, NEW q, NEW a \in Nat, NEW b \in Nat, NEW c \in Nat,
         Chained(p, a, b), Chained(q, b, c)
  PROVE  Chained(p \o q, a, c)
<1> DEFINE r == p \o q
<1>1. /\ p \in Seq(PartSet) /\ q \in Seq(PartSet) /\ Len(p) \in Nat /\ Len(q) \in Nat
      /\ (p = <<>>) = (Len(p) = 0) /\ (q = <<>>) = (Len(q) = 0)
  BY DEF Chained
<1>2. /\ r \in Seq(PartSet) /\ Len(r) = Len(p) + Len(q)
      /\ \A i \in 1 .. Len(p) : r[i] = p[i]
      /\ \A i \in 1 .. Len(q) : r[Len(p) + i] = q[i]
  BY <1>1
<1> HIDE DEF r
<1>3. (r = <<>>) = (Len(r) = 0)
  BY <1>2
<1>4. CASE p = <<>>
  <2>1. r = q /\ a = b
    BY <1>1, <1>4 DEF r, Chained
  <2> QED
    BY <2>1 DEF r
<1>5. CASE q = <<>>
  <2>1. r = p /\ b = c
    BY <1>1, <1>5 DEF r, Chained
  <2> QED
    BY <2>1 DEF r
<1>6. CASE p # <<>> /\ q # <<>>
  <2>1. Len(p) >= 1 /\ Len(q) >= 1
    BY <1>1, <1>6
  <2>2. r[1] = p[1] /\ r[Len(r)] = q[Len(q)] /\ r[Len(p)] = p[Len(p)] /\ r[Len(p) + 1] = q[1]
    BY <1>2, <1>1, <2>1
  <2>3. r[1].at = a /\ r[Len(r)].at + r[Len(r)].n = c
    BY <1>6, <2>2 DEF Chained
  <2>4. ASSUME NEW i \in 1 .. Len(r) - 1
        PROVE  r[i + 1].at = r[i].at + r[i].n
    <3>1. CASE i < Len(p)
      <4>1. r[i] = p[i] /\ r[i + 1] = p[i + 1] /\ i \in 1 .. Len(p) - 1
        BY <1>1, <1>2, <3>1
      <4> QED
        BY <4>1 DEF Chained
    <3>2. CASE i = Len(p)
      BY <1>6, <2>2, <3>2 DEF Chained
    <3>3. CASE i > Len(p)
      <4> DEFINE k == i - Len(p)
      <4>1. k \in 1 .. Len(q) - 1 /\ i = Len(p) + k /\ i + 1 = Len(p) + (k + 1)
        BY <1>1, <1>2, <3>3
      <4> HIDE DEF k
      <4>2. r[i] = q[k] /\ r[i + 1] = q[k + 1]
        BY <1>1, <1>2, <4>1
      <4> QED
        BY <4>1, <4>2 DEF Chained
    <3> QED
      BY <1>1, <3>1, <3>2, <3>3
  <2> QED
    BY <1>1, <1>2, <1>3, <2>1, <2>3, <2>4 DEF r, Chained
<1> QED
  BY <1>4, <1>5, <1>6

\* Chains of one part and of none.
LEMMA ChainedOne ==
  ASSUME NEW part \in PartSet, NEW b, b = part.at + part.n
  PROVE  Chained(<<part>>, part.at, b)
BY DEF Chained

\* No part is a chain from a place to itself.
LEMMA ChainedNone ==
  ASSUME NEW a
  PROVE  Chained(<<>>, a, a)
BY DEF Chained

\* The last part ends where the chain does, and no part begins behind it.
LEMMA ChainedGrows ==
  ASSUME NEW p, NEW a \in Nat, NEW b \in Nat, Chained(p, a, b)
  PROVE  /\ a <= b
         /\ \A i \in 1 .. Len(p) : a <= p[i].at /\ p[i].at + p[i].n <= b
<1>1. p \in Seq(PartSet) /\ Len(p) \in Nat /\ (p = <<>>) = (Len(p) = 0)
      /\ \A i \in 1 .. Len(p) : p[i].at \in Nat /\ p[i].n \in Nat
  <2>1. p \in Seq(PartSet)
    BY DEF Chained
  <2>2. \A i \in 1 .. Len(p) : p[i] \in PartSet
    BY <2>1
  <2>3. \A i \in 1 .. Len(p) : p[i].at \in Nat /\ p[i].n \in Nat
    BY <2>2 DEF PartSet
  <2>4. Len(p) \in Nat /\ (p = <<>>) = (Len(p) = 0)
    BY <2>1
  <2> QED
    BY <2>1, <2>3, <2>4
<1>2. CASE p = <<>>
  BY <1>1, <1>2 DEF Chained
<1>3. CASE p # <<>>
  <2> DEFINE n == Len(p)
             Above == {i \in Nat : i + 1 \in 1 .. n => a <= p[i + 1].at}
             Below == {i \in Nat : n - i \in 1 .. n => p[n - i].at + p[n - i].n <= b}
  <2>1. n \in Nat /\ n >= 1 /\ p[1].at = a /\ p[n].at + p[n].n = b
        /\ \A i \in 1 .. n - 1 : p[i + 1].at = p[i].at + p[i].n
    BY <1>1, <1>3 DEF Chained
  <2> HIDE DEF n
  <2>2. Above = Nat
    <3>1. 0 \in Above
      BY <1>1, <2>1
    <3>2. ASSUME NEW i \in Above
          PROVE  i + 1 \in Above
      <4> SUFFICES ASSUME (i + 1) + 1 \in 1 .. n
                   PROVE  a <= p[(i + 1) + 1].at
        OBVIOUS
      <4>1. i + 1 \in 1 .. n - 1 /\ i + 1 \in 1 .. n
        BY <2>1
      <4>2. a <= p[i + 1].at /\ p[(i + 1) + 1].at = p[i + 1].at + p[i + 1].n
        BY <2>1, <4>1
      <4>3. p[i + 1].at \in Nat /\ p[i + 1].n \in Nat
        BY <1>1, <4>1 DEF n
      <4> QED
        BY <4>2, <4>3
    <3>3. Above \in SUBSET Nat
      OBVIOUS
    <3> HIDE DEF Above
    <3> QED
      BY <3>1, <3>2, <3>3, SetInduction
  <2>3. Below = Nat
    <3>1. 0 \in Below
      BY <1>1, <2>1
    <3>2. ASSUME NEW i \in Below
          PROVE  i + 1 \in Below
      <4> SUFFICES ASSUME n - (i + 1) \in 1 .. n
                   PROVE  p[n - (i + 1)].at + p[n - (i + 1)].n <= b
        OBVIOUS
      <4> DEFINE k == n - (i + 1)
      <4>1. k \in 1 .. n - 1 /\ n - i = k + 1 /\ k \in 1 .. n /\ k + 1 \in 1 .. n
        BY <2>1
      <4> HIDE DEF k
      <4>2. p[k + 1].at + p[k + 1].n <= b /\ p[k + 1].at = p[k].at + p[k].n
        BY <2>1, <4>1
      <4>3. p[k + 1].at \in Nat /\ p[k + 1].n \in Nat
        BY <1>1, <4>1 DEF n
      <4>4. p[k].at + p[k].n <= b
        BY <4>2, <4>3
      <4> QED
        BY <4>4 DEF k
    <3>3. Below \in SUBSET Nat
      OBVIOUS
    <3> HIDE DEF Below
    <3> QED
      BY <3>1, <3>2, <3>3, SetInduction
  <2>4. ASSUME NEW i \in 1 .. n
        PROVE  a <= p[i].at /\ p[i].at + p[i].n <= b
    <3>1. i - 1 \in Nat /\ (i - 1) + 1 = i /\ n - i \in Nat /\ n - (n - i) = i
      BY <2>1
    <3>2. i - 1 \in Above /\ n - i \in Below
      <4> HIDE DEF Above, Below
      <4> QED
        BY <2>2, <2>3, <3>1
    <3> QED
      BY <3>1, <3>2
  <2>5. p[1].at \in Nat /\ p[1].n \in Nat /\ p[1].at + p[1].n <= b
    <3>1. 1 \in 1 .. n
      BY <2>1
    <3> QED
      BY <1>1, <2>4, <3>1 DEF n
  <2> QED
    BY <2>1, <2>4, <2>5 DEF n
<1> QED
  BY <1>2, <1>3

\* The first part is where the chain begins, and the rest goes on behind it.
LEMMA ChainedTail ==
  ASSUME NEW p, NEW a \in Nat, NEW b \in Nat, Chained(p, a, b), p # <<>>
  PROVE  /\ Head(p) \in PartSet /\ Head(p) = p[1] /\ Head(p).at = a /\ a + Head(p).n <= b
         /\ Chained(Tail(p), a + Head(p).n, b)
<1> DEFINE t == Tail(p)
<1>1. p \in Seq(PartSet) /\ Len(p) \in Nat /\ Len(p) >= 1 /\ p[1] \in PartSet /\ Head(p) = p[1]
      /\ p[1].at = a
  BY DEF Chained
<1>2. /\ t \in Seq(PartSet) /\ Len(t) = Len(p) - 1
      /\ \A i \in 1 .. Len(t) : t[i] = p[i + 1]
      /\ (t = <<>>) = (Len(t) = 0)
  <2>1. t \in Seq(PartSet) /\ Len(t) = Len(p) - 1
    BY <1>1
  <2>2. \A i \in 1 .. Len(t) : t[i] = p[i + 1]
    BY <1>1, <2>1
  <2> HIDE DEF t
  <2>3. (t = <<>>) = (Len(t) = 0)
    BY <2>1, NoLength
  <2> QED
    BY <2>1, <2>2, <2>3
<1>3. a + p[1].n <= b
  BY <1>1, ChainedGrows
<1> HIDE DEF t
<1>4. t = <<>> => a + p[1].n = b
  <2> SUFFICES ASSUME t = <<>>
               PROVE  a + p[1].n = b
    OBVIOUS
  <2>1. Len(p) = 1
    BY <1>1, <1>2
  <2> QED
    BY <1>1, <2>1 DEF Chained
<1>5. t # <<>> => t[1].at = a + p[1].n /\ t[Len(t)].at + t[Len(t)].n = b
  <2> SUFFICES ASSUME t # <<>>
               PROVE  t[1].at = a + p[1].n /\ t[Len(t)].at + t[Len(t)].n = b
    OBVIOUS
  <2>1. t[1] = p[1 + 1] /\ t[Len(t)] = p[Len(p)] /\ 1 \in 1 .. Len(p) - 1
    BY <1>1, <1>2
  <2> QED
    BY <1>1, <2>1 DEF Chained
<1>6. ASSUME NEW i \in 1 .. Len(t) - 1
      PROVE  t[i + 1].at = t[i].at + t[i].n
  <2>1. t[i] = p[i + 1] /\ t[i + 1] = p[(i + 1) + 1] /\ i + 1 \in 1 .. Len(p) - 1
    BY <1>1, <1>2
  <2> QED
    BY <2>1 DEF Chained
<1>7. Chained(t, a + p[1].n, b)
  BY <1>2, <1>4, <1>5, <1>6 DEF Chained
<1> QED
  BY <1>1, <1>3, <1>7 DEF t

\* Every part of p takes its words from where the list has them.  The place 0 of
\* the buffer is for the word base of the disc.
Right(l, base, p) ==
  \A i \in DOMAIN p : \A k \in 0 .. p[i].n - 1 :
    Source(p[i], Words, k) = ImageWord(l, base + (p[i].at + k))

\* One part.
LEMMA RightOne ==
  ASSUME NEW l, NEW base, NEW part,
         \A k \in 0 .. part.n - 1 : Source(part, Words, k) = ImageWord(l, base + (part.at + k))
  PROVE  Right(l, base, <<part>>)
<1>1. DOMAIN <<part>> = {1} /\ <<part>>[1] = part
  OBVIOUS
<1> QED
  BY <1>1 DEF Right

\* What is right of two plans is right of both, and of what is left of one.
LEMMA RightConcat ==
  ASSUME NEW l, NEW base, NEW p \in Seq(PartSet), NEW q \in Seq(PartSet),
         Right(l, base, p), Right(l, base, q)
  PROVE  Right(l, base, p \o q)
<1> SUFFICES ASSUME NEW i \in DOMAIN (p \o q)
             PROVE  \A k \in 0 .. (p \o q)[i].n - 1 :
                      Source((p \o q)[i], Words, k) = ImageWord(l, base + ((p \o q)[i].at + k))
  BY DEF Right
<1>1. \/ i \in DOMAIN p /\ (p \o q)[i] = p[i]
      \/ i - Len(p) \in DOMAIN q /\ (p \o q)[i] = q[i - Len(p)]
  OBVIOUS
<1> QED
  BY <1>1 DEF Right

\* Right parts without their first.
LEMMA RightTail ==
  ASSUME NEW l, NEW base, NEW p \in Seq(PartSet), p # <<>>, Right(l, base, p)
  PROVE  Right(l, base, Tail(p))
<1> SUFFICES ASSUME NEW i \in DOMAIN Tail(p)
             PROVE  \A k \in 0 .. Tail(p)[i].n - 1 :
                      Source(Tail(p)[i], Words, k) = ImageWord(l, base + (Tail(p)[i].at + k))
  BY DEF Right
<1>1. i + 1 \in DOMAIN p /\ Tail(p)[i] = p[i + 1]
  OBVIOUS
<1> QED
  BY <1>1 DEF Right

-----------------------------------------------------------------------------
(* __Frag_ReadSect *)

\* One turn of its loop: what is found at the k-th sector, and what is read after it.
Turn(l, offset, len, at, rest, k) ==
  LET g     == FragGet(l, offset + k, len - k)
      place == at + k * Words
      zeros == IF g.skip = 0 THEN <<>> ELSE <<Part(place, g.skip * Words, None, 0)>>
      read  == IF g.count = 0 THEN <<>>
               ELSE <<Part(place + g.skip * Words, g.count * Words, g.sector, 0)>>
      more  == rest[k + g.skip + g.count] IN
  IF k = len THEN Plan(<<>>, TRUE)
  ELSE IF g = None THEN Plan(<<>>, FALSE)
  ELSE Plan(zeros \o read \o more.parts, more.ok)

\* A turn looks only at the plans of later sectors.
LEMMA TurnLooksAhead ==
  ASSUME NEW l \in FragLists, NEW offset \in Nat, NEW len \in Nat, NEW at, NEW k \in 0 .. len,
         NEW f, NEW h, \A m \in k + 1 .. len : f[m] = h[m]
  PROVE  Turn(l, offset, len, at, f, k) = Turn(l, offset, len, at, h, k)
<1> DEFINE g == FragGet(l, offset + k, len - k)
<1>1. CASE k # len /\ g # None
  <2>1. offset + k \in Nat /\ len - k \in Nat \ {0}
    BY <1>1
  <2>2. g.skip \in Nat /\ g.count \in Nat /\ g.skip + g.count \in 1 .. len - k
    BY <1>1, <2>1, FragGetRight
  <2>3. k + g.skip + g.count \in k + 1 .. len
    <3> HIDE DEF g
    <3> QED
      BY <2>2
  <2>4. f[k + g.skip + g.count] = h[k + g.skip + g.count]
    BY <2>3
  <2> QED
    BY <2>4 DEF Turn
<1>2. CASE k = len \/ g = None
  BY <1>2 DEF Turn
<1> QED
  BY <1>1, <1>2

\* The recursion is well defined.
LEMMA ReadSectTurns ==
  ASSUME NEW l \in FragLists, NEW offset \in Nat, NEW len \in Nat, NEW at
  PROVE  \E f : /\ \A k \in 0 .. len : f[k] = Turn(l, offset, len, at, f, k)
                /\ ReadSect(l, offset, len, at) = f[0]
<1> DEFINE Is(f, m) == f = [k \in m .. len |-> Turn(l, offset, len, at, f, k)]
           S == {m \in Nat : m <= len => \E f : Is(f, len - m)}
<1>1. 0 \in S
  <2> DEFINE f == [k \in len .. len |-> Plan(<<>>, TRUE)]
  <2>1. ASSUME NEW k \in len .. len
        PROVE  f[k] = Turn(l, offset, len, at, f, k)
    BY DEF Turn
  <2>2. f = [k \in len .. len |-> Turn(l, offset, len, at, f, k)]
    BY <2>1
  <2>3. len - 0 = len
    OBVIOUS
  <2> QED
    BY <2>2, <2>3
<1>2. ASSUME NEW m \in S
      PROVE  m + 1 \in S
  <2> SUFFICES ASSUME m + 1 <= len
               PROVE  \E h : Is(h, len - (m + 1))
    OBVIOUS
  <2>1. PICK f : Is(f, len - m)
    OBVIOUS
  <2> DEFINE j == len - (m + 1)
             h == [k \in j .. len |-> IF k = j THEN Turn(l, offset, len, at, f, k) ELSE f[k]]
  <2>2. j \in Nat /\ len - m = j + 1 /\ j \in 0 .. len
    OBVIOUS
  <2> HIDE DEF j
  <2>3. \A k \in j + 1 .. len : h[k] = f[k] /\ f[k] = Turn(l, offset, len, at, f, k)
    <3>1. f = [k \in j + 1 .. len |-> Turn(l, offset, len, at, f, k)]
      BY <2>1, <2>2
    <3>2. \A k \in j + 1 .. len : f[k] = Turn(l, offset, len, at, f, k)
      BY <3>1
    <3>3. \A k \in j + 1 .. len : k \in j .. len /\ k # j
      BY <2>2
    <3> QED
      BY <3>2, <3>3
  <2>4. h[j] = Turn(l, offset, len, at, f, j)
    BY <2>2
  <2> HIDE DEF h
  <2>5. ASSUME NEW k \in j .. len
        PROVE  h[k] = Turn(l, offset, len, at, h, k)
    <3>1. k \in 0 .. len /\ \A n \in k + 1 .. len : f[n] = h[n]
      BY <2>2, <2>3
    <3>2. Turn(l, offset, len, at, f, k) = Turn(l, offset, len, at, h, k)
      BY <3>1, TurnLooksAhead
    <3>3. h[k] = Turn(l, offset, len, at, f, k)
      BY <2>2, <2>3, <2>4
    <3> QED
      BY <3>2, <3>3
  <2>6. Is(h, j)
    BY <2>5 DEF h
  <2> QED
    BY <2>6 DEF j
<1>3. S = Nat
  <2> HIDE DEF S
  <2>1. S \in SUBSET Nat
    BY DEF S
  <2> QED
    BY <1>1, <1>2, <2>1, SetInduction
<1>4. \E f : Is(f, len - len)
  BY <1>3
<1>5. \E f : Is(f, 0)
  <2>1. len - len = 0
    OBVIOUS
  <2> QED
    BY <1>4, <2>1
<1> DEFINE R == CHOOSE f : f = [k \in 0 .. len |-> Turn(l, offset, len, at, f, k)]
<1>6. R = [k \in 0 .. len |-> Turn(l, offset, len, at, R, k)]
  BY <1>5
<1>7. ReadSect(l, offset, len, at) = R[0]
  BY DEF ReadSect, Turn
<1> HIDE DEF R
<1>8. \A k \in 0 .. len : R[k] = Turn(l, offset, len, at, R, k)
  BY <1>6
<1> QED
  BY <1>7, <1>8

\* Words of whole sectors lie in them.
LEMMA WordsOfSectors ==
  ASSUME NEW n \in Nat, NEW k \in Nat, NEW w \in Nat \ {0}, k < n * w
  PROVE  k \div w \in 0 .. n - 1
<1> DEFINE q == k \div w
<1>1. q \in Nat /\ k % w \in 0 .. w - 1 /\ k = q * w + (k % w)
  BY DivMod
<1> HIDE DEF q
<1>2. ASSUME n <= q
      PROVE  FALSE
  <2>1. n * w <= q * w /\ n * w \in Nat /\ q * w \in Nat
    BY <1>1, <1>2, TimesKeepsOrder
  <2> QED
    BY <1>1, <2>1
<1> QED
  BY <1>1, <1>2 DEF q

\* The part of a turn for sectors of a hole, and that for sectors of a fragment.
LEMMA ZerosRight ==
  ASSUME NEW l \in FragLists, NEW first \in Nat, NEW n \in Nat, Hole(l, first, n),
         NEW place \in Nat, NEW base \in Int, base + place = first * Words
  PROVE  Right(l, base, <<Part(place, n * Words, None, 0)>>)
<1> DEFINE part == Part(place, n * Words, None, 0)
<1>1. Words \in Nat \ {0}
  BY DiscAssumption
<1>2. ASSUME NEW k \in 0 .. n * Words - 1
      PROVE  Source(part, Words, k) = ImageWord(l, base + (part.at + k))
  <2>1. n * Words \in Nat /\ first * Words \in Nat
    BY <1>1, TimesKeepsOrder
  <2>2. k \in Nat /\ k \div Words \in 0 .. n - 1
    <3>1. k \in Nat /\ k < n * Words
      BY <2>1
    <3> QED
      BY <1>1, <3>1, WordsOfSectors
  <2>3. base + (part.at + k) = first * Words + k
    BY <2>1, <2>2 DEF Part
  <2>4. first * Words + k \in Nat /\ (first * Words + k) \div Words = first + (k \div Words)
    BY <1>1, <2>2, WordBehind
  <2>5. first + (k \div Words) \in first .. first + n - 1
    BY <2>2
  <2>6. ImageWord(l, first * Words + k) = "zero"
    BY <2>4, <2>5, HoleWord
  <2> QED
    BY <2>3, <2>6 DEF Source, Part
<1>3. part.n = n * Words
  BY DEF Part
<1> HIDE DEF part
<1>4. Right(l, base, <<part>>)
  BY <1>2, <1>3, RightOne
<1> QED
  BY <1>4 DEF part

\* The part that reads a piece is right.
LEMMA ReadRight ==
  ASSUME NEW l \in FragLists, NEW first \in Nat, NEW n \in Nat, NEW sector \in Nat,
         Piece(l, first, n, sector),
         NEW place \in Nat, NEW base \in Int, base + place = first * Words
  PROVE  Right(l, base, <<Part(place, n * Words, sector, 0)>>)
<1> DEFINE part == Part(place, n * Words, sector, 0)
<1>1. Words \in Nat \ {0} /\ sector # None
  BY DiscAssumption
<1>2. ASSUME NEW k \in 0 .. n * Words - 1
      PROVE  Source(part, Words, k) = ImageWord(l, base + (part.at + k))
  <2>1. n * Words \in Nat /\ first * Words \in Nat
    BY <1>1, TimesKeepsOrder
  <2>2. k \in Nat /\ k \div Words \in 0 .. n - 1
    <3>1. k \in Nat /\ k < n * Words
      BY <2>1
    <3> QED
      BY <1>1, <3>1, WordsOfSectors
  <2>3. base + (part.at + k) = first * Words + k
    BY <2>1, <2>2 DEF Part
  <2>4. /\ first * Words + k \in Nat /\ (first * Words + k) \div Words = first + (k \div Words)
        /\ (first * Words + k) % Words = k % Words
    BY <1>1, <2>2, WordBehind
  <2>5. first + (k \div Words) \in first .. first + n - 1
        /\ (first + (k \div Words)) - first = k \div Words
    BY <2>2
  <2>6. ImageWord(l, first * Words + k) = <<sector + (k \div Words), k % Words>>
    BY <2>4, <2>5, PieceWord
  <2>7. Source(part, Words, k) = <<sector + ((0 + k) \div Words), (0 + k) % Words>>
    BY <1>1 DEF Source, Part
  <2>8. 0 + k = k
    BY <2>2
  <2> QED
    BY <2>3, <2>6, <2>7, <2>8
<1>3. part.n = n * Words
  BY DEF Part
<1> HIDE DEF part
<1>4. Right(l, base, <<part>>)
  BY <1>2, <1>3, RightOne
<1> QED
  BY <1>4 DEF part

\* A plan from the k-th sector on.
PlanSet == [parts : Seq(PartSet), ok : BOOLEAN]
PlanRight(l, offset, len, at, k, plan) ==
  /\ plan \in PlanSet
  /\ plan.ok =>
       /\ Chained(plan.parts, at + k * Words, at + len * Words)
       /\ Right(l, offset * Words - at, plan.parts)
       /\ k # len => offset + len <= l.size

\* A turn of Frag_Read makes a right plan from right plans of the sectors behind it.
LEMMA TurnRight ==
  ASSUME NEW l \in FragLists, NEW offset \in Nat, NEW len \in Nat, NEW at \in Nat,
         NEW k \in 0 .. len, NEW f,
         \A m \in k + 1 .. len : PlanRight(l, offset, len, at, m, f[m])
  PROVE  PlanRight(l, offset, len, at, k, Turn(l, offset, len, at, f, k))
<1> DEFINE g     == FragGet(l, offset + k, len - k)
           place == at + k * Words
           zeros == IF g.skip = 0 THEN <<>> ELSE <<Part(place, g.skip * Words, None, 0)>>
           read  == IF g.count = 0 THEN <<>>
                    ELSE <<Part(place + g.skip * Words, g.count * Words, g.sector, 0)>>
           more  == f[k + g.skip + g.count]
           base  == offset * Words - at
           to    == at + len * Words
<1>1. Words \in Nat \ {0}
  BY DiscAssumption
<1>2. CASE k = len
  <2>1. Turn(l, offset, len, at, f, k) = [parts |-> <<>>, ok |-> TRUE]
    BY <1>2 DEF Turn, Plan
  <2>2. Chained(<<>>, at + k * Words, at + len * Words) /\ Right(l, base, <<>>)
    BY <1>2, ChainedNone DEF Right
  <2> QED
    BY <1>2, <2>1, <2>2 DEF PlanRight, PlanSet
<1>3. CASE k # len /\ g = None
  <2>1. Turn(l, offset, len, at, f, k) = [parts |-> <<>>, ok |-> FALSE]
    BY <1>3 DEF Turn, Plan
  <2> QED
    BY <2>1 DEF PlanRight, PlanSet
<1>4. CASE k # len /\ g # None
  <2> DEFINE j == k + g.skip + g.count
             mid == at + (k + g.skip) * Words
             end == at + j * Words
  <2>1. Turn(l, offset, len, at, f, k) = [parts |-> zeros \o read \o more.parts, ok |-> more.ok]
    BY <1>4 DEF Turn, Plan
  <2>2. offset + k \in Nat /\ len - k \in Nat \ {0}
    BY <1>4
  <2>3. /\ g.skip \in Nat /\ g.sector \in Nat /\ g.count \in Nat
        /\ g.skip + g.count \in 1 .. len - k
        /\ Hole(l, offset + k, g.skip)
        /\ g.count # 0 => Piece(l, (offset + k) + g.skip, g.count, g.sector)
        /\ (offset + k) + g.skip + g.count <= l.size
    BY <1>4, <2>2, FragGetRight
  <2> HIDE DEF g
  <2>4. j \in k + 1 .. len
    BY <2>3
  <2>5. PlanRight(l, offset, len, at, j, more)
    BY <2>4
  <2>6. /\ k * Words \in Nat /\ g.skip * Words \in Nat /\ g.count * Words \in Nat
        /\ j * Words \in Nat /\ len * Words \in Nat /\ offset * Words \in Nat
    BY <1>1, <2>3, <2>4, TimesKeepsOrder
  <2>7. mid = place + g.skip * Words /\ end = mid + g.count * Words
    <3>1. (k + g.skip) * Words = k * Words + g.skip * Words
      BY <1>1, <2>3, Distributes
    <3>2. k + g.skip \in Nat
      BY <2>3
    <3>3. ((k + g.skip) + g.count) * Words = (k + g.skip) * Words + g.count * Words
      BY <1>1, <2>3, <3>2, Distributes
    <3> QED
      BY <2>6, <3>1, <3>3
  <2>8. place \in Nat /\ mid \in Nat /\ end \in Nat /\ to \in Nat /\ base \in Int
    BY <2>6, <2>7
  <2>9. base + place = (offset + k) * Words /\ base + mid = ((offset + k) + g.skip) * Words
    <3>1. (offset + k) * Words = offset * Words + k * Words
      BY <1>1, Distributes
    <3>2. ((offset + k) + g.skip) * Words = (offset + k) * Words + g.skip * Words
      BY <1>1, <2>2, <2>3, Distributes
    <3> QED
      BY <2>6, <2>7, <3>1, <3>2
  <2>10. Chained(zeros, place, mid) /\ Right(l, base, zeros) /\ zeros \in Seq(PartSet)
    <3>1. CASE g.skip = 0
      <4>0. g.skip * Words = 0
        BY <1>1, <3>1
      <4>1. zeros = <<>> /\ place = mid
        BY <2>7, <2>8, <3>1, <4>0
      <4> QED
        BY <4>1, ChainedNone DEF Right
    <3>2. CASE g.skip # 0
      <4>1. zeros = <<Part(place, g.skip * Words, None, 0)>>
        BY <3>2
      <4>2. Part(place, g.skip * Words, None, 0) \in PartSet
        BY <2>6, <2>8 DEF Part, PartSet
      <4>3. Right(l, base, zeros)
        BY <2>2, <2>3, <2>8, <2>9, <4>1, ZerosRight
      <4>4. Chained(zeros, place, mid)
        BY <2>7, <4>1, <4>2, ChainedOne DEF Part
      <4> QED
        BY <4>1, <4>2, <4>3, <4>4
    <3> QED
      BY <3>1, <3>2
  <2>11. Chained(read, mid, end) /\ Right(l, base, read) /\ read \in Seq(PartSet)
    <3>1. CASE g.count = 0
      <4>0. g.count * Words = 0
        BY <1>1, <3>1
      <4>1. read = <<>> /\ mid = end
        BY <2>7, <2>8, <3>1, <4>0
      <4> QED
        BY <4>1, ChainedNone DEF Right
    <3>2. CASE g.count # 0
      <4>1. read = <<Part(mid, g.count * Words, g.sector, 0)>>
        BY <2>7, <3>2
      <4>2. Part(mid, g.count * Words, g.sector, 0) \in PartSet
        BY <2>3, <2>6, <2>8 DEF Part, PartSet
      <4>3. (offset + k) + g.skip \in Nat
        BY <2>2, <2>3
      <4>4. Right(l, base, read)
        BY <2>3, <2>8, <2>9, <3>2, <4>1, <4>3, ReadRight
      <4>5. Chained(read, mid, end)
        BY <2>7, <4>1, <4>2, ChainedOne DEF Part
      <4> QED
        BY <4>1, <4>2, <4>4, <4>5
    <3> QED
      BY <3>1, <3>2
  <2> HIDE DEF zeros, read
  <2>12. more \in PlanSet /\ more.parts \in Seq(PartSet) /\ more.ok \in BOOLEAN
    BY <2>5 DEF PlanRight, PlanSet
  <2> DEFINE all == zeros \o read \o more.parts
  <2>13. all \in Seq(PartSet) /\ zeros \o read \in Seq(PartSet)
    BY <2>10, <2>11, <2>12
  <2>14. ASSUME more.ok
         PROVE  Chained(all, place, to) /\ Right(l, base, all) /\ offset + len <= l.size
    <3>1. /\ Chained(more.parts, end, to) /\ Right(l, base, more.parts)
          /\ j # len => offset + len <= l.size
      BY <2>5, <2>14 DEF PlanRight
    <3>2. Chained(zeros \o read, place, end)
      BY <2>8, <2>10, <2>11, ChainedConcat
    <3>3. Chained(all, place, to)
      BY <2>8, <3>1, <3>2, ChainedConcat
    <3>4. Right(l, base, zeros \o read)
      BY <2>10, <2>11, RightConcat
    <3>5. Right(l, base, all)
      BY <2>12, <2>13, <3>1, <3>4, RightConcat
    <3>6. j = len => offset + len <= l.size
      BY <2>2, <2>3
    <3> QED
      BY <3>1, <3>3, <3>5, <3>6
  <2> QED
    BY <2>1, <2>12, <2>13, <2>14 DEF PlanRight, PlanSet
<1> QED
  BY <1>2, <1>3, <1>4

\* __Frag_ReadSect reads the words of the sectors that are asked for, in order.
LEMMA ReadSectRight ==
  ASSUME NEW l \in FragLists, NEW offset \in Nat, NEW len \in Nat, NEW at \in Nat
  PROVE  PlanRight(l, offset, len, at, 0, ReadSect(l, offset, len, at))
<1>1. PICK f : /\ \A k \in 0 .. len : f[k] = Turn(l, offset, len, at, f, k)
               /\ ReadSect(l, offset, len, at) = f[0]
  BY ReadSectTurns
<1>2. \A k \in 0 .. len : f[k] = Turn(l, offset, len, at, f, k)
  BY <1>1
<1> DEFINE S == {m \in Nat : \A k \in 0 .. len :
                   len - m <= k => PlanRight(l, offset, len, at, k, f[k])}
<1>3. 0 \in S
  <2> SUFFICES ASSUME NEW k \in 0 .. len, len - 0 <= k
               PROVE  PlanRight(l, offset, len, at, k, f[k])
    OBVIOUS
  <2>1. \A m \in k + 1 .. len : PlanRight(l, offset, len, at, m, f[m])
    OBVIOUS
  <2> QED
    BY <1>2, <2>1, TurnRight
<1>4. ASSUME NEW m \in S
      PROVE  m + 1 \in S
  <2> SUFFICES ASSUME NEW k \in 0 .. len, len - (m + 1) <= k
               PROVE  PlanRight(l, offset, len, at, k, f[k])
    OBVIOUS
  <2>1. \A n \in k + 1 .. len : len - m <= n /\ n \in 0 .. len
    OBVIOUS
  <2>2. \A n \in k + 1 .. len : PlanRight(l, offset, len, at, n, f[n])
    BY <2>1
  <2> QED
    BY <1>2, <2>2, TurnRight
<1>5. S = Nat
  <2>1. S \in SUBSET Nat
    OBVIOUS
  <2> HIDE DEF S
  <2> QED
    BY <1>3, <1>4, <2>1, SetInduction
<1>6. len \in S
  BY <1>5
<1>7. 0 \in 0 .. len /\ len - len <= 0
  OBVIOUS
<1> QED
  BY <1>1, <1>6, <1>7

-----------------------------------------------------------------------------
(* Frag_Read *)

\* No sectors, and one sector: a plan of no part and of one.
LEMMA ReadSectNone ==
  ASSUME NEW l \in FragLists, NEW offset \in Nat, NEW at
  PROVE  ReadSect(l, offset, 0, at) = Plan(<<>>, TRUE)
<1>1. PICK f : /\ \A k \in 0 .. 0 : f[k] = Turn(l, offset, 0, at, f, k)
               /\ ReadSect(l, offset, 0, at) = f[0]
  BY ReadSectTurns
<1>2. f[0] = Turn(l, offset, 0, at, f, 0)
  BY <1>1
<1> QED
  BY <1>1, <1>2 DEF Turn

\* One sector is read by one part, from a sector of the disc or as zeros.
LEMMA ReadSectOne ==
  ASSUME NEW l \in FragLists, NEW offset \in Nat, ReadSect(l, offset, 1, 0).ok
  PROVE  \E sector \in Nat \cup {None} : ReadSect(l, offset, 1, 0).parts = <<Part(0, Words, sector, 0)>>
<1> DEFINE g     == FragGet(l, offset + 0, 1 - 0)
           place == 0 + 0 * Words
           zeros == IF g.skip = 0 THEN <<>> ELSE <<Part(place, g.skip * Words, None, 0)>>
           read  == IF g.count = 0 THEN <<>>
                    ELSE <<Part(place + g.skip * Words, g.count * Words, g.sector, 0)>>
<1>1. PICK f : /\ \A k \in 0 .. 1 : f[k] = Turn(l, offset, 1, 0, f, k)
               /\ ReadSect(l, offset, 1, 0) = f[0]
  BY ReadSectTurns
<1>2. f[0] = Turn(l, offset, 1, 0, f, 0) /\ f[1] = Turn(l, offset, 1, 0, f, 1)
  <2>1. 0 \in 0 .. 1 /\ 1 \in 0 .. 1
    OBVIOUS
  <2> QED
    BY <1>1, <2>1
<1>3. f[1] = [parts |-> <<>>, ok |-> TRUE]
  BY <1>2 DEF Turn, Plan
<1>4. f[0] = IF g = None THEN Plan(<<>>, FALSE)
             ELSE Plan(zeros \o read \o f[0 + g.skip + g.count].parts, f[0 + g.skip + g.count].ok)
  BY <1>2 DEF Turn
<1>5. g # None
  <2>1. Plan(<<>>, FALSE).ok = FALSE
    BY DEF Plan
  <2> HIDE DEF g
  <2> QED
    BY <1>1, <1>4, <2>1
<1>6. g.skip \in Nat /\ g.sector \in Nat /\ g.count \in Nat /\ g.skip + g.count \in 1 .. 1
  <2>1. offset + 0 \in Nat /\ 1 - 0 \in Nat \ {0} /\ 1 - 0 = 1
    OBVIOUS
  <2> QED
    BY <1>5, <2>1, FragGetRight
<1> HIDE DEF g
<1>7. 0 + g.skip + g.count = 1 /\ f[1].parts = <<>>
  BY <1>3, <1>6
<1>8. f[0].parts = zeros \o read \o <<>>
  <2> HIDE DEF zeros, read
  <2> DEFINE more == f[0 + g.skip + g.count]
  <2>1. f[0].parts = zeros \o read \o more.parts
    <3> DEFINE all == zeros \o read \o more.parts
               ok  == more.ok
    <3>1. f[0] = Plan(all, ok)
      BY <1>4, <1>5
    <3> HIDE DEF all, ok
    <3>2. f[0].parts = all
      BY <3>1 DEF Plan
    <3> QED
      BY <3>2 DEF all
  <2> QED
    BY <1>7, <2>1
<1>9. Words \in Nat /\ place = 0 /\ place + 0 * Words = 0 /\ 1 * Words = Words
  BY DiscAssumption
<1> HIDE DEF place
<1>10. CASE g.skip = 1 /\ g.count = 0
  <2>1. zeros = <<Part(0, Words, None, 0)>> /\ read = <<>>
    BY <1>9, <1>10
  <2> HIDE DEF zeros, read
  <2>2. f[0].parts = <<Part(0, Words, None, 0)>>
    <3>1. \A part : <<part>> \o <<>> \o <<>> = <<part>>
      OBVIOUS
    <3> QED
      BY <1>8, <2>1, <3>1
  <2> QED
    BY <1>1, <2>2
<1>11. CASE g.skip = 0 /\ g.count = 1
  <2>1. zeros = <<>> /\ read = <<Part(0, Words, g.sector, 0)>>
    BY <1>9, <1>11
  <2> HIDE DEF zeros, read
  <2>2. f[0].parts = <<Part(0, Words, g.sector, 0)>>
    <3>1. \A part : <<>> \o <<part>> \o <<>> = <<part>>
      OBVIOUS
    <3> QED
      BY <1>8, <2>1, <3>1
  <2> QED
    BY <1>1, <1>6, <2>2
<1> QED
  BY <1>6, <1>10, <1>11

\* A plan for the places from a to b of the buffer.
PlanFor(l, offset, plan, a, b) ==
  /\ plan \in PlanSet
  /\ plan.ok => Chained(plan.parts, a, b) /\ Right(l, offset, plan.parts)

\* __Frag_ReadPartial reads the words that are asked for of a sector.
LEMMA ReadPartialRight ==
  ASSUME NEW l \in FragLists, NEW offset \in Nat, NEW n \in Nat, NEW at \in Nat,
         n <= Words - (offset % Words)
  PROVE  LET plan == ReadPartial(l, offset, n, at) IN
         /\ PlanFor(l, offset - at, plan, at, at + n)
         /\ plan.ok /\ n # 0 => offset + n <= l.size * Words
<1> DEFINE q    == offset \div Words
           m    == offset % Words
           sect == ReadSect(l, q, 1, 0)
           plan == ReadPartial(l, offset, n, at)
<1>1. Words \in Nat \ {0} /\ q \in Nat /\ m \in 0 .. Words - 1 /\ offset = q * Words + m
  BY DiscAssumption, DivMod
<1>2. PlanRight(l, q, 1, 0, 0, sect)
  <2> HIDE DEF q
  <2> QED
    BY <1>1, ReadSectRight
<1>3. sect \in PlanSet /\ sect.ok \in BOOLEAN
  BY <1>2 DEF PlanRight, PlanSet
<1>4. CASE n = 0 \/ ~sect.ok
  <2>1. plan = [parts |-> <<>>, ok |-> (sect.ok \/ n = 0)]
    BY <1>4 DEF ReadPartial, Plan
  <2>2. plan \in PlanSet /\ (plan.ok => n = 0)
    BY <1>3, <1>4, <2>1 DEF PlanSet
  <2>3. plan.ok => Chained(plan.parts, at, at + n) /\ Right(l, offset - at, plan.parts)
    <3>1. at + 0 = at
      OBVIOUS
    <3> QED
      BY <2>1, <2>2, <3>1, ChainedNone DEF Right
  <2> QED
    BY <2>2, <2>3 DEF PlanFor
<1>5. CASE n # 0 /\ sect.ok
  <2>1. PICK sector \in Nat \cup {None} : sect.parts = <<Part(0, Words, sector, 0)>>
    <3> HIDE DEF q
    <3> QED
      BY <1>1, <1>5, ReadSectOne
  <2> DEFINE part == Part(at, n, sector, m)
             one  == Part(0, Words, sector, 0)
  <2>2. plan = [parts |-> <<part>>, ok |-> TRUE]
    <3>1. plan = Plan(<<Part(at, n, sect.parts[1].sector, m)>>, TRUE)
      BY <1>5 DEF ReadPartial
    <3>2. sect.parts[1].sector = sector
      BY <2>1 DEF Part
    <3> QED
      BY <3>1, <3>2 DEF Plan
  <2>3. Right(l, q * Words - 0, <<one>>) /\ q + 1 <= l.size
    BY <1>2, <1>5, <2>1 DEF PlanRight
  <2> HIDE DEF q, m, sect, plan
  <2>4. part \in PartSet
    BY <1>1 DEF Part, PartSet
  <2>5. \A k \in 0 .. Words - 1 : Source(one, Words, k) = ImageWord(l, q * Words + k)
    <3>1. q * Words \in Nat
      BY <1>1, TimesKeepsOrder
    <3>2. \A k \in 0 .. <<one>>[1].n - 1 :
             Source(<<one>>[1], Words, k) = ImageWord(l, (q * Words - 0) + (<<one>>[1].at + k))
      BY <2>3 DEF Right
    <3>3. <<one>>[1] = one /\ one.n = Words /\ one.at = 0
      BY DEF Part
    <3>4. \A k \in 0 .. Words - 1 : (q * Words - 0) + (0 + k) = q * Words + k
      BY <3>1
    <3> HIDE DEF one
    <3> QED
      BY <3>2, <3>3, <3>4
  <2>6. ASSUME NEW k \in 0 .. part.n - 1
        PROVE  Source(part, Words, k) = ImageWord(l, (offset - at) + (part.at + k))
    <3>1. part.n = n /\ part.at = at /\ part.from = m /\ part.sector = sector
      BY DEF Part
    <3>2. one.from = 0 /\ one.sector = sector
      BY DEF Part
    <3> HIDE DEF part, one
    <3>3. q * Words \in Nat
      BY <1>1, TimesKeepsOrder
    <3>4. m + k \in 0 .. Words - 1 /\ k \in Nat /\ 0 + (m + k) = m + k
      BY <1>1, <3>1 DEF m
    <3>5. (offset - at) + (at + k) = q * Words + (m + k)
      BY <1>1, <3>3, <3>4
    <3>6. Source(part, Words, k) = Source(one, Words, m + k)
      BY <3>1, <3>2, <3>4 DEF Source
    <3> QED
      BY <2>5, <3>1, <3>4, <3>5, <3>6
  <2>7. Right(l, offset - at, <<part>>)
    <3> HIDE DEF part
    <3> QED
      BY <2>6, RightOne
  <2>8. Chained(<<part>>, at, at + n)
    <3>1. part.at = at /\ part.n = n
      BY DEF Part
    <3> HIDE DEF part
    <3> QED
      BY <2>4, <3>1, ChainedOne
  <2>9. offset + n <= l.size * Words
    <3>1. (q + 1) * Words <= l.size * Words /\ (q + 1) * Words = q * Words + 1 * Words
      <4>1. l.size \in Nat
        BY ListType
      <4> QED
        BY <1>1, <2>3, <4>1, TimesKeepsOrder, Distributes
    <3>2. q * Words \in Nat /\ l.size * Words \in Nat /\ 1 * Words = Words
      BY <1>1, ListType, TimesKeepsOrder
    <3> QED
      BY <1>1, <3>1, <3>2 DEF m
  <2> QED
    BY <2>2, <2>4, <2>7, <2>8, <2>9 DEF PlanFor, PlanSet, plan
<1> QED
  BY <1>3, <1>4, <1>5

\* One plan, and then another.
LEMMA ThenRight ==
  ASSUME NEW l, NEW offset, NEW p, NEW q, NEW a \in Nat, NEW b \in Nat, NEW c \in Nat,
         PlanFor(l, offset, p, a, b), PlanFor(l, offset, q, b, c)
  PROVE  PlanFor(l, offset, Then(p, q), a, c) /\ (Then(p, q).ok => p.ok /\ q.ok)
<1>1. /\ p.parts \in Seq(PartSet) /\ p.ok \in BOOLEAN
      /\ q.parts \in Seq(PartSet) /\ q.ok \in BOOLEAN
      /\ p \in PlanSet /\ q \in PlanSet
  BY DEF PlanFor, PlanSet
<1>2. CASE p.ok
  <2>1. Then(p, q) = [parts |-> p.parts \o q.parts, ok |-> q.ok]
    BY <1>2 DEF Then, Plan
  <2>2. p.parts \o q.parts \in Seq(PartSet)
    BY <1>1
  <2>3. q.ok => Chained(p.parts \o q.parts, a, c) /\ Right(l, offset, p.parts \o q.parts)
    BY <1>1, <1>2, ChainedConcat, RightConcat DEF PlanFor
  <2> QED
    BY <1>1, <1>2, <2>1, <2>2, <2>3 DEF PlanFor, PlanSet
<1>3. CASE ~p.ok
  BY <1>1, <1>3 DEF Then, PlanFor
<1> QED
  BY <1>1, <1>2, <1>3

\* The part up to a whole sector ends at a sector, or is all that is read.
LEMMA PartialLenRight ==
  ASSUME NEW offset \in Nat, NEW len \in Nat
  PROVE  LET head == PartialLen(offset, len) IN
         /\ head \in 0 .. len /\ head <= Words - (offset % Words)
         /\ head = len \/ \E s \in Nat : offset + head = s * Words
<1> DEFINE q    == offset \div Words
           m    == offset % Words
           n    == Min({Words - m, len})
           head == PartialLen(offset, len)
<1>1. Words \in Nat \ {0} /\ q \in Nat /\ m \in 0 .. Words - 1 /\ offset = q * Words + m
  BY DiscAssumption, DivMod
<1>2. head = IF n = Words THEN 0 ELSE n
  BY DEF PartialLen
<1> HIDE DEF q, m, head
<1>3. n = IF Words - m <= len THEN Words - m ELSE len
  <2>1. Words - m \in Nat
    BY <1>1
  <2> QED
    BY <2>1, MinOfTwo
<1>4. q * Words \in Nat /\ (q + 1) * Words = q * Words + Words
  <2>1. (q + 1) * Words = q * Words + 1 * Words
    BY <1>1, Distributes
  <2> QED
    BY <1>1, <2>1, TimesKeepsOrder
<1> HIDE DEF n
<1>5. CASE n = Words
  <2>1. head = 0 /\ offset + head = q * Words
    BY <1>1, <1>2, <1>3, <1>4, <1>5
  <2>2. head \in 0 .. len /\ head <= Words - m
    BY <1>1, <2>1
  <2> QED
    BY <1>1, <2>1, <2>2 DEF head, m
<1>6. CASE n # Words /\ Words - m <= len
  <2>1. head = Words - m /\ offset + head = (q + 1) * Words
    BY <1>1, <1>2, <1>3, <1>4, <1>6
  <2>2. head \in 0 .. len /\ head <= Words - m /\ q + 1 \in Nat
    BY <1>1, <1>6, <2>1
  <2> QED
    BY <2>1, <2>2 DEF head, m
<1>7. CASE n # Words /\ ~(Words - m <= len)
  <2>1. head = len /\ head \in 0 .. len /\ head <= Words - m
    BY <1>1, <1>2, <1>3, <1>7
  <2> QED
    BY <2>1 DEF head, m
<1> QED
  BY <1>5, <1>6, <1>7

\* Frag_Read reads the words that are asked for, and they lie within the disc.
LEMMA FragPlanRight ==
  ASSUME NEW l \in FragLists, NEW offset \in Nat, NEW len \in Nat \ {0}
  PROVE  LET plan == FragPlan(l, offset, len) IN
         /\ PlanFor(l, offset, plan, 0, len)
         /\ plan.ok => offset + len <= l.size * Words
<1> DEFINE head  == PartialLen(offset, len)
           m     == (len - head) \div Words
           body  == m * Words
           tail  == len - head - body
           s     == (offset + head) \div Words
           one   == ReadPartial(l, offset, head, 0)
           whole == ReadSect(l, s, body \div Words, head)
           last  == ReadPartial(l, offset + head + body, tail, head + body)
           plan  == FragPlan(l, offset, len)
<1>1. Words \in Nat \ {0} /\ l.size \in Nat
  BY DiscAssumption, ListType
<1>2. /\ head \in 0 .. len /\ head <= Words - (offset % Words)
      /\ head = len \/ \E t \in Nat : offset + head = t * Words
  BY PartialLenRight
<1>3. plan = Then(one, Then(whole, last))
  BY DEF FragPlan
<1> HIDE DEF head, plan
<1>4. /\ m \in Nat /\ tail \in 0 .. Words - 1 /\ body \in Nat
      /\ head \in Nat /\ head + body \in Nat /\ (head + body) + tail = len
  <2>1. len - head \in Nat
    BY <1>2
  <2>2. m \in Nat /\ (len - head) % Words \in 0 .. Words - 1
        /\ len - head = m * Words + ((len - head) % Words)
    BY <1>1, <2>1, DivMod
  <2> HIDE DEF m
  <2>3. body \in Nat
    BY <1>1, <2>2, TimesKeepsOrder
  <2> HIDE DEF body
  <2>4. len - head = body + ((len - head) % Words)
    BY <2>2 DEF body
  <2>5. tail = (len - head) % Words
    BY <1>2, <2>2, <2>3, <2>4
  <2> QED
    BY <1>2, <2>2, <2>3, <2>5
<1>5. body \div Words = m
  <2>1. m * Words = m * Words + 0 /\ m * Words \in Nat
    BY <1>1, <1>4, TimesKeepsOrder
  <2> HIDE DEF m
  <2> QED
    BY <1>1, <1>4, <2>1, DivModUnique
<1> HIDE DEF m, tail
<1>6. PlanFor(l, offset, one, 0, head) /\ (one.ok /\ head # 0 => offset + head <= l.size * Words)
  <2>1. 0 + head = head /\ offset - 0 = offset
    BY <1>4
  <2> QED
    BY <1>2, <1>4, <2>1, ReadPartialRight
<1>7. CASE head = len
  <2>1. body = 0 /\ tail = 0 /\ m = 0
    <3>1. body = 0 /\ tail = 0
      BY <1>2, <1>4, <1>7
    <3>2. m = 0
      <4>1. 0 * Words + 0 = 0
        BY <1>1
      <4> QED
        BY <1>1, <1>5, <3>1, <4>1, DivModUnique
    <3> QED
      BY <3>1, <3>2
  <2>2. whole = Plan(<<>>, TRUE)
    <3>1. s \in Nat
      BY <1>1, <1>4, DivMod
    <3> HIDE DEF s
    <3> QED
      BY <1>5, <2>1, <3>1, ReadSectNone
  <2>3. last = Plan(<<>>, TRUE)
    BY <2>1 DEF ReadPartial, Plan, PlanSet
  <2> HIDE DEF whole, last
  <2>4. Then(whole, last) = [parts |-> <<>>, ok |-> TRUE]
    <3>1. Then(Plan(<<>>, TRUE), Plan(<<>>, TRUE)) = [parts |-> <<>> \o <<>>, ok |-> TRUE]
      BY DEF Then, Plan
    <3>2. <<>> \o <<>> = <<>>
      OBVIOUS
    <3> QED
      BY <2>2, <2>3, <3>1, <3>2
  <2> DEFINE both == Then(whole, last)
  <2>5. PlanFor(l, offset, both, head, len)
    <3>1. Chained(<<>>, head, len) /\ Right(l, offset, <<>>)
      BY <1>7, ChainedNone DEF Right
    <3>2. both.parts = <<>> /\ both.ok = TRUE /\ both \in PlanSet
      BY <2>4 DEF PlanSet
    <3> HIDE DEF both
    <3> QED
      BY <3>1, <3>2 DEF PlanFor
  <2>6. PlanFor(l, offset, plan, 0, len) /\ (plan.ok => one.ok)
    <3> HIDE DEF one, whole, last
    <3> QED
      BY <1>3, <1>4, <1>6, <2>5, ThenRight
  <2> QED
    BY <1>6, <1>7, <2>6 DEF plan
<1>8. CASE head # len
  <2>1. PICK t \in Nat : offset + head = t * Words
    BY <1>2, <1>8
  <2>2. s = t
    <3>1. t * Words + 0 = t * Words
      BY <1>1, <2>1
    <3> QED
      BY <1>1, <1>4, <2>1, <3>1, DivModUnique
  <2> HIDE DEF s
  <2>3. PlanFor(l, offset, whole, head, head + body)
        /\ (whole.ok /\ m # 0 => t + m <= l.size)
    <3>1. PlanRight(l, s, m, head, 0, whole)
      BY <1>4, <1>5, <2>2, ReadSectRight
    <3>2. s * Words - head = offset /\ head + 0 * Words = head
      BY <1>1, <1>4, <2>1, <2>2
    <3> HIDE DEF whole
    <3> QED
      BY <2>2, <3>1, <3>2 DEF PlanRight, PlanFor
  <2>4. /\ (offset + head + body) % Words = 0
        /\ offset + head + body = (t + m) * Words
    <3>1. (t + m) * Words = t * Words + m * Words
      BY <1>1, <1>4, <2>1, Distributes
    <3>2. offset + head + body = (t + m) * Words + 0 /\ (t + m) * Words \in Nat
      BY <1>1, <1>4, <2>1, <3>1, TimesKeepsOrder
    <3>3. t + m \in Nat
      BY <1>4
    <3> HIDE DEF body
    <3>4. offset + head + body \in Nat
      BY <1>4
    <3>5. (offset + head + body) % Words = 0
      BY <1>1, <3>2, <3>3, <3>4, DivModUnique
    <3> QED
      BY <3>2, <3>4, <3>5
  <2> HIDE DEF body
  <2>5. PlanFor(l, offset, last, head + body, len)
        /\ (last.ok /\ tail # 0 => offset + len <= l.size * Words)
    <3>1. offset + head + body \in Nat /\ tail \in Nat /\ tail <= Words - 0
          /\ (offset + head + body) - (head + body) = offset
          /\ offset + head + body + tail = offset + len
      BY <1>1, <1>4
    <3> QED
      BY <1>4, <2>4, <3>1, ReadPartialRight
  <2> HIDE DEF one, whole, last
  <2>6. PlanFor(l, offset, Then(whole, last), head, len)
        /\ (Then(whole, last).ok => whole.ok /\ last.ok)
    BY <1>4, <2>3, <2>5, ThenRight
  <2>7. PlanFor(l, offset, plan, 0, len) /\ (plan.ok => one.ok /\ whole.ok /\ last.ok)
    BY <1>3, <1>4, <1>6, <2>6, ThenRight
  <2>8. ASSUME plan.ok
        PROVE  offset + len <= l.size * Words
    <3>1. CASE tail # 0
      BY <2>5, <2>7, <2>8, <3>1
    <3>2. CASE tail = 0
      <4>1. offset + len = (t + m) * Words
        BY <1>4, <2>4, <3>2
      <4>2. m # 0
        <5>1. 0 * Words = 0
          BY <1>1
        <5> QED
          BY <1>4, <1>8, <3>2, <5>1 DEF body
      <4>3. t + m <= l.size /\ t + m \in Nat
        BY <1>4, <2>3, <2>7, <2>8, <4>2
      <4> QED
        BY <1>1, <4>1, <4>3, TimesKeepsOrder
    <3> QED
      BY <3>1, <3>2
  <2> QED
    BY <2>7, <2>8 DEF plan
<1> QED
  BY <1>7, <1>8

-----------------------------------------------------------------------------
(* The buffer *)

\* The words w of a read have come, up to the place e of the buffer.
Come(w, len, e) == [i \in 1 .. len |-> IF i <= e THEN w[i] ELSE "old"]

\* Every part of p takes the words that w has at its places.
Takes(p, per, w) ==
  \A i \in DOMAIN p : \A k \in 0 .. p[i].n - 1 : Source(p[i], per, k) = w[p[i].at + k + 1]

\* A part that takes the right words brings them.
LEMMA FilledRight ==
  ASSUME NEW len \in Nat, NEW w, NEW per, NEW part \in PartSet, part.at + part.n <= len,
         \A k \in 0 .. part.n - 1 : Source(part, per, k) = w[part.at + k + 1]
  PROVE  Filled(Come(w, len, part.at), part, per) = Come(w, len, part.at + part.n)
<1> DEFINE a == part.at
           n == part.n
           d == Come(w, len, a)
<1>1. a \in Nat /\ n \in Nat /\ a + n <= len
  BY DEF PartSet
<1>2. DOMAIN d = 1 .. len /\ \A i \in 1 .. len : d[i] = IF i <= a THEN w[i] ELSE "old"
  BY DEF Come
<1> HIDE DEF d
<1>3. DOMAIN d \cup (a + 1 .. a + n) = 1 .. len
  BY <1>1, <1>2
<1>4. ASSUME NEW i \in 1 .. len
      PROVE  (IF i - 1 \in a .. a + n - 1 THEN Source(part, per, i - 1 - a) ELSE d[i])
               = IF i <= a + n THEN w[i] ELSE "old"
  <2>1. CASE i - 1 \in a .. a + n - 1
    <3>1. i - 1 - a \in 0 .. n - 1 /\ a + (i - 1 - a) + 1 = i /\ i <= a + n
      BY <1>1, <2>1
    <3> QED
      BY <2>1, <3>1
  <2>2. CASE ~(i - 1 \in a .. a + n - 1)
    <3>1. i <= a \/ ~(i <= a + n)
      BY <1>1, <2>2
    <3>2. i <= a => i <= a + n
      BY <1>1
    <3> QED
      BY <1>2, <2>2, <3>1, <3>2
  <2> QED
    BY <2>1, <2>2
<1>5. Filled(d, part, per)
        = [i \in 1 .. len |-> IF i - 1 \in a .. a + n - 1 THEN Source(part, per, i - 1 - a) ELSE d[i]]
  BY <1>3 DEF Filled
<1>6. Filled(d, part, per) = [i \in 1 .. len |-> IF i <= a + n THEN w[i] ELSE "old"]
  BY <1>4, <1>5
<1> QED
  BY <1>6 DEF d, Come

\* What is taken by two plans is taken by both, and by what is left of one.
LEMMA TakesConcat ==
  ASSUME NEW per, NEW w, NEW p \in Seq(PartSet), NEW q \in Seq(PartSet),
         Takes(p, per, w), Takes(q, per, w)
  PROVE  Takes(p \o q, per, w)
<1> SUFFICES ASSUME NEW i \in DOMAIN (p \o q)
             PROVE  \A k \in 0 .. (p \o q)[i].n - 1 :
                      Source((p \o q)[i], per, k) = w[(p \o q)[i].at + k + 1]
  BY DEF Takes
<1>1. \/ i \in DOMAIN p /\ (p \o q)[i] = p[i]
      \/ i - Len(p) \in DOMAIN q /\ (p \o q)[i] = q[i - Len(p)]
  OBVIOUS
<1> QED
  BY <1>1 DEF Takes

\* What the first part takes, and what the others take.
LEMMA TakesTail ==
  ASSUME NEW per, NEW w, NEW p \in Seq(PartSet), p # <<>>, Takes(p, per, w)
  PROVE  /\ Takes(Tail(p), per, w)
         /\ \A k \in 0 .. Head(p).n - 1 : Source(Head(p), per, k) = w[Head(p).at + k + 1]
<1>1. Head(p) = p[1] /\ 1 \in DOMAIN p
  OBVIOUS
<1>2. ASSUME NEW i \in DOMAIN Tail(p)
      PROVE  \A k \in 0 .. Tail(p)[i].n - 1 :
               Source(Tail(p)[i], per, k) = w[Tail(p)[i].at + k + 1]
  <2>1. i + 1 \in DOMAIN p /\ Tail(p)[i] = p[i + 1]
    OBVIOUS
  <2> QED
    BY <2>1 DEF Takes
<1> QED
  BY <1>1, <1>2 DEF Takes

\* The plan of a read of fragments takes the words of the image.
LEMMA RightTakes ==
  ASSUME NEW l, NEW offset \in Nat, NEW len \in Nat, NEW p, NEW w,
         Chained(p, 0, len), Right(l, offset, p),
         \A i \in 1 .. len : w[i] = ImageWord(l, offset + i - 1)
  PROVE  Takes(p, Words, w)
<1> SUFFICES ASSUME NEW i \in DOMAIN p, NEW k \in 0 .. p[i].n - 1
             PROVE  Source(p[i], Words, k) = w[p[i].at + k + 1]
  BY DEF Takes
<1>1. i \in 1 .. Len(p) /\ p[i] \in PartSet
  BY DEF Chained
<1>2. p[i].at \in Nat /\ p[i].n \in Nat /\ p[i].at + p[i].n <= len
  BY <1>1, ChainedGrows DEF PartSet
<1>3. p[i].at + k + 1 \in 1 .. len /\ offset + (p[i].at + k + 1) - 1 = offset + (p[i].at + k)
  BY <1>2
<1> QED
  BY <1>3 DEF Right

\* The buffer after each transfer: the recursion is well defined.
LEMMA BuffersTurns ==
  ASSUME NEW parts, NEW N \in Nat, Len(parts) = N, NEW per, NEW len, NEW bad
  PROVE  LET b == Buffers(parts, per, len, bad) IN
         /\ b[0] = Empty(len)
         /\ \A n \in 1 .. N : b[n] = IF n \in bad THEN b[n - 1] ELSE Filled(b[n - 1], parts[n], per)
<1> DEFINE Step(f, n) == IF n = 0 THEN Empty(len)
                         ELSE IF n \in bad THEN f[n - 1] ELSE Filled(f[n - 1], parts[n], per)
           Is(f, m) == f = [n \in 0 .. m |-> Step(f, n)]
           S == {m \in Nat : \E f : Is(f, m)}
<1>1. 0 \in S
  <2> DEFINE f == [n \in 0 .. 0 |-> Empty(len)]
  <2>1. \A n \in 0 .. 0 : Step(f, n) = Empty(len)
    OBVIOUS
  <2>2. f = [n \in 0 .. 0 |-> Step(f, n)]
    BY <2>1
  <2> QED
    BY <2>2
<1>2. ASSUME NEW m \in S
      PROVE  m + 1 \in S
  <2>1. PICK f : Is(f, m)
    OBVIOUS
  <2>2. \A n \in 0 .. m : f[n] = Step(f, n)
    BY <2>1
  <2> DEFINE h == [n \in 0 .. m + 1 |-> IF n = m + 1 THEN Step(f, m + 1) ELSE f[n]]
  <2>3. \A n \in 0 .. m : h[n] = f[n]
    OBVIOUS
  <2>4. h[m + 1] = Step(f, m + 1)
    OBVIOUS
  <2> HIDE DEF h
  <2>5. ASSUME NEW n \in 0 .. m + 1
        PROVE  h[n] = Step(h, n)
    <3>1. CASE n = 0
      BY <2>2, <2>3, <3>1
    <3>2. CASE n # 0
      <4>1. n - 1 \in 0 .. m /\ (n \in 0 .. m \/ n = m + 1)
        BY <3>2
      <4>2. h[n - 1] = f[n - 1] /\ h[n] = Step(f, n)
        BY <2>2, <2>3, <2>4, <4>1
      <4> QED
        BY <3>2, <4>2
    <3> QED
      BY <3>1, <3>2
  <2>6. Is(h, m + 1)
    BY <2>5 DEF h
  <2> QED
    BY <2>6
<1>3. S = Nat
  <2> HIDE DEF S
  <2>1. S \in SUBSET Nat
    BY DEF S
  <2> QED
    BY <1>1, <1>2, <2>1, SetInduction
<1>4. \E f : Is(f, N)
  BY <1>3
<1> DEFINE b == CHOOSE f : Is(f, N)
<1>5. b = [n \in 0 .. N |-> Step(b, n)]
  BY <1>4
<1>6. b = Buffers(parts, per, len, bad)
  BY DEF Buffers
<1> HIDE DEF b
<1>7. \A n \in 0 .. N : b[n] = Step(b, n)
  BY <1>5
<1>8. b[0] = Empty(len)
  BY <1>7
<1>9. \A n \in 1 .. N : b[n] = IF n \in bad THEN b[n - 1] ELSE Filled(b[n - 1], parts[n], per)
  BY <1>7
<1> QED
  BY <1>6, <1>8, <1>9

\* When no transfer fails, the buffer has what the plan takes.
LEMMA BuffersRight ==
  ASSUME NEW parts, NEW per, NEW len \in Nat, NEW w,
         Chained(parts, 0, len), Takes(parts, per, w)
  PROVE  Buffers(parts, per, len, {})[Len(parts)] = [i \in 1 .. len |-> w[i]]
<1> DEFINE N == Len(parts)
           b == Buffers(parts, per, len, {})
           e(n) == IF n = 0 THEN 0 ELSE parts[n].at + parts[n].n
           S == {n \in Nat : n <= N => b[n] = Come(w, len, e(n))}
<1>1. /\ parts \in Seq(PartSet) /\ N \in Nat /\ (parts = <<>>) = (N = 0)
      /\ \A n \in 1 .. N : n \in DOMAIN parts /\ parts[n] \in PartSet
  BY DEF Chained
<1>2. /\ b[0] = Empty(len)
      /\ \A n \in 1 .. N : b[n] = Filled(b[n - 1], parts[n], per)
  <2>1. b[0] = Empty(len)
        /\ \A n \in 1 .. N : b[n] = IF n \in {} THEN b[n - 1] ELSE Filled(b[n - 1], parts[n], per)
    BY <1>1, BuffersTurns
  <2> QED
    BY <2>1
<1> HIDE DEF b
<1>3. 0 \in S
  <2>1. Empty(len) = Come(w, len, 0)
    BY DEF Empty, Come
  <2> QED
    BY <1>2, <2>1
<1>4. ASSUME NEW n \in S
      PROVE  n + 1 \in S
  <2> SUFFICES ASSUME n + 1 <= N
               PROVE  b[n + 1] = Come(w, len, e(n + 1))
    OBVIOUS
  <2> DEFINE part == parts[n + 1]
  <2>1. n + 1 \in 1 .. N /\ (n + 1) - 1 = n /\ n <= N /\ n + 1 # 0
    BY <1>1
  <2>2. part \in PartSet /\ n + 1 \in DOMAIN parts
    BY <1>1, <2>1
  <2>3. part.at + part.n <= len
    BY <2>1, ChainedGrows
  <2>4. e(n) = part.at
    <3>1. CASE n = 0
      <4>1. parts # <<>>
        BY <1>1, <2>1
      <4> QED
        BY <3>1, <4>1 DEF Chained
    <3>2. CASE n # 0
      <4>1. n \in 1 .. N - 1
        BY <1>1, <2>1, <3>2
      <4> QED
        BY <3>2, <4>1 DEF Chained
    <3> QED
      BY <3>1, <3>2
  <2>5. b[n] = Come(w, len, part.at)
    BY <2>1, <2>4
  <2>6. b[n + 1] = Filled(b[n], part, per)
    BY <1>2, <2>1
  <2>7. \A k \in 0 .. part.n - 1 : Source(part, per, k) = w[part.at + k + 1]
    BY <2>2 DEF Takes
  <2> HIDE DEF part
  <2>8. b[n + 1] = Come(w, len, part.at + part.n)
    <3>1. Filled(Come(w, len, part.at), part, per) = Come(w, len, part.at + part.n)
      BY <2>2, <2>3, <2>7, FilledRight
    <3> QED
      BY <2>5, <2>6, <3>1
  <2> QED
    BY <2>1, <2>8 DEF part
<1>5. S = Nat
  <2> HIDE DEF S
  <2>1. S \in SUBSET Nat
    BY DEF S
  <2> QED
    BY <1>3, <1>4, <2>1, SetInduction
<1>6. b[N] = Come(w, len, e(N))
  BY <1>1, <1>5
<1>7. e(N) = len
  BY <1>1 DEF Chained
<1>8. Come(w, len, len) = [i \in 1 .. len |-> w[i]]
  BY DEF Come
<1> QED
  BY <1>6, <1>7, <1>8 DEF b

-----------------------------------------------------------------------------
(* DI_ReadDvd *)

\* The position in the sector at which a turn begins, and the words that it reads.
DvdLba(offset, n) == (offset \div DvdWords) + n
DvdPos(offset, n) ==
  IF offset > DvdLba(offset, n) * DvdWords THEN offset - DvdLba(offset, n) * DvdWords ELSE 0
DvdSize(offset, len, buffer, k, n) ==
  LET dma == DmaLen(buffer + k, len - k) IN
  IF dma = 0 \/ DvdPos(offset, n) # 0 THEN Min({len - k, DvdWords - DvdPos(offset, n)})
  ELSE Min({dma, MaxDma})
DvdTurn(offset, len, buffer, rest, k, n) ==
  LET pos  == DvdPos(offset, n)
      size == DvdSize(offset, len, buffer, k, n) IN
  IF k = len THEN <<>>
  ELSE <<Part(k, size, DvdLba(offset, n), pos)>> \o rest[k + size][n + (size + pos) \div DvdWords]

\* DMA_CheckRange gives whole sectors.
LEMMA DmaLenRight ==
  ASSUME NEW buffer \in Nat, NEW size \in Nat
  PROVE  \E m \in Nat : DmaLen(buffer, size) = m * DvdWords /\ m * DvdWords <= size
<1> DEFINE n == IF buffer % Align # 0 \/ DmaEnd - buffer < DvdWords THEN 0
                ELSE Min({DmaEnd - buffer, size})
<1>1. DvdWords \in Nat \ {0} /\ DmaEnd \in Nat
  BY DiscAssumption
<1>2. n \in Nat /\ n <= size
  <2>1. CASE buffer % Align # 0 \/ DmaEnd - buffer < DvdWords
    BY <2>1
  <2>2. CASE ~(buffer % Align # 0 \/ DmaEnd - buffer < DvdWords)
    <3>1. DmaEnd - buffer \in Nat
      BY <1>1, <2>2
    <3>2. Min({DmaEnd - buffer, size}) = IF DmaEnd - buffer <= size THEN DmaEnd - buffer ELSE size
      BY <3>1, MinOfTwo
    <3> QED
      BY <2>2, <3>1, <3>2
  <2> QED
    BY <2>1, <2>2
<1>3. DmaLen(buffer, size) = n - (n % DvdWords)
  BY DEF DmaLen
<1> HIDE DEF n
<1> DEFINE m == n \div DvdWords
<1>4. m \in Nat /\ n % DvdWords \in 0 .. DvdWords - 1 /\ n = m * DvdWords + (n % DvdWords)
  BY <1>1, <1>2, DivMod
<1> HIDE DEF m
<1>5. m * DvdWords \in Nat
  BY <1>1, <1>4, TimesKeepsOrder
<1>6. DmaLen(buffer, size) = m * DvdWords /\ m * DvdWords <= size
  BY <1>2, <1>3, <1>4, <1>5
<1> QED
  BY <1>4, <1>6

\* A turn reads at least a word and at most what is left, and ends at a sector's
\* end or at the end of the read.
LEMMA DvdSizeRight ==
  ASSUME NEW offset \in Nat, NEW len \in Nat, NEW buffer \in Nat,
         NEW k \in 0 .. len, k # len, NEW n \in Nat
  PROVE  LET size == DvdSize(offset, len, buffer, k, n)
             pos  == DvdPos(offset, n) IN
         /\ pos \in 0 .. DvdWords - 1 /\ size \in 1 .. len - k
         /\ (size + pos) \div DvdWords \in Nat
         /\ \/ k + size = len
            \/ size + pos = ((size + pos) \div DvdWords) * DvdWords
<1> DEFINE D    == DvdWords
           q    == offset \div D
           lba  == DvdLba(offset, n)
           pos  == DvdPos(offset, n)
           size == DvdSize(offset, len, buffer, k, n)
           dma  == DmaLen(buffer + k, len - k)
           t    == (size + pos) \div D
<1>1. /\ D \in Nat \ {0} /\ MaxDma \in Nat \ {0} /\ MaxDma % D = 0
      /\ q \in Nat /\ offset % D \in 0 .. D - 1 /\ offset = q * D + (offset % D)
  BY DiscAssumption, DivMod
<1>2. lba \in Nat /\ lba >= q /\ lba = q + n
  BY <1>1 DEF DvdLba
<1>3. pos = IF offset > lba * D THEN offset - lba * D ELSE 0
  BY DEF DvdPos
<1>4. size = IF dma = 0 \/ pos # 0 THEN Min({len - k, D - pos}) ELSE Min({dma, MaxDma})
  BY DEF DvdSize
<1> HIDE DEF D, q, lba, pos, size
<1>5. pos \in 0 .. D - 1
  <2>1. q * D <= lba * D /\ q * D \in Nat /\ lba * D \in Nat
    BY <1>1, <1>2, TimesKeepsOrder
  <2> QED
    BY <1>1, <1>3, <2>1
<1>6. PICK m \in Nat : dma = m * D /\ m * D <= len - k
  <2>1. buffer + k \in Nat /\ len - k \in Nat
    OBVIOUS
  <2> QED
    BY <2>1, DmaLenRight DEF D
<1> HIDE DEF dma
<1>7. CASE dma = 0 \/ pos # 0
  <2>1. size = IF len - k <= D - pos THEN len - k ELSE D - pos
    <3>1. len - k \in Nat /\ D - pos \in Nat
      BY <1>1, <1>5
    <3> QED
      BY <1>4, <1>7, <3>1, MinOfTwo
  <2>2. size \in 1 .. len - k
    BY <1>1, <1>5, <2>1
  <2>3. CASE len - k <= D - pos
    <3>1. k + size = len
      BY <2>1, <2>3
    <3>2. size + pos \in Nat
      BY <1>1, <1>5, <2>2
    <3>3. t \in Nat
      BY <1>1, <3>2, DivMod
    <3> QED
      BY <1>5, <2>2, <3>1, <3>3 DEF D, pos, size
  <2>4. CASE ~(len - k <= D - pos)
    <3>1. size + pos = D /\ 1 * D = D /\ size + pos = 1 * D + 0
      BY <1>1, <1>5, <2>1, <2>4
    <3>2. t = 1
      BY <1>1, <3>1, DivModUnique
    <3>3. t \in Nat /\ size + pos = t * D
      BY <3>1, <3>2
    <3> HIDE DEF t
    <3> QED
      BY <1>5, <2>2, <3>3 DEF D, pos, size, t
  <2> QED
    BY <2>3, <2>4
<1>8. CASE dma # 0 /\ pos = 0
  <2> DEFINE c == MaxDma \div D
  <2>1. c \in Nat /\ MaxDma = c * D
    <3>1. c \in Nat /\ MaxDma = c * D + (MaxDma % D)
      BY <1>1, DivMod
    <3>2. c * D \in Nat
      BY <1>1, <3>1, TimesKeepsOrder
    <3> HIDE DEF c
    <3> QED
      BY <1>1, <3>1, <3>2
  <2> HIDE DEF c
  <2>2. dma \in Nat
    BY <1>1, <1>6, TimesKeepsOrder
  <2>3. size = IF dma <= MaxDma THEN dma ELSE MaxDma
    BY <1>1, <1>4, <1>8, <2>2, MinOfTwo
  <2>4. size \in 1 .. len - k
    BY <1>1, <1>6, <1>8, <2>2, <2>3
  <2>5. \E x \in Nat : size = x * D
    BY <1>6, <2>1, <2>3
  <2>6. PICK x \in Nat : size = x * D
    BY <2>5
  <2>7. size + pos = x * D + 0 /\ size + pos \in Nat
    BY <1>1, <1>8, <2>4, <2>6
  <2>8. t = x
    BY <1>1, <2>7, DivModUnique
  <2>9. size + pos = t * D
    BY <1>8, <2>4, <2>6, <2>8
  <2> HIDE DEF t
  <2> QED
    BY <1>5, <2>4, <2>8, <2>9 DEF D, pos, size, t
<1> QED
  BY <1>5, <1>6, <1>7, <1>8

\* A turn looks only at the parts of later turns, and the recursion is well defined.
LEMMA DvdTurnLooksAhead ==
  ASSUME NEW offset \in Nat, NEW len \in Nat, NEW buffer \in Nat, NEW k \in 0 .. len, NEW n \in Nat,
         NEW f, NEW h, \A j \in k + 1 .. len : f[j] = h[j]
  PROVE  DvdTurn(offset, len, buffer, f, k, n) = DvdTurn(offset, len, buffer, h, k, n)
<1> DEFINE pos  == DvdPos(offset, n)
           size == DvdSize(offset, len, buffer, k, n)
           t    == (size + pos) \div DvdWords
<1>1. CASE k = len
  BY <1>1 DEF DvdTurn
<1>2. CASE k # len
  <2>1. size \in 1 .. len - k /\ t \in Nat
    BY <1>2, DvdSizeRight
  <2> HIDE DEF size, t
  <2>2. k + size \in k + 1 .. len /\ n + t \in Nat
    BY <2>1
  <2>3. f[k + size][n + t] = h[k + size][n + t]
    BY <2>2
  <2> QED
    BY <1>2, <2>3 DEF DvdTurn, size, t
<1> QED
  BY <1>1, <1>2

\* The plan of a read of the drive is that of its turns.
LEMMA DvdTurns ==
  ASSUME NEW offset \in Nat, NEW len \in Nat, NEW buffer \in Nat
  PROVE  \E f : /\ \A k \in 0 .. len : \A n \in Nat :
                     f[k][n] = DvdTurn(offset, len, buffer, f, k, n)
                /\ DvdPlan(offset, len, buffer) = Plan(f[0][0], TRUE)
<1> DEFINE Step(f, k, n) == DvdTurn(offset, len, buffer, f, k, n)
           Is(f, m) == f = [k \in m .. len |-> [n \in Nat |-> Step(f, k, n)]]
           S == {m \in Nat : m <= len => \E f : Is(f, len - m)}
<1>1. 0 \in S
  <2> DEFINE f == [k \in len .. len |-> [n \in Nat |-> <<>>]]
  <2>1. \A k \in len .. len : \A n \in Nat : Step(f, k, n) = <<>>
    BY DEF DvdTurn
  <2> HIDE DEF Step
  <2>2. f = [k \in len .. len |-> [n \in Nat |-> Step(f, k, n)]]
    BY <2>1
  <2>3. len - 0 = len
    OBVIOUS
  <2> HIDE DEF f
  <2> QED
    BY <2>2, <2>3
<1>2. ASSUME NEW m \in S
      PROVE  m + 1 \in S
  <2> SUFFICES ASSUME m + 1 <= len
               PROVE  \E h : Is(h, len - (m + 1))
    BY SMTT(30)
  <2>1. PICK f : Is(f, len - m)
    OBVIOUS
  <2> DEFINE j == len - (m + 1)
             h == [k \in j .. len |-> [n \in Nat |-> IF k = j THEN Step(f, k, n) ELSE f[k][n]]]
  <2>2. j \in Nat /\ len - m = j + 1 /\ j \in 0 .. len
    OBVIOUS
  <2> HIDE DEF j
  <2> HIDE DEF Step
  <2>3. f = [k \in j + 1 .. len |-> [n \in Nat |-> Step(f, k, n)]]
    BY <2>1, <2>2
  <2>4. \A k \in j + 1 .. len : \A n \in Nat : f[k][n] = Step(f, k, n)
    <3>1. \A k \in j + 1 .. len : f[k] = [n \in Nat |-> Step(f, k, n)]
      BY <2>3
    <3> QED
      BY <3>1
  <2>5. \A k \in j + 1 .. len : k \in j .. len /\ k # j /\ k \in 0 .. len
    BY <2>2
  <2>6. ASSUME NEW k \in j + 1 .. len
        PROVE  h[k] = f[k]
    <3>1. f[k] = [n \in Nat |-> Step(f, k, n)]
      BY <2>3
    <3>2. h[k] = [n \in Nat |-> f[k][n]]
      BY <2>5
    <3> QED
      BY <3>1, <3>2
  <2>7. \A n \in Nat : h[j][n] = Step(f, j, n)
    BY <2>2
  <2> HIDE DEF h
  <2>8. ASSUME NEW k \in j .. len, NEW n \in Nat
        PROVE  h[k][n] = Step(h, k, n)
    <3>1. k \in 0 .. len /\ (k = j \/ k \in j + 1 .. len)
          /\ \A i \in k + 1 .. len : i \in j + 1 .. len
      BY <2>2
    <3>2. \A i \in k + 1 .. len : f[i] = h[i]
      BY <2>6, <3>1
    <3>3. Step(f, k, n) = Step(h, k, n)
      <4>1. k \in 0 .. len
        BY <3>1
      <4>2. DvdTurn(offset, len, buffer, f, k, n) = DvdTurn(offset, len, buffer, h, k, n)
        BY SMTT(20), <3>2, <4>1, DvdTurnLooksAhead
      <4> QED
        BY <4>2 DEF Step
    <3>4. h[k][n] = Step(f, k, n)
      BY <2>4, <2>6, <2>7, <3>1
    <3> QED
      BY <3>3, <3>4
  <2>9. h = [k \in j .. len |-> [n \in Nat |-> h[k][n]]]
    BY DEF h
  <2>10. Is(h, j)
    BY <2>8, <2>9
  <2> QED
    BY <2>10 DEF j
<1>3. S = Nat
  <2> HIDE DEF S
  <2>1. S \in SUBSET Nat
    BY DEF S
  <2> QED
    BY <1>1, <1>2, <2>1, SetInduction
<1>4. len \in S /\ len - len = 0
  BY <1>3
<1>5. \E f : Is(f, 0)
  <2> HIDE DEF Is
  <2> QED
    BY <1>4
<1> DEFINE R == CHOOSE f : f = [k \in 0 .. len |-> [n \in Nat |-> Step(f, k, n)]]
<1>6. R = [k \in 0 .. len |-> [n \in Nat |-> Step(R, k, n)]]
  BY <1>5
<1>7. DvdPlan(offset, len, buffer) = Plan(R[0][0], TRUE)
  BY DEF DvdPlan, DvdTurn, DvdPos, DvdSize, DvdLba
<1> HIDE DEF R, Step
<1>8. \A k \in 0 .. len : \A n \in Nat : R[k][n] = Step(R, k, n)
  <2>1. \A k \in 0 .. len : R[k] = [n \in Nat |-> Step(R, k, n)]
    BY <1>6
  <2> QED
    BY <2>1
<1> QED
  BY <1>7, <1>8 DEF Step

\* The word at which a turn begins is the next one of the read.
DvdHere(offset, len, k, n) ==
  k = len \/ DvdLba(offset, n) * DvdWords + DvdPos(offset, n) = offset + k

\* The parts from a turn on.
DvdGood(len, w, k, parts) == Chained(parts, k, len) /\ Takes(parts, DvdWords, w)

\* A turn at the next word makes good parts from good parts behind it.
LEMMA DvdTurnRight ==
  ASSUME NEW offset \in Nat, NEW len \in Nat, NEW buffer \in Nat, NEW w,
         \A i \in 1 .. len : w[i] = <<(offset + i - 1) \div DvdWords, (offset + i - 1) % DvdWords>>,
         NEW k \in 0 .. len, NEW n \in Nat, DvdHere(offset, len, k, n), NEW f,
         \A j \in k + 1 .. len : \A m \in Nat :
           DvdHere(offset, len, j, m) => DvdGood(len, w, j, f[j][m])
  PROVE  DvdGood(len, w, k, DvdTurn(offset, len, buffer, f, k, n))
<1> DEFINE D    == DvdWords
           lba  == DvdLba(offset, n)
           pos  == DvdPos(offset, n)
           size == DvdSize(offset, len, buffer, k, n)
           t    == (size + pos) \div DvdWords
           part == Part(k, size, lba, pos)
           more == f[k + size][n + t]
<1>1. D \in Nat \ {0} /\ None \notin Nat
  BY DiscAssumption
<1>2. CASE k = len
  <2>1. DvdTurn(offset, len, buffer, f, k, n) = <<>>
    BY <1>2 DEF DvdTurn
  <2>2. Chained(<<>>, k, len) /\ Takes(<<>>, DvdWords, w)
    BY <1>2, ChainedNone DEF Takes
  <2> QED
    BY <2>1, <2>2 DEF DvdGood
<1>3. CASE k # len
  <2>1. /\ pos \in 0 .. D - 1 /\ size \in 1 .. len - k /\ t \in Nat
        /\ k + size = len \/ size + pos = t * D
    <3>1. pos \in 0 .. DvdWords - 1 /\ size \in 1 .. len - k /\ t \in Nat
      BY <1>3, DvdSizeRight
    <3>2. k + size = len \/ size + pos = t * DvdWords
      BY <1>3, DvdSizeRight
    <3> HIDE DEF pos, size, t
    <3> QED
      BY <3>1, <3>2
  <2>2. lba * D + pos = offset + k
    BY <1>3 DEF DvdHere
  <2>3. lba \in Nat
    <3>1. offset \div DvdWords \in Nat
      BY <1>1, DivMod
    <3> QED
      BY <3>1 DEF DvdLba
  <2>4. DvdTurn(offset, len, buffer, f, k, n) = <<part>> \o more
    BY <1>3 DEF DvdTurn
  <2> HIDE DEF D, lba, pos, size, t
  <2>5. k + size \in k + 1 .. len /\ n + t \in Nat
    BY <2>1
  <2>6. DvdHere(offset, len, k + size, n + t)
    <3>1. CASE k + size = len
      BY <3>1 DEF DvdHere
    <3>2. CASE size + pos = t * D
      <4>1. DvdLba(offset, n + t) = lba + t
        <5>1. offset \div DvdWords \in Nat
          BY <1>1, DivMod DEF D
        <5> QED
          BY <2>1, <5>1 DEF DvdLba, lba
      <4>2. (lba + t) * D = lba * D + t * D /\ lba * D \in Nat /\ t * D \in Nat
        BY <1>1, <2>1, <2>3, Distributes, TimesKeepsOrder
      <4>3. (lba + t) * D = offset + (k + size)
        BY <2>1, <2>2, <3>2, <4>2
      <4>4. DvdPos(offset, n + t) = 0
        <5>1. ~(offset > (lba + t) * D)
          BY <2>1, <4>3
        <5> QED
          BY <4>1, <5>1 DEF DvdPos, D
      <4>5. (lba + t) * D + 0 = offset + (k + size)
        BY <2>1, <4>3
      <4> QED
        BY <4>1, <4>4, <4>5 DEF DvdHere, D
    <3> QED
      BY <2>1, <3>1, <3>2
  <2>7. Chained(more, k + size, len) /\ Takes(more, DvdWords, w)
    BY <2>5, <2>6 DEF DvdGood
  <2>8. part \in PartSet /\ part.at = k /\ part.n = size /\ part.sector = lba /\ part.from = pos
    BY <2>1, <2>3 DEF Part, PartSet
  <2>9. Chained(<<part>>, k, k + size)
    <3> HIDE DEF part
    <3> QED
      BY <2>8, ChainedOne
  <2>10. Takes(<<part>>, DvdWords, w)
    <3> HIDE DEF part
    <3>1. ASSUME NEW i \in 0 .. part.n - 1
          PROVE  Source(part, DvdWords, i) = w[part.at + i + 1]
      <4>1. i \in Nat /\ pos + i \in Nat /\ k + i + 1 \in 1 .. len
        BY <2>1, <2>8
      <4>2. lba * D \in Nat /\ offset + (k + i + 1) - 1 = lba * D + (pos + i)
        BY <1>1, <2>1, <2>2, <2>3, <4>1, TimesKeepsOrder
      <4>3. /\ (lba * D + (pos + i)) \div D = lba + ((pos + i) \div D)
            /\ (lba * D + (pos + i)) % D = (pos + i) % D
        BY ZenonT(40), <1>1, <2>3, <4>1, WordBehind
      <4>4. w[k + i + 1] = <<lba + ((pos + i) \div D), (pos + i) % D>>
        BY <4>1, <4>2, <4>3 DEF D
      <4>5. Source(part, DvdWords, i) = <<lba + ((pos + i) \div D), (pos + i) % D>>
        BY <1>1, <2>3, <2>8 DEF Source, D
      <4> QED
        BY <2>8, <4>4, <4>5
    <3>2. DOMAIN <<part>> = {1} /\ <<part>>[1] = part
      OBVIOUS
    <3> QED
      BY <3>1, <3>2 DEF Takes
  <2> HIDE DEF part, more
  <2>11. <<part>> \in Seq(PartSet) /\ more \in Seq(PartSet)
    BY <2>7, <2>8 DEF Chained
  <2>12. Takes(<<part>> \o more, DvdWords, w)
    BY <2>7, <2>10, <2>11, TakesConcat
  <2>13. Chained(<<part>> \o more, k, len)
    <3>1. k \in Nat /\ k + size \in Nat
      BY <2>1
    <3> QED
      BY <2>7, <2>9, <3>1, ChainedConcat
  <2> QED
    BY <2>4, <2>12, <2>13 DEF DvdGood
<1> QED
  BY <1>2, <1>3

\* DI_ReadDvd reads the words that are asked for, in order.
LEMMA DvdPlanRight ==
  ASSUME NEW offset \in Nat, NEW len \in Nat, NEW buffer \in Nat, NEW w,
         \A i \in 1 .. len : w[i] = <<(offset + i - 1) \div DvdWords, (offset + i - 1) % DvdWords>>
  PROVE  LET parts == DvdPlan(offset, len, buffer).parts IN
         Chained(parts, 0, len) /\ Takes(parts, DvdWords, w)
<1>1. PICK f : /\ \A k \in 0 .. len : \A n \in Nat :
                     f[k][n] = DvdTurn(offset, len, buffer, f, k, n)
               /\ DvdPlan(offset, len, buffer) = Plan(f[0][0], TRUE)
  BY DvdTurns
<1> DEFINE Good(k) == \A n \in Nat : DvdHere(offset, len, k, n) => DvdGood(len, w, k, f[k][n])
           S == {m \in Nat : \A k \in 0 .. len : len - m <= k => Good(k)}
<1>2. ASSUME NEW k \in 0 .. len, \A j \in k + 1 .. len : Good(j)
      PROVE  Good(k)
  <2> SUFFICES ASSUME NEW n \in Nat, DvdHere(offset, len, k, n)
               PROVE  DvdGood(len, w, k, f[k][n])
    OBVIOUS
  <2>1. DvdGood(len, w, k, DvdTurn(offset, len, buffer, f, k, n))
    BY <1>2, DvdTurnRight
  <2> QED
    BY <1>1, <2>1
<1> HIDE DEF Good
<1>3. 0 \in S
  <2> SUFFICES ASSUME NEW k \in 0 .. len, len - 0 <= k
               PROVE  Good(k)
    OBVIOUS
  <2>1. \A j \in k + 1 .. len : Good(j)
    OBVIOUS
  <2> QED
    BY <1>2, <2>1
<1>4. ASSUME NEW m \in S
      PROVE  m + 1 \in S
  <2> SUFFICES ASSUME NEW k \in 0 .. len, len - (m + 1) <= k
               PROVE  Good(k)
    OBVIOUS
  <2>1. \A j \in k + 1 .. len : len - m <= j /\ j \in 0 .. len
    OBVIOUS
  <2>2. \A j \in k + 1 .. len : Good(j)
    BY <2>1
  <2> QED
    BY <1>2, <2>2
<1>5. S = Nat
  <2>1. S \in SUBSET Nat
    OBVIOUS
  <2> HIDE DEF S
  <2> QED
    BY <1>3, <1>4, <2>1, SetInduction
<1>6. Good(0)
  <2>1. len \in S /\ 0 \in 0 .. len /\ len - len <= 0
    BY <1>5
  <2> QED
    BY <2>1
<1>7. DvdHere(offset, len, 0, 0)
  <2> DEFINE q == offset \div DvdWords
  <2>1. /\ DvdWords \in Nat \ {0} /\ q \in Nat /\ offset % DvdWords \in 0 .. DvdWords - 1
        /\ offset = q * DvdWords + (offset % DvdWords)
    BY DiscAssumption, DivMod
  <2>2. q * DvdWords \in Nat
    BY <2>1, TimesKeepsOrder
  <2>3. DvdLba(offset, 0) = q
    BY <2>1 DEF DvdLba
  <2> HIDE DEF q
  <2>4. q * DvdWords + DvdPos(offset, 0) = offset + 0
    BY <2>1, <2>2, <2>3 DEF DvdPos
  <2> QED
    BY <2>3, <2>4 DEF DvdHere
<1>8. DvdGood(len, w, 0, f[0][0])
  BY <1>6, <1>7 DEF Good
<1> QED
  BY <1>1, <1>8 DEF DvdGood, Plan

-----------------------------------------------------------------------------
(* The inductive invariant of the drivers *)

Steps == {"idle", "reset", "status", "host", "identify", "address", "width", "pick", "length",
          "wires", "undo", "done", "select", "transfer", "release"}
Moving == {"select", "transfer", "release"}
\* The card may be selected by a driver only here.
Selected == {"length", "wires", "undo", "done", "transfer", "release"}
\* The driver has read the type of the card whose address it has.
Aware == {"idle", "width", "pick", "length", "wires", "undo", "done"} \cup Moving

OpSet == [at : Steps, by : Caller \cup {None}, sector : Nat, mult : 0 .. 2,
          left : 0 .. Tries, twin : BOOLEAN, got : Got]
DrvSet == [fd : BOOLEAN, rca : Rca \cup {None}, initialized : BOOLEAN, up : BOOLEAN,
           sdhc : BOOLEAN, of : Card \cup {None}, read : BOOLEAN]
CardSet == [st : {"idle", "ident", "stby", "tran"}, rca : Rca \cup {None}, wide : BOOLEAN,
            stuck : BOOLEAN]

\* A card in the slot is selected only while a driver is between its CMD7s, or when
\* one of them failed.
BusOK ==
  /\ slot = None => card.st = "idle"
  /\ card.st \in {"stby", "tran"} => card.rca # None
  /\ card.st = "tran" /\ ~card.stuck => \E d \in Driver : op[d].at \in Selected

\* A driver that starts has the address of the card in the slot, and one that has read
\* the type of the card that it has the address of knows it.
DriverOK(d) ==
  /\ drv[d].rca = None <=> drv[d].of = None
  /\ op[d].at \in Selected => drv[d].fd
  /\ drv[d].up => drv[d].fd /\ drv[d].of # None /\ op[d].at \in Moving \cup {"idle"}
  /\ op[d].at \notin Moving \cup {"idle", "reset"} /\ slot # None => drv[d].of \in {None, slot}
  /\ op[d].at \in Selected \ Moving => drv[d].of # None /\ (slot # None => drv[d].of = slot)
  /\ op[d].at = "status" => ~drv[d].read
  /\ op[d].at = "address" /\ slot # None => (drv[d].sdhc <=> slot \in Sdhc)
  /\ op[d].at \in Aware /\ drv[d].fd /\ drv[d].of # None /\ drv[d].read =>
       (drv[d].sdhc <=> drv[d].of \in Sdhc)

\* The last driver to initialise the card has set the wires on both sides.
WiresOK(d) ==
  /\ op[d].at \in {"identify", "address"} => holder \in {d, None}
  /\ holder = d /\ (op[d].at \in {"pick", "length", "wires", "done"} \/ drv[d].up) => wide
  /\ holder = d /\ (op[d].at = "done" \/ drv[d].up) => card.wide

\* A transfer: the sector is multiplied for a card that counts in bytes only, and the
\* card that was selected is the one in the slot.
MoveOK(d) ==
  /\ op[d].at \in Moving => op[d].left # 0
  /\ op[d].at \in {"select", "transfer"} => op[d].got = None
  /\ op[d].at \in Moving /\ drv[d].sdhc => op[d].mult = 0
  /\ op[d].at = "transfer" /\ slot # None => (op[d].twin <=> slot # drv[d].of)
  /\ op[d].got # None =>
       /\ op[d].at = "release"
       /\ op[d].got.right \/ op[d].got.again \/ op[d].got.twin \/ ~drv[d].read

SdTyped == SdTypeOK /\ op \in [Driver -> OpSet]
Fine(d) == DriverOK(d) /\ WiresOK(d) /\ MoveOK(d)
SdInv == SdTyped /\ BusOK /\ \A d \in Driver : Fine(d)

-----------------------------------------------------------------------------
(* Rows *)

\* What is known of the variables.
LEMMA SdTypes ==
  ASSUME SdTyped
  PROVE  /\ slot \in Card \cup {None} /\ card \in CardSet /\ wide \in BOOLEAN /\ known \in BOOLEAN
         /\ holder \in Driver \cup {None} /\ answer \in [ok : BOOLEAN, got : Got] \cup {None}
         /\ faults \in 0 .. MaxFault /\ swaps \in 0 .. MaxSwap
         /\ op \in [Driver -> OpSet] /\ drv \in [Driver -> DrvSet]
         /\ \A d \in Driver : op[d] \in OpSet /\ drv[d] \in DrvSet
BY DEF SdTyped, SdTypeOK, CardSet, DrvSet

\* The same, the other way round.
LEMMA SdTypedFrom ==
  ASSUME slot' \in Card \cup {None}, card' \in CardSet, wide' \in BOOLEAN, known' \in BOOLEAN,
         holder' \in Driver \cup {None}, answer' \in [ok : BOOLEAN, got : Got] \cup {None},
         faults' \in 0 .. MaxFault, swaps' \in 0 .. MaxSwap,
         op' \in [Driver -> OpSet], drv' \in [Driver -> DrvSet]
  PROVE  SdTyped'
<1>1. ASSUME NEW d \in Driver
      PROVE  /\ op'[d].by \in Caller \cup {None} /\ op'[d].sector \in Nat
             /\ op'[d].mult \in 0 .. 2 /\ op'[d].left \in 0 .. Tries
             /\ op'[d].twin \in BOOLEAN /\ op'[d].got \in Got
  <2>1. op'[d] \in OpSet
    OBVIOUS
  <2> QED
    BY <2>1 DEF OpSet
<1> QED
  BY <1>1 DEF SdTyped, SdTypeOK, CardSet, DrvSet

\* What a driver does to its own row.
LEMMA OpRow ==
  ASSUME op \in [Driver -> OpSet], NEW d \in Driver, NEW r \in OpSet, op' = [op EXCEPT ![d] = r]
  PROVE  /\ op' \in [Driver -> OpSet] /\ op'[d] = r
         /\ \A e \in Driver \ {d} : op'[e] = op[e]
OBVIOUS

\* The same of what a driver knows.
LEMMA DrvRow ==
  ASSUME drv \in [Driver -> DrvSet], NEW d \in Driver, NEW r \in DrvSet, drv' = [drv EXCEPT ![d] = r]
  PROVE  /\ drv' \in [Driver -> DrvSet] /\ drv'[d] = r
         /\ \A e \in Driver \ {d} : drv'[e] = drv[e]
OBVIOUS

\* The step of an operation.
LEMMA GoRow ==
  ASSUME op \in [Driver -> OpSet], NEW d \in Driver, NEW step \in Steps, Go(d, step)
  PROVE  /\ op' \in [Driver -> OpSet] /\ op'[d] = [op[d] EXCEPT !.at = step]
         /\ \A e \in Driver \ {d} : op'[e] = op[e]
<1>1. [op[d] EXCEPT !.at = step] \in OpSet
  BY DEF OpSet
<1>2. op' = [op EXCEPT ![d] = [op[d] EXCEPT !.at = step]]
  BY DEF Go
<1> QED
  BY <1>1, <1>2, OpRow

\* What a driver is about to do.
LEMMA AskingRow ==
  ASSUME NEW step \in Steps, NEW by \in Caller \cup {None}, NEW sector \in Nat, NEW left \in 0 .. Tries
  PROVE  /\ Asking(step, by, sector, left) \in OpSet
         /\ Asking(step, by, sector, left).at = step /\ Asking(step, by, sector, left).by = by
         /\ Asking(step, by, sector, left).left = left /\ Asking(step, by, sector, left).mult = 0
         /\ Asking(step, by, sector, left).got = None
BY DEF Asking, OpSet, Got

\* A driver at rest does nothing for nobody.
LEMMA RestingRow ==
  /\ Resting \in OpSet
  /\ Resting.at = "idle" /\ Resting.by = None /\ Resting.got = None
<1>1. "idle" \in Steps /\ None \in Caller \cup {None} /\ 0 \in Nat /\ 0 \in 0 .. Tries
  BY SdCardAssumption DEF Steps
<1> QED
  BY <1>1, AskingRow DEF Resting

\* An operation that ends, and a start that fails.
AnswerSet == [ok : BOOLEAN, got : Got] \cup {None}

\* An operation that ends leaves its driver at rest.
LEMMA ReturnRow ==
  ASSUME SdTyped, NEW d \in Driver, NEW ok \in BOOLEAN, NEW got \in Got, Return(d, ok, got)
  PROVE  /\ op' \in [Driver -> OpSet] /\ op'[d] = Resting
         /\ \A e \in Driver \ {d} : op'[e] = op[e]
         /\ answer' \in AnswerSet
<1>1. Resting \in OpSet
  BY RestingRow
<1>2. op' = [op EXCEPT ![d] = Resting] /\ op \in [Driver -> OpSet]
  BY DEF Return, SdTyped
<1>3. answer' \in AnswerSet
  BY SdTypes DEF Return, Answer, AnswerSet
<1> QED
  BY <1>1, <1>2, <1>3, OpRow

\* A start that fails leaves its driver at rest, closed and not ready.
LEMMA AbandonsRow ==
  ASSUME SdTyped, NEW d \in Driver, NEW r \in DrvSet, r.rca = None <=> r.of = None, Abandons(d, r)
  PROVE  /\ op' \in [Driver -> OpSet] /\ op'[d] = Resting
         /\ \A e \in Driver \ {d} : op'[e] = op[e]
         /\ answer' \in AnswerSet
         /\ drv' \in [Driver -> DrvSet] /\ drv'[d] = [r EXCEPT !.fd = FALSE, !.up = FALSE]
         /\ \A e \in Driver \ {d} : drv'[e] = drv[e]
         /\ Fine(d)'
<1>1. drv \in [Driver -> DrvSet]
  BY SdTypes
<1>2. [r EXCEPT !.fd = FALSE, !.up = FALSE] \in DrvSet
  BY DEF DrvSet
<1>3. drv' = [drv EXCEPT ![d] = [r EXCEPT !.fd = FALSE, !.up = FALSE]]
  BY DEF Abandons, Deinitialized
<1>4. None \in Got /\ FALSE \in BOOLEAN /\ Return(d, FALSE, None)
  BY DEF Abandons, Got
<1>5. op'[d] = Resting /\ drv'[d] = [r EXCEPT !.fd = FALSE, !.up = FALSE]
  BY <1>1, <1>2, <1>3, <1>4, DrvRow, ReturnRow
<1>6. /\ drv'[d].fd = FALSE /\ drv'[d].up = FALSE
      /\ drv'[d].rca = None <=> drv'[d].of = None
  BY <1>5 DEF DrvSet
<1>7. Fine(d)'
  <2>1. op'[d].at = "idle" /\ op'[d].got = None
    BY <1>5, RestingRow
  <2> QED
    BY <1>6, <2>1 DEF Fine, DriverOK, WiresOK, MoveOK, Selected, Moving
<1> QED
  BY <1>1, <1>2, <1>3, <1>4, <1>7, DrvRow, ReturnRow

\* The same when it leaves the rest of what the driver knows as it was.
LEMMA StartFailsRow ==
  ASSUME SdTyped, NEW d \in Driver, Fine(d), StartFails(d)
  PROVE  /\ op' \in [Driver -> OpSet] /\ op'[d] = Resting
         /\ \A e \in Driver \ {d} : op'[e] = op[e]
         /\ answer' \in AnswerSet
         /\ drv' \in [Driver -> DrvSet] /\ drv'[d] = [drv[d] EXCEPT !.fd = FALSE, !.up = FALSE]
         /\ \A e \in Driver \ {d} : drv'[e] = drv[e]
         /\ Fine(d)'
<1>1. drv[d] \in DrvSet /\ (drv[d].rca = None <=> drv[d].of = None)
  BY SdTypes DEF Fine, DriverOK
<1> QED
  BY <1>1, AbandonsRow DEF StartFails

\* The driver that initialises the card is recorded while no other one starts.
LEMMA AloneIs ==
  ASSUME NEW d \in Driver
  PROVE  /\ Alone(d) \in {d, None}
         /\ Alone(d) = d => \A e \in Driver \ {d} : op[e].at \in {"idle", "select", "transfer", "release"}
BY SdCardAssumption DEF Alone

\* A command counts a fault at most.
LEMMA FaultCounts ==
  ASSUME faults \in 0 .. MaxFault
  PROVE  /\ Works => faults' \in 0 .. MaxFault
         /\ Fault => faults' \in 0 .. MaxFault
         /\ \A d \in Driver : \A states : Fails(d, states) => faults' \in 0 .. MaxFault
BY SdCardAssumption DEF Works, Fault, Fails

\* The CMD7 with an address that fails selects the card only when it is lost on the way back.
LEMMA SelectFailsCard ==
  ASSUME SdTyped, BusOK, NEW d \in Driver, SelectFails(d)
  PROVE  /\ card' \in CardSet /\ faults' \in 0 .. MaxFault
         /\ card'.wide = card.wide /\ card'.rca = card.rca
         /\ slot = None => card'.st = "idle"
         /\ card'.st \in {"stby", "tran"} => card.st \in {"stby", "tran"}
         /\ card'.st = "tran" /\ ~card'.stuck => card' = card
<1>1. card \in CardSet /\ faults \in 0 .. MaxFault
  BY SdTypes
<1>2. CASE card' = card
  BY <1>1, <1>2, FaultCounts DEF SelectFails, BusOK
<1>3. CASE Selects(d) /\ card' = [card EXCEPT !.st = "tran", !.stuck = TRUE]
  BY <1>1, <1>3, FaultCounts DEF SelectFails, Selects, Reaches, CardSet
<1>4. CASE Reaches(d, {"tran"}) /\ card' = Released /\ Works
  BY <1>1, <1>4, FaultCounts DEF Released, Reaches, CardSet
<1> QED
  BY <1>2, <1>3, <1>4 DEF SelectFails

\* The CMD7 without one releases the card that it reaches, or is lost.
LEMMA DeselectCard ==
  ASSUME SdTyped, BusOK, NEW d \in Driver, Deselect(d), drv[d].fd
  PROVE  /\ card' \in CardSet /\ faults' \in 0 .. MaxFault
         /\ card'.wide = card.wide /\ card'.rca = card.rca
         /\ slot = None => card'.st = "idle"
         /\ card'.st \in {"stby", "tran"} => card.st \in {"stby", "tran"}
         /\ card'.st = "tran" => card'.stuck
<1>1. card \in CardSet /\ faults \in 0 .. MaxFault
  BY SdTypes
<1>2. CASE Works /\ Reaches(d, {"tran"}) /\ card' = Released
  BY <1>1, <1>2, FaultCounts DEF Released, Reaches, CardSet
<1>3. CASE Works /\ ~Reaches(d, {"tran"}) /\ card' = card
  BY <1>1, <1>3, FaultCounts DEF Reaches, BusOK
<1>4. CASE Reaches(d, {"tran"}) /\ Fault /\ card' = [card EXCEPT !.stuck = TRUE]
  BY <1>1, <1>4, FaultCounts DEF Reaches, CardSet
<1> QED
  BY <1>2, <1>3, <1>4 DEF Deselect

-----------------------------------------------------------------------------
(* Each step of a driver *)

\* A step of a driver changes its own rows; the others stay as they should be when the
\* step leaves the wires alone that the last one to initialise the card has set.
LEMMA StepKeeps ==
  ASSUME SdInv, NEW d \in Driver, slot' = slot, swaps' = swaps, known' \in BOOLEAN,
         wide' \in BOOLEAN, card' \in CardSet, holder' \in Driver \cup {None},
         answer' \in AnswerSet, faults' \in 0 .. MaxFault,
         op' \in [Driver -> OpSet], drv' \in [Driver -> DrvSet],
         \A e \in Driver \ {d} : op'[e] = op[e] /\ drv'[e] = drv[e],
         \/ holder' = Alone(d)
         \/ /\ holder' = holder
            /\ holder \in {d, None} \/ ((wide => wide') /\ (card.wide => card'.wide)),
         BusOK', Fine(d)'
  PROVE  SdInv'
<1>1. SdTyped /\ BusOK /\ \A e \in Driver : Fine(e)
  BY DEF SdInv
<1>2. SdTyped'
  BY <1>1, SdTypes, SdTypedFrom DEF AnswerSet
<1>3. ASSUME NEW e \in Driver \ {d}
      PROVE  Fine(e)'
  <2>1. DriverOK(e)' /\ MoveOK(e)'
    BY <1>1 DEF Fine, DriverOK, MoveOK
  <2>2. WiresOK(e)'
    <3>1. None \notin Driver
      BY SdCardAssumption
    <3>2. CASE holder' = Alone(d)
      BY <1>1, <3>1, <3>2, AloneIs DEF Fine, WiresOK
    <3>3. CASE holder' = holder /\ holder \in {d, None}
      BY <1>1, <3>1, <3>3 DEF Fine, WiresOK
    <3>4. CASE holder' = holder /\ (wide => wide') /\ (card.wide => card'.wide)
      BY <1>1, <3>4 DEF Fine, WiresOK
    <3> QED
      BY <3>2, <3>3, <3>4
  <2> QED
    BY <2>1, <2>2 DEF Fine
<1> QED
  BY <1>2, <1>3 DEF SdInv

\* A start begins, or the driver is up.
LEMMA StartupKeeps ==
  ASSUME SdInv, NEW d \in Driver, NEW by \in Caller, Startup(d, by)
  PROVE  SdInv'
<1>1. /\ SdTyped /\ BusOK /\ \A e \in Driver : Fine(e)
      /\ op[d] \in OpSet /\ drv[d] \in DrvSet
      /\ drv \in [Driver -> DrvSet] /\ op \in [Driver -> OpSet]
  BY SdTypes DEF SdInv
<1>2. /\ op[d].at = "idle" /\ UNCHANGED <<bus, swaps>>
      /\ slot' = slot /\ card' = card /\ wide' = wide /\ holder' = holder /\ known' = known
  BY DEF Startup, At, bus
<1>3. CASE drv[d].up /\ Works /\ Answer(by, TRUE, None) /\ UNCHANGED <<drv, op>>
  <2>1. answer' \in AnswerSet
    BY <1>1, <1>3, SdTypes DEF Answer, AnswerSet, Got
  <2>2. BusOK'
    BY <1>1, <1>2, <1>3 DEF BusOK
  <2>3. Fine(d)'
    BY <1>1, <1>2, <1>3 DEF Fine, DriverOK, WiresOK, MoveOK
  <2> QED
    BY <1>1, <1>2, <1>3, <2>1, <2>2, <2>3, SdTypes, FaultCounts, StepKeeps
<1>4. CASE /\ ~drv[d].up /\ Works
           /\ drv' = [drv EXCEPT ![d].fd = TRUE]
           /\ op' = [op EXCEPT ![d] = Asking("reset", by, 0, 0)]
           /\ UNCHANGED answer
  <2>1. "reset" \in Steps /\ 0 \in Nat /\ 0 \in 0 .. Tries
    BY SdCardAssumption DEF Steps
  <2>2. /\ op' \in [Driver -> OpSet] /\ op'[d].at = "reset" /\ op'[d].got = None
        /\ \A e \in Driver \ {d} : op'[e] = op[e]
    BY <1>1, <1>4, <2>1, AskingRow, OpRow
  <2>3. /\ [drv[d] EXCEPT !.fd = TRUE] \in DrvSet
        /\ drv' = [drv EXCEPT ![d] = [drv[d] EXCEPT !.fd = TRUE]]
    BY <1>1, <1>4 DEF DrvSet
  <2>4. /\ drv' \in [Driver -> DrvSet] /\ drv'[d] = [drv[d] EXCEPT !.fd = TRUE]
        /\ \A e \in Driver \ {d} : drv'[e] = drv[e]
    BY <1>1, <2>3, DrvRow
  <2>5. BusOK'
    BY <1>1, <1>2, <2>2 DEF BusOK, Selected
  <2>6. Fine(d)'
    BY <1>1, <1>2, <1>4, <2>2, <2>4
    DEF Fine, DriverOK, WiresOK, MoveOK, DrvSet, Moving, Selected, Aware
  <2> QED
    BY <1>1, <1>2, <1>4, <2>2, <2>4, <2>5, <2>6, SdTypes, FaultCounts, StepKeeps DEF AnswerSet
<1>5. CASE /\ ~drv[d].up /\ Fault
           /\ drv' = [drv EXCEPT ![d] = Deinitialized(@)]
           /\ Answer(by, FALSE, None) /\ UNCHANGED op
  <2>1. answer' \in AnswerSet
    BY <1>1, <1>5, SdTypes DEF Answer, AnswerSet, Got
  <2>2. [drv[d] EXCEPT !.fd = FALSE, !.up = FALSE] \in DrvSet
    BY <1>1 DEF DrvSet
  <2>3. drv' = [drv EXCEPT ![d] = [drv[d] EXCEPT !.fd = FALSE, !.up = FALSE]]
    BY <1>5 DEF Deinitialized
  <2>4. /\ drv' \in [Driver -> DrvSet] /\ drv'[d] = [drv[d] EXCEPT !.fd = FALSE, !.up = FALSE]
        /\ \A e \in Driver \ {d} : drv'[e] = drv[e]
    BY <1>1, <2>2, <2>3, DrvRow
  <2>5. BusOK'
    BY <1>1, <1>2, <1>5 DEF BusOK
  <2>6. /\ drv'[d].fd = FALSE /\ drv'[d].up = FALSE
        /\ drv'[d].rca = drv[d].rca /\ drv'[d].of = drv[d].of
    BY <1>1, <2>4 DEF DrvSet
  <2>7. Fine(d)'
    BY <1>1, <1>2, <1>5, <2>6 DEF Fine, DriverOK, WiresOK, MoveOK, Moving, Selected
  <2> QED
    BY <1>1, <1>2, <1>5, <2>1, <2>4, <2>5, <2>7, SdTypes, FaultCounts, StepKeeps
<1> QED
  BY <1>3, <1>4, <1>5 DEF Startup

\* The kernel's driver resets the card.
LEMMA ResetKeeps ==
  ASSUME SdInv, NEW d \in Driver, Reset(d)
  PROVE  SdInv'
<1>1. /\ SdTyped /\ BusOK /\ \A e \in Driver : Fine(e)
      /\ op[d] \in OpSet /\ drv[d] \in DrvSet
      /\ drv \in [Driver -> DrvSet] /\ op \in [Driver -> OpSet]
  BY SdTypes DEF SdInv
<1>2. /\ op[d].at = "reset" /\ Go(d, "status") /\ "status" \in Steps
      /\ slot' = slot /\ answer' = answer /\ swaps' = swaps
  BY DEF Reset, At, Steps
<1>3. /\ op' \in [Driver -> OpSet] /\ op'[d] = [op[d] EXCEPT !.at = "status"]
      /\ \A e \in Driver \ {d} : op'[e] = op[e]
  BY <1>1, <1>2, GoRow
<1>4. ASSUME NEW a \in Rca, slot # None, known' = TRUE, holder' = Alone(d), Works,
             card' = [Unidentified EXCEPT !.st = "stby", !.rca = a], wide' = FALSE,
             Unread(d, a, slot)
      PROVE  SdInv'
  <2>1. a # None /\ slot \in Card
    BY <1>1, <1>4, SdTypes, SdCardAssumption
  <2>2. card' \in CardSet /\ card'.st = "stby" /\ card'.rca = a
    BY <1>4 DEF CardSet, Unidentified
  <2>3. [drv[d] EXCEPT !.rca = a, !.of = slot, !.read = FALSE] \in DrvSet
    BY <1>1, <2>1 DEF DrvSet
  <2>4. drv' = [drv EXCEPT ![d] = [drv[d] EXCEPT !.rca = a, !.of = slot, !.read = FALSE]]
    BY <1>4 DEF Unread
  <2>5. /\ drv' \in [Driver -> DrvSet]
        /\ drv'[d] = [drv[d] EXCEPT !.rca = a, !.of = slot, !.read = FALSE]
        /\ \A e \in Driver \ {d} : drv'[e] = drv[e]
    BY <1>1, <2>3, <2>4, DrvRow
  <2>6. BusOK'
    BY <1>2, <1>4, <2>1, <2>2 DEF BusOK
  <2>7. Fine(d)'
    BY <1>1, <1>2, <1>3, <1>4, <2>1, <2>5
    DEF Fine, DriverOK, WiresOK, MoveOK, OpSet, DrvSet, Moving, Selected, Aware
  <2> QED
    BY <1>1, <1>2, <1>3, <1>4, <2>2, <2>5, <2>6, <2>7, SdTypes, FaultCounts, AloneIs, StepKeeps
    DEF AnswerSet
<1>5. CASE /\ known' = FALSE /\ holder' = Alone(d) /\ card' = Unidentified /\ wide' = FALSE
           /\ Unread(d, None, None) /\ Works
  <2>2. card' \in CardSet /\ card'.st = "idle"
    BY <1>5 DEF CardSet, Unidentified
  <2>3. [drv[d] EXCEPT !.rca = None, !.of = None, !.read = FALSE] \in DrvSet
    BY <1>1 DEF DrvSet
  <2>4. drv' = [drv EXCEPT ![d] = [drv[d] EXCEPT !.rca = None, !.of = None, !.read = FALSE]]
    BY <1>5 DEF Unread
  <2>5. /\ drv' \in [Driver -> DrvSet]
        /\ drv'[d] = [drv[d] EXCEPT !.rca = None, !.of = None, !.read = FALSE]
        /\ \A e \in Driver \ {d} : drv'[e] = drv[e]
    BY <1>1, <2>3, <2>4, DrvRow
  <2>6. BusOK'
    BY <2>2 DEF BusOK
  <2>7. Fine(d)'
    BY <1>1, <1>2, <1>3, <1>5, <2>5
    DEF Fine, DriverOK, WiresOK, MoveOK, OpSet, DrvSet, Moving, Selected, Aware
  <2> QED
    BY <1>1, <1>2, <1>3, <1>5, <2>2, <2>5, <2>6, <2>7, SdTypes, FaultCounts, AloneIs, StepKeeps
    DEF AnswerSet
<1>6. CASE Fault /\ Unread(d, None, None) /\ UNCHANGED <<known, holder, card, wide>>
  <2>3. [drv[d] EXCEPT !.rca = None, !.of = None, !.read = FALSE] \in DrvSet
    BY <1>1 DEF DrvSet
  <2>4. drv' = [drv EXCEPT ![d] = [drv[d] EXCEPT !.rca = None, !.of = None, !.read = FALSE]]
    BY <1>6 DEF Unread
  <2>5. /\ drv' \in [Driver -> DrvSet]
        /\ drv'[d] = [drv[d] EXCEPT !.rca = None, !.of = None, !.read = FALSE]
        /\ \A e \in Driver \ {d} : drv'[e] = drv[e]
    BY <1>1, <2>3, <2>4, DrvRow
  <2>6. BusOK'
    BY <1>1, <1>2, <1>3, <1>6 DEF BusOK, Selected
  <2>7. Fine(d)'
    BY <1>1, <1>2, <1>3, <1>6, <2>5
    DEF Fine, DriverOK, WiresOK, MoveOK, OpSet, DrvSet, Moving, Selected, Aware
  <2> QED
    BY <1>1, <1>2, <1>3, <1>6, <2>5, <2>6, <2>7, SdTypes, FaultCounts, StepKeeps
    DEF AnswerSet
<1> QED
  BY <1>4, <1>5, <1>6 DEF Reset

\* The state of the card is read, or what its failed read returned is taken for it.
LEMMA StatusKeeps ==
  ASSUME SdInv, NEW d \in Driver, Status(d)
  PROVE  SdInv'
<1>1. /\ SdTyped /\ BusOK /\ \A e \in Driver : Fine(e)
      /\ op[d] \in OpSet /\ drv[d] \in DrvSet
      /\ drv \in [Driver -> DrvSet] /\ op \in [Driver -> OpSet]
  BY SdTypes DEF SdInv
<1>2. /\ op[d].at = "status" /\ slot' = slot /\ card' = card /\ wide' = wide
      /\ holder' = holder /\ known' = known /\ swaps' = swaps
  BY DEF Status, At, bus
<1>3. CASE (Works \/ Fault) /\ StartFails(d)
  <2>1. /\ op' \in [Driver -> OpSet] /\ op'[d] = Resting /\ answer' \in AnswerSet
        /\ drv' \in [Driver -> DrvSet] /\ Fine(d)'
        /\ \A e \in Driver \ {d} : op'[e] = op[e] /\ drv'[e] = drv[e]
    BY <1>1, <1>3, StartFailsRow
  <2>2. BusOK'
    BY <1>1, <1>2, <2>1, RestingRow DEF BusOK, Selected
  <2> QED
    BY <1>1, <1>2, <1>3, <2>1, <2>2, SdTypes, FaultCounts, StepKeeps
<1>4. CASE /\ slot # None /\ known /\ Works
           /\ drv' = [drv EXCEPT ![d].sdhc = TypeOf(d), ![d].read = TRUE]
           /\ Go(d, "width") /\ UNCHANGED answer
  <2>1. Go(d, "width") /\ "width" \in Steps
    BY <1>4 DEF Steps
  <2>2. /\ op' \in [Driver -> OpSet] /\ op'[d] = [op[d] EXCEPT !.at = "width"]
        /\ \A e \in Driver \ {d} : op'[e] = op[e]
    BY <1>1, <2>1, GoRow
  <2> DEFINE row == [drv[d] EXCEPT !.sdhc = TypeOf(d), !.read = TRUE]
  <2>3. /\ row \in DrvSet /\ drv' = [drv EXCEPT ![d] = row]
        /\ (row.sdhc <=> slot \in Sdhc) /\ row.read = TRUE
        /\ row.fd = drv[d].fd /\ row.up = drv[d].up
        /\ row.rca = drv[d].rca /\ row.of = drv[d].of
    <3>1. TypeOf(d) \in BOOLEAN /\ (TypeOf(d) <=> slot \in Sdhc)
      BY DEF TypeOf
    <3>2. row.sdhc = TypeOf(d)
      BY <1>1, <3>1 DEF DrvSet
    <3> QED
      BY <1>1, <1>4, <3>1, <3>2 DEF DrvSet
  <2> HIDE DEF row
  <2>4. /\ drv' \in [Driver -> DrvSet] /\ drv'[d] = row
        /\ \A e \in Driver \ {d} : drv'[e] = drv[e]
    BY <1>1, <2>3, DrvRow
  <2>5. BusOK'
    BY <1>1, <1>2, <2>2 DEF BusOK, Selected
  <2>6. Fine(d)'
    <3>1. op'[d].at = "width" /\ op'[d].got = op[d].got
      BY <1>1, <2>2 DEF OpSet
    <3>2. DriverOK(d)'
      <4>1. /\ drv[d].of \in {None, slot} /\ (drv[d].rca = None <=> drv[d].of = None)
            /\ ~drv[d].up /\ slot' = slot /\ slot # None
        BY <1>1, <1>2, <1>4 DEF Fine, DriverOK, Moving, Reaches
      <4>2. /\ drv'[d].rca = drv[d].rca /\ drv'[d].of = drv[d].of /\ ~drv'[d].up
            /\ drv'[d].sdhc <=> slot \in Sdhc
        BY <2>3, <2>4, <4>1
      <4> QED
        BY <3>1, <4>1, <4>2 DEF DriverOK, Moving, Selected, Aware
    <3>3. WiresOK(d)' /\ MoveOK(d)'
      BY <1>1, <1>2, <1>4, <2>3, <2>4, <3>1 DEF Fine, DriverOK, WiresOK, MoveOK, Moving
    <3> QED
      BY <3>2, <3>3 DEF Fine
  <2> QED
    BY <1>1, <1>2, <1>4, <2>2, <2>4, <2>5, <2>6, SdTypes, FaultCounts, StepKeeps DEF AnswerSet
<1>5. CASE Works /\ Go(d, "host") /\ UNCHANGED <<drv, answer>>
  <2>1. Go(d, "host") /\ "host" \in Steps
    BY <1>5 DEF Steps
  <2>2. /\ op' \in [Driver -> OpSet] /\ op'[d] = [op[d] EXCEPT !.at = "host"]
        /\ \A e \in Driver \ {d} : op'[e] = op[e]
    BY <1>1, <2>1, GoRow
  <2>3. BusOK'
    BY <1>1, <1>2, <2>2 DEF BusOK, Selected
  <2>4. Fine(d)'
    BY <1>1, <1>2, <1>5, <2>2
    DEF Fine, DriverOK, WiresOK, MoveOK, OpSet, DrvSet, Moving, Selected, Aware
  <2> QED
    BY <1>1, <1>2, <1>5, <2>2, <2>3, <2>4, SdTypes, FaultCounts, StepKeeps DEF AnswerSet
<1>6. CASE Fault /\ drv' = [drv EXCEPT ![d].sdhc = TRUE] /\ Go(d, "width") /\ UNCHANGED answer
  <2>1. Go(d, "width") /\ "width" \in Steps
    BY <1>6 DEF Steps
  <2>2. /\ op' \in [Driver -> OpSet] /\ op'[d] = [op[d] EXCEPT !.at = "width"]
        /\ \A e \in Driver \ {d} : op'[e] = op[e]
    BY <1>1, <2>1, GoRow
  <2>3. /\ [drv[d] EXCEPT !.sdhc = TRUE] \in DrvSet
        /\ drv' = [drv EXCEPT ![d] = [drv[d] EXCEPT !.sdhc = TRUE]]
    BY <1>1, <1>6 DEF DrvSet, TypeOf
  <2>4. /\ drv' \in [Driver -> DrvSet] /\ drv'[d] = [drv[d] EXCEPT !.sdhc = TRUE]
        /\ \A e \in Driver \ {d} : drv'[e] = drv[e]
    BY <1>1, <2>3, DrvRow
  <2>5. BusOK'
    BY <1>1, <1>2, <2>2 DEF BusOK, Selected
  <2>6. Fine(d)'
    BY <1>1, <1>2, <1>6, <2>2, <2>4
    DEF Fine, DriverOK, WiresOK, MoveOK, OpSet, DrvSet, Moving, Selected, Aware
  <2> QED
    BY <1>1, <1>2, <1>6, <2>2, <2>4, <2>5, <2>6, SdTypes, FaultCounts, StepKeeps DEF AnswerSet
<1> QED
  BY <1>3, <1>4, <1>5, <1>6 DEF Status

\* The host is reset for a start by hand.
LEMMA HostKeeps ==
  ASSUME SdInv, NEW d \in Driver, Host(d)
  PROVE  SdInv'
<1>1. /\ SdTyped /\ BusOK /\ \A e \in Driver : Fine(e)
      /\ op[d] \in OpSet /\ drv[d] \in DrvSet
      /\ drv \in [Driver -> DrvSet] /\ op \in [Driver -> OpSet]
  BY SdTypes DEF SdInv
<1>2. /\ op[d].at = "host" /\ holder' = Alone(d)
      /\ slot' = slot /\ known' = known /\ swaps' = swaps
  BY DEF Host, At
<1>3. Unidentified \in CardSet /\ Unidentified.st = "idle"
  BY DEF CardSet, Unidentified
<1>4. CASE /\ card' = Unidentified /\ wide' = FALSE /\ Works
           /\ drv' = [drv EXCEPT ![d].sdhc = TRUE]
           /\ Go(d, "identify") /\ UNCHANGED answer
  <2>1. Go(d, "identify") /\ "identify" \in Steps
    BY <1>4 DEF Steps
  <2>2. /\ op' \in [Driver -> OpSet] /\ op'[d] = [op[d] EXCEPT !.at = "identify"]
        /\ \A e \in Driver \ {d} : op'[e] = op[e]
    BY <1>1, <2>1, GoRow
  <2>3. /\ [drv[d] EXCEPT !.sdhc = TRUE] \in DrvSet
        /\ drv' = [drv EXCEPT ![d] = [drv[d] EXCEPT !.sdhc = TRUE]]
    BY <1>1, <1>4 DEF DrvSet, TypeOf
  <2>4. /\ drv' \in [Driver -> DrvSet] /\ drv'[d] = [drv[d] EXCEPT !.sdhc = TRUE]
        /\ \A e \in Driver \ {d} : drv'[e] = drv[e]
    BY <1>1, <2>3, DrvRow
  <2>5. BusOK'
    BY <1>3, <1>4 DEF BusOK
  <2>6. Fine(d)'
    BY <1>1, <1>2, <1>4, <2>2, <2>4, AloneIs
    DEF Fine, DriverOK, WiresOK, MoveOK, OpSet, DrvSet, Moving, Selected, Aware
  <2> QED
    BY <1>1, <1>2, <1>3, <1>4, <2>2, <2>4, <2>5, <2>6, SdTypes, FaultCounts, AloneIs, StepKeeps
    DEF AnswerSet
<1>5. CASE Fault /\ wide' \in {wide, FALSE} /\ StartFails(d) /\ UNCHANGED card
  <2>1. /\ op' \in [Driver -> OpSet] /\ op'[d] = Resting /\ answer' \in AnswerSet
        /\ drv' \in [Driver -> DrvSet] /\ Fine(d)'
        /\ \A e \in Driver \ {d} : op'[e] = op[e] /\ drv'[e] = drv[e]
    BY <1>1, <1>5, StartFailsRow
  <2>2. BusOK'
    BY <1>1, <1>2, <1>5, <2>1, RestingRow DEF BusOK, Selected
  <2>3. wide' \in BOOLEAN
    BY <1>1, <1>5, SdTypes
  <2> QED
    BY <1>1, <1>2, <1>5, <2>1, <2>2, <2>3, SdTypes, FaultCounts, AloneIs, StepKeeps
<1>6. CASE /\ Fault /\ wide' = FALSE /\ card' \in {card, Unidentified}
           /\ Abandons(d, [drv[d] EXCEPT !.sdhc = TRUE])
  <2>1. /\ [drv[d] EXCEPT !.sdhc = TRUE] \in DrvSet
        /\ [drv[d] EXCEPT !.sdhc = TRUE].rca = None <=> [drv[d] EXCEPT !.sdhc = TRUE].of = None
    BY <1>1 DEF DrvSet, Fine, DriverOK
  <2>2. /\ op' \in [Driver -> OpSet] /\ op'[d] = Resting /\ answer' \in AnswerSet
        /\ drv' \in [Driver -> DrvSet] /\ Fine(d)'
        /\ \A e \in Driver \ {d} : op'[e] = op[e] /\ drv'[e] = drv[e]
    BY <1>1, <1>6, <2>1, AbandonsRow
  <2>3. BusOK'
    BY <1>1, <1>2, <1>3, <1>6, <2>2, RestingRow DEF BusOK, Selected
  <2> QED
    BY <1>1, <1>2, <1>3, <1>6, <2>2, <2>3, SdTypes, FaultCounts, AloneIs, StepKeeps
<1> QED
  BY <1>4, <1>5, <1>6 DEF Host

\* The card identifies itself.
LEMMA IdentifyKeeps ==
  ASSUME SdInv, NEW d \in Driver, Identify(d)
  PROVE  SdInv'
<1>1. /\ SdTyped /\ BusOK /\ \A e \in Driver : Fine(e)
      /\ op[d] \in OpSet /\ drv[d] \in DrvSet
      /\ drv \in [Driver -> DrvSet] /\ op \in [Driver -> OpSet]
  BY SdTypes DEF SdInv
<1>2. op[d].at = "identify" /\ holder \in {d, None} /\ swaps' = swaps
  BY <1>1 DEF Identify, At, Fine, WiresOK
<1>3. CASE /\ Reaches(d, {"idle"}) /\ Works
           /\ card' = [card EXCEPT !.st = "ident"]
           /\ drv' = [drv EXCEPT ![d].sdhc = TypeOf(d), ![d].read = TRUE]
           /\ Go(d, "address") /\ UNCHANGED <<slot, wide, known, holder, answer>>
  <2>1. Go(d, "address") /\ "address" \in Steps
    BY <1>3 DEF Steps
  <2>2. /\ op' \in [Driver -> OpSet] /\ op'[d] = [op[d] EXCEPT !.at = "address"]
        /\ \A e \in Driver \ {d} : op'[e] = op[e]
    BY <1>1, <2>1, GoRow
  <2> DEFINE row == [drv[d] EXCEPT !.sdhc = TypeOf(d), !.read = TRUE]
  <2>3. /\ row \in DrvSet /\ drv' = [drv EXCEPT ![d] = row]
        /\ (row.sdhc <=> slot \in Sdhc) /\ row.read = TRUE
        /\ row.fd = drv[d].fd /\ row.up = drv[d].up
        /\ row.rca = drv[d].rca /\ row.of = drv[d].of
    <3>1. TypeOf(d) \in BOOLEAN /\ (TypeOf(d) <=> slot \in Sdhc)
      BY DEF TypeOf
    <3>2. row.sdhc = TypeOf(d)
      BY <1>1, <3>1 DEF DrvSet
    <3> QED
      BY <1>1, <1>3, <3>1, <3>2 DEF DrvSet
  <2> HIDE DEF row
  <2>4. /\ drv' \in [Driver -> DrvSet] /\ drv'[d] = row
        /\ \A e \in Driver \ {d} : drv'[e] = drv[e]
    BY <1>1, <2>3, DrvRow
  <2>5. card' \in CardSet /\ card'.st = "ident" /\ slot # None
    BY <1>1, <1>3, SdTypes DEF CardSet, Reaches
  <2>6. BusOK'
    BY <1>3, <2>5 DEF BusOK
  <2>7. Fine(d)'
    <3>1. op'[d].at = "address" /\ op'[d].got = op[d].got
      BY <1>1, <2>2 DEF OpSet
    <3>2. DriverOK(d)'
      <4>1. /\ drv[d].of \in {None, slot} /\ (drv[d].rca = None <=> drv[d].of = None)
            /\ ~drv[d].up /\ slot' = slot /\ slot # None
        BY <1>1, <1>2, <1>3 DEF Fine, DriverOK, Moving, Reaches
      <4>2. /\ drv'[d].rca = drv[d].rca /\ drv'[d].of = drv[d].of /\ ~drv'[d].up
            /\ drv'[d].sdhc <=> slot \in Sdhc
        BY <2>3, <2>4, <4>1
      <4> QED
        BY <3>1, <4>1, <4>2 DEF DriverOK, Moving, Selected, Aware
    <3>3. WiresOK(d)' /\ MoveOK(d)'
      BY <1>1, <1>2, <1>3, <2>3, <2>4, <3>1 DEF Fine, DriverOK, WiresOK, MoveOK, Moving
    <3> QED
      BY <3>2, <3>3 DEF Fine
  <2> QED
    BY <1>1, <1>2, <1>3, <2>2, <2>4, <2>5, <2>6, <2>7, SdTypes, FaultCounts, StepKeeps
    DEF AnswerSet
<1>4. CASE Fails(d, {"idle"}) /\ HostFails(d)
  <2>1. /\ op' \in [Driver -> OpSet] /\ op'[d] = Resting /\ answer' \in AnswerSet
        /\ drv' \in [Driver -> DrvSet] /\ Fine(d)'
        /\ \A e \in Driver \ {d} : op'[e] = op[e] /\ drv'[e] = drv[e]
        /\ UNCHANGED <<slot, card, known, holder>> /\ wide' = FALSE
    BY <1>1, <1>4, StartFailsRow DEF HostFails
  <2>2. BusOK'
    BY <1>1, <1>2, <2>1, RestingRow DEF BusOK, Selected
  <2> QED
    BY <1>1, <1>2, <1>4, <2>1, <2>2, SdTypes, FaultCounts, StepKeeps
<1> QED
  BY <1>3, <1>4 DEF Identify

\* The card publishes its address.
LEMMA AddressKeeps ==
  ASSUME SdInv, NEW d \in Driver, Address(d)
  PROVE  SdInv'
<1>1. /\ SdTyped /\ BusOK /\ \A e \in Driver : Fine(e)
      /\ op[d] \in OpSet /\ drv[d] \in DrvSet
      /\ drv \in [Driver -> DrvSet] /\ op \in [Driver -> OpSet]
  BY SdTypes DEF SdInv
<1>2. op[d].at = "address" /\ holder \in {d, None} /\ swaps' = swaps
  BY <1>1 DEF Address, At, Fine, WiresOK
<1>3. ASSUME NEW a \in Rca, Reaches(d, {"ident"}), Works,
             card' = [card EXCEPT !.st = "stby", !.rca = a],
             drv' = [drv EXCEPT ![d].rca = a, ![d].of = slot],
             Go(d, "width"), UNCHANGED <<slot, wide, known, holder, answer>>
      PROVE  SdInv'
  <2>1. Go(d, "width") /\ "width" \in Steps
    BY <1>3 DEF Steps
  <2>2. /\ op' \in [Driver -> OpSet] /\ op'[d] = [op[d] EXCEPT !.at = "width"]
        /\ \A e \in Driver \ {d} : op'[e] = op[e]
    BY <1>1, <2>1, GoRow
  <2>3. a # None /\ slot # None /\ slot \in Card
    BY <1>1, <1>3, SdTypes, SdCardAssumption DEF Reaches
  <2>4. /\ [drv[d] EXCEPT !.rca = a, !.of = slot] \in DrvSet
        /\ drv' = [drv EXCEPT ![d] = [drv[d] EXCEPT !.rca = a, !.of = slot]]
    BY <1>1, <1>3, <2>3 DEF DrvSet, TypeOf
  <2>5. /\ drv' \in [Driver -> DrvSet] /\ drv'[d] = [drv[d] EXCEPT !.rca = a, !.of = slot]
        /\ \A e \in Driver \ {d} : drv'[e] = drv[e]
    BY <1>1, <2>4, DrvRow
  <2>6. card' \in CardSet /\ card'.st = "stby" /\ card'.rca = a
    BY <1>1, <1>3, SdTypes DEF CardSet
  <2>7. BusOK'
    BY <1>3, <2>3, <2>6 DEF BusOK
  <2>8. Fine(d)'
    BY <1>1, <1>2, <1>3, <2>2, <2>3, <2>5
    DEF Fine, DriverOK, WiresOK, MoveOK, OpSet, DrvSet, Moving, Selected, Aware
  <2> QED
    BY <1>1, <1>2, <1>3, <2>2, <2>5, <2>6, <2>7, <2>8, SdTypes, FaultCounts, StepKeeps
    DEF AnswerSet
<1>4. CASE Fails(d, {"ident"}) /\ HostFails(d)
  <2>1. /\ op' \in [Driver -> OpSet] /\ op'[d] = Resting /\ answer' \in AnswerSet
        /\ drv' \in [Driver -> DrvSet] /\ Fine(d)'
        /\ \A e \in Driver \ {d} : op'[e] = op[e] /\ drv'[e] = drv[e]
        /\ UNCHANGED <<slot, card, known, holder>> /\ wide' = FALSE
    BY <1>1, <1>4, StartFailsRow DEF HostFails
  <2>2. BusOK'
    BY <1>1, <1>2, <2>1, RestingRow DEF BusOK, Selected
  <2> QED
    BY <1>1, <1>2, <1>4, <2>1, <2>2, SdTypes, FaultCounts, StepKeeps
<1> QED
  BY <1>3, <1>4 DEF Address

\* The host's wires.
LEMMA WidthKeeps ==
  ASSUME SdInv, NEW d \in Driver, Width(d)
  PROVE  SdInv'
<1>1. /\ SdTyped /\ BusOK /\ \A e \in Driver : Fine(e)
      /\ op[d] \in OpSet /\ drv[d] \in DrvSet
      /\ drv \in [Driver -> DrvSet] /\ op \in [Driver -> OpSet]
  BY SdTypes DEF SdInv
<1>2. /\ op[d].at = "width" /\ UNCHANGED <<slot, card, known, holder, swaps>>
  BY DEF Width, At
<1>3. CASE wide' = TRUE /\ Works /\ Go(d, "pick") /\ UNCHANGED <<drv, answer>>
  <2>1. Go(d, "pick") /\ "pick" \in Steps
    BY <1>3 DEF Steps
  <2>2. /\ op' \in [Driver -> OpSet] /\ op'[d] = [op[d] EXCEPT !.at = "pick"]
        /\ \A e \in Driver \ {d} : op'[e] = op[e]
    BY <1>1, <2>1, GoRow
  <2>3. BusOK'
    BY <1>1, <1>2, <2>2 DEF BusOK, Selected
  <2>4. Fine(d)'
    BY <1>1, <1>2, <1>3, <2>2
    DEF Fine, DriverOK, WiresOK, MoveOK, OpSet, DrvSet, Moving, Selected, Aware
  <2> QED
    BY <1>1, <1>2, <1>3, <2>2, <2>3, <2>4, SdTypes, FaultCounts, StepKeeps DEF AnswerSet
<1>4. CASE Fault /\ wide' = wide /\ StartFails(d)
  <2>1. /\ op' \in [Driver -> OpSet] /\ op'[d] = Resting /\ answer' \in AnswerSet
        /\ drv' \in [Driver -> DrvSet] /\ Fine(d)'
        /\ \A e \in Driver \ {d} : op'[e] = op[e] /\ drv'[e] = drv[e]
    BY <1>1, <1>4, StartFailsRow
  <2>2. BusOK'
    BY <1>1, <1>2, <2>1, RestingRow DEF BusOK, Selected
  <2> QED
    BY <1>1, <1>2, <1>4, <2>1, <2>2, SdTypes, FaultCounts, StepKeeps
<1>5. CASE Fault /\ wide' = TRUE /\ StartFails(d)
  <2>1. /\ op' \in [Driver -> OpSet] /\ op'[d] = Resting /\ answer' \in AnswerSet
        /\ drv' \in [Driver -> DrvSet] /\ Fine(d)'
        /\ \A e \in Driver \ {d} : op'[e] = op[e] /\ drv'[e] = drv[e]
    BY <1>1, <1>5, StartFailsRow
  <2>2. BusOK'
    BY <1>1, <1>2, <2>1, RestingRow DEF BusOK, Selected
  <2> QED
    BY <1>1, <1>2, <1>5, <2>1, <2>2, SdTypes, FaultCounts, StepKeeps
<1> QED
  BY <1>3, <1>4, <1>5 DEF Width

\* The card is selected for its configuration.
LEMMA PickKeeps ==
  ASSUME SdInv, NEW d \in Driver, Pick(d)
  PROVE  SdInv'
<1>1. /\ SdTyped /\ BusOK /\ \A e \in Driver : Fine(e)
      /\ op[d] \in OpSet /\ drv[d] \in DrvSet
      /\ drv \in [Driver -> DrvSet] /\ op \in [Driver -> OpSet]
  BY SdTypes DEF SdInv
<1>2. /\ op[d].at = "pick" /\ UNCHANGED <<slot, wide, known, holder, swaps>>
  BY DEF Pick, At
<1>3. CASE /\ Selects(d) /\ Works
           /\ card' = [card EXCEPT !.st = "tran"] /\ Go(d, "length") /\ UNCHANGED <<drv, answer>>
  <2>1. Go(d, "length") /\ "length" \in Steps
    BY <1>3 DEF Steps
  <2>2. /\ op' \in [Driver -> OpSet] /\ op'[d] = [op[d] EXCEPT !.at = "length"]
        /\ \A e \in Driver \ {d} : op'[e] = op[e]
    BY <1>1, <2>1, GoRow
  <2>3. /\ card' \in CardSet /\ card'.st = "tran" /\ card'.wide = card.wide /\ card'.rca = card.rca
        /\ slot # None /\ drv[d].fd /\ card.rca # None /\ drv[d].of # None
    BY <1>1, <1>3, SdTypes DEF CardSet, Selects, HasAddress, Reaches, BusOK, Fine, DriverOK
  <2>4. BusOK'
    BY <1>1, <1>2, <2>2, <2>3 DEF BusOK, Selected, OpSet
  <2>5. Fine(d)'
    BY <1>1, <1>2, <1>3, <2>2, <2>3
    DEF Fine, DriverOK, WiresOK, MoveOK, OpSet, DrvSet, Moving, Selected, Aware
  <2> QED
    BY <1>1, <1>2, <1>3, <2>2, <2>3, <2>4, <2>5, SdTypes, FaultCounts, StepKeeps DEF AnswerSet
<1>4. CASE SelectFails(d) /\ StartFails(d)
  <2>1. /\ op' \in [Driver -> OpSet] /\ op'[d] = Resting /\ answer' \in AnswerSet
        /\ drv' \in [Driver -> DrvSet] /\ Fine(d)'
        /\ \A e \in Driver \ {d} : op'[e] = op[e] /\ drv'[e] = drv[e]
    BY <1>1, <1>4, StartFailsRow
  <2>2. BusOK'
    BY <1>1, <1>2, <1>4, <2>1, SelectFailsCard, RestingRow DEF BusOK, Selected
  <2> QED
    BY <1>1, <1>2, <1>4, <2>1, <2>2, SdTypes, SelectFailsCard, StepKeeps
<1> QED
  BY <1>3, <1>4 DEF Pick

\* The length of a block.
LEMMA LengthKeeps ==
  ASSUME SdInv, NEW d \in Driver, Length(d)
  PROVE  SdInv'
<1>1. /\ SdTyped /\ BusOK /\ \A e \in Driver : Fine(e)
      /\ op[d] \in OpSet /\ drv[d] \in DrvSet
      /\ drv \in [Driver -> DrvSet] /\ op \in [Driver -> OpSet]
  BY SdTypes DEF SdInv
<1>2. /\ op[d].at = "length" /\ drv' = drv /\ answer' = answer /\ swaps' = swaps
      /\ UNCHANGED <<slot, card, wide, known, holder>>
  BY DEF Length, At, bus
<1>3. CASE Works /\ Go(d, "wires")
  <2>1. Go(d, "wires") /\ "wires" \in Steps
    BY <1>3 DEF Steps
  <2>2. /\ op' \in [Driver -> OpSet] /\ op'[d] = [op[d] EXCEPT !.at = "wires"]
        /\ \A e \in Driver \ {d} : op'[e] = op[e]
    BY <1>1, <2>1, GoRow
  <2>3. BusOK'
    BY <1>1, <1>2, <2>2 DEF BusOK, Selected, OpSet
  <2>4. Fine(d)'
    BY <1>1, <1>2, <2>2
    DEF Fine, DriverOK, WiresOK, MoveOK, OpSet, DrvSet, Moving, Selected, Aware
  <2> QED
    BY <1>1, <1>2, <1>3, <2>2, <2>3, <2>4, SdTypes, FaultCounts, StepKeeps DEF AnswerSet
<1>4. CASE Fails(d, {"tran"}) /\ Go(d, "undo")
  <2>1. Go(d, "undo") /\ "undo" \in Steps
    BY <1>4 DEF Steps
  <2>2. /\ op' \in [Driver -> OpSet] /\ op'[d] = [op[d] EXCEPT !.at = "undo"]
        /\ \A e \in Driver \ {d} : op'[e] = op[e]
    BY <1>1, <2>1, GoRow
  <2>3. BusOK'
    BY <1>1, <1>2, <2>2 DEF BusOK, Selected, OpSet
  <2>4. Fine(d)'
    BY <1>1, <1>2, <2>2
    DEF Fine, DriverOK, WiresOK, MoveOK, OpSet, DrvSet, Moving, Selected, Aware
  <2> QED
    BY <1>1, <1>2, <1>4, <2>2, <2>3, <2>4, SdTypes, FaultCounts, StepKeeps DEF AnswerSet
<1> QED
  BY <1>3, <1>4 DEF Length

\* The card's wires.
LEMMA WiresKeeps ==
  ASSUME SdInv, NEW d \in Driver, Wires(d)
  PROVE  SdInv'
<1>1. /\ SdTyped /\ BusOK /\ \A e \in Driver : Fine(e)
      /\ op[d] \in OpSet /\ drv[d] \in DrvSet
      /\ drv \in [Driver -> DrvSet] /\ op \in [Driver -> OpSet]
  BY SdTypes DEF SdInv
<1>2. /\ op[d].at = "wires" /\ UNCHANGED <<slot, wide, known, holder, drv, answer, swaps>>
  BY DEF Wires, At
<1>3. CASE Works /\ card' = [card EXCEPT !.wide = TRUE] /\ Go(d, "done")
  <2>1. Go(d, "done") /\ "done" \in Steps
    BY <1>3 DEF Steps
  <2>2. /\ op' \in [Driver -> OpSet] /\ op'[d] = [op[d] EXCEPT !.at = "done"]
        /\ \A e \in Driver \ {d} : op'[e] = op[e]
    BY <1>1, <2>1, GoRow
  <2>3. /\ card' \in CardSet /\ card'.st = card.st /\ card'.wide = TRUE /\ card'.rca = card.rca
        /\ card'.stuck = card.stuck
    BY <1>1, <1>3, SdTypes DEF CardSet
  <2>4. BusOK'
    BY <1>1, <1>2, <2>2, <2>3 DEF BusOK, Selected, OpSet
  <2>5. Fine(d)'
    BY <1>1, <1>2, <2>2, <2>3
    DEF Fine, DriverOK, WiresOK, MoveOK, OpSet, DrvSet, Moving, Selected, Aware
  <2> QED
    BY <1>1, <1>2, <1>3, <2>2, <2>3, <2>4, <2>5, SdTypes, FaultCounts, StepKeeps DEF AnswerSet
<1>4. CASE /\ IF HasAddress(d) THEN Fails(d, {"tran"}) ELSE Works
           /\ Go(d, "undo") /\ UNCHANGED card
  <2>1. Go(d, "undo") /\ "undo" \in Steps
    BY <1>4 DEF Steps
  <2>2. /\ op' \in [Driver -> OpSet] /\ op'[d] = [op[d] EXCEPT !.at = "undo"]
        /\ \A e \in Driver \ {d} : op'[e] = op[e]
    BY <1>1, <2>1, GoRow
  <2>3. BusOK'
    BY <1>1, <1>2, <1>4, <2>2 DEF BusOK, Selected, OpSet
  <2>4. Fine(d)'
    BY <1>1, <1>2, <1>4, <2>2
    DEF Fine, DriverOK, WiresOK, MoveOK, OpSet, DrvSet, Moving, Selected, Aware
  <2> QED
    BY <1>1, <1>2, <1>4, <2>2, <2>3, <2>4, SdTypes, FaultCounts, StepKeeps DEF AnswerSet
<1> QED
  BY <1>3, <1>4 DEF Wires

\* A start that fails releases the card.
LEMMA UndoKeeps ==
  ASSUME SdInv, NEW d \in Driver, Undo(d)
  PROVE  SdInv'
<1>1. /\ SdTyped /\ BusOK /\ \A e \in Driver : Fine(e)
      /\ op[d] \in OpSet /\ drv[d] \in DrvSet
      /\ drv \in [Driver -> DrvSet] /\ op \in [Driver -> OpSet]
  BY SdTypes DEF SdInv
<1>2. /\ op[d].at = "undo" /\ drv[d].fd /\ Deselect(d) /\ StartFails(d)
      /\ UNCHANGED <<slot, wide, known, holder, swaps>>
  BY <1>1 DEF Undo, Undone, At, Fine, DriverOK, Selected
<1>3. /\ op' \in [Driver -> OpSet] /\ op'[d] = Resting /\ answer' \in AnswerSet
      /\ drv' \in [Driver -> DrvSet] /\ Fine(d)'
      /\ \A e \in Driver \ {d} : op'[e] = op[e] /\ drv'[e] = drv[e]
  BY <1>1, <1>2, StartFailsRow
<1>4. BusOK'
  BY <1>1, <1>2, <1>3, DeselectCard DEF BusOK
<1> QED
  BY <1>1, <1>2, <1>3, <1>4, SdTypes, DeselectCard, StepKeeps

\* A start that succeeds.
LEMMA DoneKeeps ==
  ASSUME SdInv, NEW d \in Driver, Done(d)
  PROVE  SdInv'
<1>1. /\ SdTyped /\ BusOK /\ \A e \in Driver : Fine(e)
      /\ op[d] \in OpSet /\ drv[d] \in DrvSet
      /\ drv \in [Driver -> DrvSet] /\ op \in [Driver -> OpSet]
  BY SdTypes DEF SdInv
<1>2. /\ op[d].at = "done" /\ drv[d].fd /\ Deselect(d) /\ Return(d, TRUE, None)
      /\ UNCHANGED <<slot, wide, known, holder, swaps>>
  BY <1>1 DEF Done, At, Fine, DriverOK, Selected
<1>3. /\ op' \in [Driver -> OpSet] /\ op'[d] = Resting /\ answer' \in AnswerSet
      /\ \A e \in Driver \ {d} : op'[e] = op[e]
  BY <1>1, <1>2, ReturnRow DEF Got
<1>4. /\ [drv[d] EXCEPT !.initialized = TRUE, !.up = TRUE] \in DrvSet
      /\ drv' = [drv EXCEPT ![d] = [drv[d] EXCEPT !.initialized = TRUE, !.up = TRUE]]
  BY <1>1 DEF Done, DrvSet
<1>5. /\ drv' \in [Driver -> DrvSet]
      /\ drv'[d] = [drv[d] EXCEPT !.initialized = TRUE, !.up = TRUE]
      /\ \A e \in Driver \ {d} : drv'[e] = drv[e]
  BY <1>1, <1>4, DrvRow
<1>6. BusOK'
  BY <1>1, <1>2, <1>3, DeselectCard DEF BusOK
<1>7. Fine(d)'
  <2>1. card'.wide = card.wide
    BY <1>1, <1>2, DeselectCard
  <2> QED
    BY <1>1, <1>2, <1>3, <1>5, <2>1, RestingRow
    DEF Fine, DriverOK, WiresOK, MoveOK, DrvSet, Moving, Selected, Aware
<1> QED
  BY <1>1, <1>2, <1>3, <1>5, <1>6, <1>7, SdTypes, DeselectCard, StepKeeps

\* A transfer that failed is tried again, or given up.
LEMMA AgainRow ==
  ASSUME SdTyped, NEW d \in Driver, Fine(d), op[d].at \in Moving, op[d].got = None, Again(d),
         slot' = slot, holder' = holder, wide' = wide, card'.wide = card.wide, drv' = drv
  PROVE  /\ op' \in [Driver -> OpSet] /\ op'[d].at \in {"idle", "select"}
         /\ \A e \in Driver \ {d} : op'[e] = op[e]
         /\ answer' \in AnswerSet /\ Fine(d)'
<1>1. op[d] \in OpSet /\ op \in [Driver -> OpSet] /\ drv[d] \in DrvSet
  BY SdTypes
<1>2. CASE op[d].left = 1
  <2>1. Return(d, FALSE, None) /\ None \in Got
    BY <1>2 DEF Again, Got
  <2>2. /\ op' \in [Driver -> OpSet] /\ op'[d] = Resting /\ answer' \in AnswerSet
        /\ \A e \in Driver \ {d} : op'[e] = op[e]
    BY <2>1, ReturnRow
  <2>3. Fine(d)'
    BY <2>2, RestingRow DEF Fine, DriverOK, WiresOK, MoveOK, Moving, Selected, Aware
  <2> QED
    BY <2>2, <2>3, RestingRow
<1>3. CASE op[d].left # 1
  <2> DEFINE row == [op[d] EXCEPT !.left = op[d].left - 1, !.at = "select", !.twin = FALSE]
  <2>1. op' = [op EXCEPT ![d] = row] /\ answer' = answer
    BY <1>1, <1>3 DEF Again
  <2>2. op[d].left # 0
    BY DEF Fine, MoveOK
  <2>3. op[d].left - 1 \in 0 .. Tries /\ op[d].left - 1 # 0
    BY <1>1, <1>3, <2>2, SdCardAssumption DEF OpSet
  <2>4. row \in OpSet
    BY <1>1, <2>3 DEF OpSet, Steps
  <2>5. /\ row.at = "select" /\ row.left = op[d].left - 1 /\ row.got = op[d].got
        /\ row.mult = op[d].mult
    BY <1>1 DEF OpSet
  <2> HIDE DEF row
  <2>6. op' \in [Driver -> OpSet] /\ op'[d] = row /\ \A e \in Driver \ {d} : op'[e] = op[e]
    BY <1>1, <2>1, <2>4, OpRow
  <2>7. Fine(d)'
    BY <2>3, <2>5, <2>6 DEF Fine, DriverOK, WiresOK, MoveOK, Moving, Selected, Aware
  <2> QED
    BY <2>1, <2>5, <2>6, <2>7, SdTypes DEF AnswerSet
<1> QED
  BY <1>2, <1>3

\* A transfer selects the card.
LEMMA SelectKeeps ==
  ASSUME SdInv, NEW d \in Driver, Select(d)
  PROVE  SdInv'
<1>1. /\ SdTyped /\ BusOK /\ \A e \in Driver : Fine(e)
      /\ op[d] \in OpSet /\ drv[d] \in DrvSet
      /\ drv \in [Driver -> DrvSet] /\ op \in [Driver -> OpSet]
  BY SdTypes DEF SdInv
<1>2. /\ op[d].at = "select" /\ op[d].got = None
      /\ UNCHANGED <<slot, wide, known, holder, drv, swaps>>
  BY <1>1 DEF Select, At, Fine, MoveOK
<1>3. CASE /\ Selects(d) /\ Works
           /\ card' = [card EXCEPT !.st = "tran"]
           /\ op' = [op EXCEPT ![d].at = "transfer", ![d].twin = slot # drv[d].of]
           /\ UNCHANGED answer
  <2> DEFINE row == [op[d] EXCEPT !.at = "transfer", !.twin = slot # drv[d].of]
  <2>1. /\ row \in OpSet /\ row.at = "transfer" /\ (row.twin <=> slot # drv[d].of)
        /\ row.left = op[d].left /\ row.got = op[d].got /\ row.mult = op[d].mult
    BY <1>1 DEF OpSet, Steps
  <2>2. op' = [op EXCEPT ![d] = row]
    BY <1>1, <1>3
  <2> HIDE DEF row
  <2>3. op' \in [Driver -> OpSet] /\ op'[d] = row /\ \A e \in Driver \ {d} : op'[e] = op[e]
    BY <1>1, <2>1, <2>2, OpRow
  <2>4. /\ card' \in CardSet /\ card'.st = "tran" /\ card'.wide = card.wide /\ card'.rca = card.rca
        /\ slot # None /\ drv[d].fd /\ card.rca # None /\ drv[d].of # None
    BY <1>1, <1>3, SdTypes DEF CardSet, Selects, HasAddress, Reaches, BusOK, Fine, DriverOK
  <2>5. BusOK'
    BY <1>1, <1>2, <2>1, <2>3, <2>4 DEF BusOK, Selected
  <2>6. Fine(d)'
    BY <1>1, <1>2, <2>1, <2>3, <2>4 DEF Fine, DriverOK, WiresOK, MoveOK, Moving, Selected, Aware
  <2> QED
    BY <1>1, <1>2, <1>3, <2>3, <2>4, <2>5, <2>6, SdTypes, FaultCounts, StepKeeps DEF AnswerSet
<1>4. CASE SelectFails(d) /\ NotSelected(d)
  <2>1. /\ op' \in [Driver -> OpSet] /\ op'[d].at \in {"idle", "select"} /\ Fine(d)'
        /\ answer' \in AnswerSet /\ \A e \in Driver \ {d} : op'[e] = op[e]
    BY <1>1, <1>2, <1>4, SelectFailsCard, AgainRow DEF NotSelected, Moving
  <2>2. BusOK'
    BY <1>1, <1>2, <1>4, <2>1, SelectFailsCard DEF BusOK, Selected
  <2> QED
    BY <1>1, <1>2, <1>4, <2>1, <2>2, SdTypes, SelectFailsCard, StepKeeps
<1> QED
  BY <1>3, <1>4 DEF Select

\* A transfer releases the card, and ends or is tried again.
LEMMA ReleaseKeeps ==
  ASSUME SdInv, NEW d \in Driver, Release(d)
  PROVE  SdInv'
<1>1. /\ SdTyped /\ BusOK /\ \A e \in Driver : Fine(e)
      /\ op[d] \in OpSet /\ drv[d] \in DrvSet
      /\ drv \in [Driver -> DrvSet] /\ op \in [Driver -> OpSet]
  BY SdTypes DEF SdInv
<1>2. /\ op[d].at = "release" /\ drv[d].fd /\ Deselect(d)
      /\ UNCHANGED <<slot, wide, known, holder, drv, swaps>>
  BY <1>1 DEF Release, At, Fine, DriverOK, Selected
<1>3. BusOK'
  BY <1>1, <1>2, DeselectCard DEF BusOK
<1>4. CASE op[d].got # None
  <2>1. Return(d, TRUE, op[d].got) /\ op[d].got \in Got
    BY <1>1, <1>4 DEF Release, OpSet
  <2>2. /\ op' \in [Driver -> OpSet] /\ op'[d] = Resting /\ answer' \in AnswerSet
        /\ \A e \in Driver \ {d} : op'[e] = op[e]
    BY <1>1, <2>1, ReturnRow
  <2>3. card'.wide = card.wide
    BY <1>1, <1>2, DeselectCard
  <2>4. Fine(d)'
    BY <1>1, <1>2, <2>2, <2>3, RestingRow
    DEF Fine, DriverOK, WiresOK, MoveOK, Moving, Selected, Aware
  <2> QED
    BY <1>1, <1>2, <1>3, <2>2, <2>4, SdTypes, DeselectCard, StepKeeps
<1>5. CASE op[d].got = None
  <2>1. /\ op' \in [Driver -> OpSet] /\ Fine(d)'
        /\ answer' \in AnswerSet /\ \A e \in Driver \ {d} : op'[e] = op[e]
    BY <1>1, <1>2, <1>5, DeselectCard, AgainRow DEF Release, Moving
  <2> QED
    BY <1>1, <1>2, <1>3, <2>1, SdTypes, DeselectCard, StepKeeps
<1> QED
  BY <1>4, <1>5

\* A transfer begins.
LEMMA MoveKeeps ==
  ASSUME SdInv, NEW d \in Driver, NEW by \in Caller, NEW sector \in Nat, Move(d, by, sector)
  PROVE  SdInv'
<1>1. /\ SdTyped /\ BusOK /\ \A e \in Driver : Fine(e)
      /\ op[d] \in OpSet /\ drv[d] \in DrvSet
      /\ drv \in [Driver -> DrvSet] /\ op \in [Driver -> OpSet]
  BY SdTypes DEF SdInv
<1>2. /\ op[d].at = "idle"
      /\ UNCHANGED <<slot, card, wide, known, holder, drv, answer, faults, swaps>>
      /\ op' = [op EXCEPT ![d] = Asking("select", by, sector, Tries)]
  BY DEF Move, At, bus, budget
<1>3. "select" \in Steps /\ Tries \in 0 .. Tries /\ Tries # 0
  BY SdCardAssumption DEF Steps
<1>4. /\ op' \in [Driver -> OpSet] /\ op'[d].at = "select" /\ op'[d].got = None
      /\ op'[d].left = Tries /\ op'[d].mult = 0
      /\ \A e \in Driver \ {d} : op'[e] = op[e]
  BY <1>1, <1>2, <1>3, AskingRow, OpRow
<1>5. BusOK'
  BY <1>1, <1>2, <1>4 DEF BusOK, Selected
<1>6. Fine(d)'
  BY <1>1, <1>2, <1>3, <1>4 DEF Fine, DriverOK, WiresOK, MoveOK, Moving, Selected, Aware
<1> QED
  BY <1>1, <1>2, <1>4, <1>5, <1>6, SdTypes, StepKeeps DEF AnswerSet

\* A driver is shut down.
LEMMA ShutdownKeeps ==
  ASSUME SdInv, NEW d \in Driver, Shutdown(d)
  PROVE  SdInv'
<1>1. /\ SdTyped /\ BusOK /\ \A e \in Driver : Fine(e)
      /\ op[d] \in OpSet /\ drv[d] \in DrvSet
      /\ drv \in [Driver -> DrvSet] /\ op \in [Driver -> OpSet]
  BY SdTypes DEF SdInv
<1>2. op[d].at = "idle" /\ UNCHANGED <<slot, card, wide, known, holder, op, answer, faults, swaps>>
  BY DEF Shutdown, At, bus, budget
<1> DEFINE row == [drv[d] EXCEPT !.fd = FALSE, !.up = FALSE, !.initialized = FALSE]
<1>3. row \in DrvSet /\ drv' = [drv EXCEPT ![d] = row]
  BY <1>1 DEF Shutdown, Deinitialized, DrvSet
<1>4. row.fd = FALSE /\ row.up = FALSE /\ row.rca = drv[d].rca /\ row.of = drv[d].of
  BY <1>1 DEF DrvSet
<1> HIDE DEF row
<1>5. /\ drv' \in [Driver -> DrvSet] /\ drv'[d] = row
      /\ \A e \in Driver \ {d} : drv'[e] = drv[e]
  BY <1>1, <1>3, DrvRow
<1>6. BusOK'
  BY <1>1, <1>2 DEF BusOK
<1>7. Fine(d)'
  BY <1>1, <1>2, <1>4, <1>5 DEF Fine, DriverOK, WiresOK, MoveOK, Moving, Selected, Aware
<1> QED
  BY <1>1, <1>2, <1>5, <1>6, <1>7, SdTypes, StepKeeps DEF AnswerSet

\* The command of a transfer: the sector that it moves is the one asked for, or the
\* card counts in bytes and this is not the first attempt.
LEMMA TransferKeeps ==
  ASSUME SdInv, NEW d \in Driver, Transfer(d)
  PROVE  SdInv'
<1>1. /\ SdTyped /\ BusOK /\ \A e \in Driver : Fine(e)
      /\ op[d] \in OpSet /\ drv[d] \in DrvSet
      /\ drv \in [Driver -> DrvSet] /\ op \in [Driver -> OpSet]
  BY SdTypes DEF SdInv
<1>2. PICK got \in Got :
        /\ op' = [op EXCEPT ![d].mult = Multiplied(d), ![d].got = got, ![d].at = "release"]
        /\ \/ /\ Reaches(d, {"tran"}) /\ wide = card.wide /\ Works
              /\ got = [right |-> Aims(d) /\ slot = drv[d].of,
                        again |-> slot \notin Sdhc /\ op[d].mult > 0, twin |-> op[d].twin]
           \/ /\ got = None
              /\ IF wide = card.wide /\ Aims(d) THEN Fails(d, {"tran"}) ELSE Works
  BY DEF Transfer
<1>3. op[d].at = "transfer" /\ UNCHANGED <<bus, drv, answer, swaps>>
  BY DEF Transfer, At
<1>4. Multiplied(d) \in 0 .. 2 /\ (drv[d].sdhc => Multiplied(d) = op[d].mult)
      /\ (~drv[d].sdhc /\ op[d].mult = 0 => Multiplied(d) = 1)
  BY <1>1 DEF Multiplied, OpSet
<1>5. /\ drv[d].fd /\ (slot # None => (op[d].twin <=> slot # drv[d].of))
      /\ drv[d].of # None /\ drv[d].read => (drv[d].sdhc <=> drv[d].of \in Sdhc)
      /\ op[d].left # 0 /\ (drv[d].sdhc => op[d].mult = 0) /\ op[d].mult \in 0 .. 2
  BY <1>1, <1>3 DEF Fine, DriverOK, MoveOK, Selected, Aware, Moving, OpSet
<1>6. got # None => got.right \/ got.again \/ got.twin \/ ~drv[d].read
  <2> SUFFICES ASSUME got # None, ~op[d].twin, drv[d].read
               PROVE  got.right \/ got.again
    BY <1>2
  <2>1. /\ Reaches(d, {"tran"})
        /\ got.right <=> Aims(d) /\ slot = drv[d].of
        /\ got.again <=> slot \notin Sdhc /\ op[d].mult > 0
    <3>1. /\ Reaches(d, {"tran"})
          /\ got = [right |-> Aims(d) /\ slot = drv[d].of,
                    again |-> slot \notin Sdhc /\ op[d].mult > 0, twin |-> op[d].twin]
      BY <1>2
    <3>2. got.right <=> Aims(d) /\ slot = drv[d].of
      BY <3>1
    <3>3. got.again <=> slot \notin Sdhc /\ op[d].mult > 0
      BY <3>1
    <3> QED
      BY <3>1, <3>2, <3>3
  <2>2. slot # None /\ slot = drv[d].of /\ (drv[d].sdhc <=> slot \in Sdhc)
    BY <1>5, <2>1 DEF Reaches
  <2>3. CASE slot \in Sdhc
    BY <1>4, <1>5, <2>1, <2>2, <2>3 DEF Aims
  <2>4. CASE slot \notin Sdhc /\ op[d].mult = 0
    BY <1>4, <1>5, <2>1, <2>2, <2>4 DEF Aims
  <2>5. CASE slot \notin Sdhc /\ op[d].mult # 0
    BY <1>5, <2>1, <2>5
  <2> QED
    BY <2>3, <2>4, <2>5
<1> DEFINE row == [op[d] EXCEPT !.mult = Multiplied(d), !.got = got, !.at = "release"]
<1>7. row \in OpSet /\ op' = [op EXCEPT ![d] = row]
  <2>1. row \in OpSet
    BY <1>1, <1>4 DEF OpSet, Steps
  <2>2. op' = [op EXCEPT ![d] = row]
    BY <1>1, <1>2
  <2> QED
    BY <2>1, <2>2
<1>8. /\ op' \in [Driver -> OpSet] /\ op'[d] = row
      /\ \A e \in Driver \ {d} : op'[e] = op[e]
  <2> HIDE DEF row
  <2> QED
    BY <1>1, <1>7, OpRow
<1>9. faults' \in 0 .. MaxFault
  BY <1>1, <1>2, SdTypes, FaultCounts
<1>10. SdTyped'
  BY <1>1, <1>3, <1>8, <1>9, SdTypes, SdTypedFrom DEF bus
<1>11. op'[d].at = "release" /\ op'[d].left = op[d].left /\ op'[d].got = got /\ op'[d].mult = Multiplied(d)
  BY <1>1, <1>8 DEF OpSet
<1> HIDE DEF row
<1>12. BusOK'
  BY <1>1, <1>3, <1>11 DEF bus, BusOK, Selected
<1>13. ASSUME NEW e \in Driver
       PROVE  Fine(e)'
  <2>1. CASE e = d
    BY <1>1, <1>3, <1>4, <1>5, <1>6, <1>11, <2>1
    DEF bus, Fine, DriverOK, WiresOK, MoveOK, Moving, Selected, Aware
  <2>2. CASE e # d
    BY <1>1, <1>3, <1>8, <2>2 DEF bus, Fine, DriverOK, WiresOK, MoveOK
  <2> QED
    BY <2>1, <2>2
<1> QED
  BY <1>10, <1>12, <1>13 DEF SdInv

-----------------------------------------------------------------------------
(* The slot, the answer, and all steps *)

\* The card is taken out, and one is put in.
LEMMA TakeOutKeeps ==
  ASSUME SdInv, TakeOut
  PROVE  SdInv'
<1>1. SdTyped /\ BusOK /\ \A e \in Driver : Fine(e)
  BY DEF SdInv
<1>2. /\ slot' = None /\ card' = Unidentified /\ known' = FALSE /\ holder' = None
      /\ swaps' = swaps + 1 /\ swaps < MaxSwap /\ UNCHANGED <<wide, drv, op, answer, faults>>
  BY DEF TakeOut
<1>3. SdTyped'
  <2>1. Unidentified \in CardSet
    BY DEF CardSet, Unidentified
  <2>2. swaps' \in 0 .. MaxSwap
    BY <1>1, <1>2, SdTypes, SdCardAssumption
  <2> QED
    BY <1>1, <1>2, <2>1, <2>2, SdTypes, SdTypedFrom
<1>4. BusOK'
  BY <1>2 DEF BusOK, Unidentified
<1>5. ASSUME NEW e \in Driver
      PROVE  Fine(e)'
  BY <1>1, <1>2, SdCardAssumption DEF Fine, DriverOK, WiresOK, MoveOK
<1> QED
  BY <1>3, <1>4, <1>5 DEF SdInv

\* A card in the slot.
LEMMA PutInKeeps ==
  ASSUME SdInv, NEW c \in Card, PutIn(c)
  PROVE  SdInv'
<1>1. SdTyped /\ BusOK /\ \A e \in Driver : Fine(e)
  BY DEF SdInv
<1>2. /\ slot = None /\ slot' = c /\ \A d \in Driver : op[d].at = "idle"
      /\ UNCHANGED <<card, wide, known, holder, drv, op, answer, budget>>
  BY DEF PutIn
<1>3. SdTyped'
  BY <1>1, <1>2, SdTypes, SdTypedFrom DEF budget
<1>4. BusOK'
  BY <1>1, <1>2 DEF BusOK
<1>5. ASSUME NEW e \in Driver
      PROVE  Fine(e)'
  BY <1>1, <1>2 DEF Fine, DriverOK, WiresOK, MoveOK, Selected
<1> QED
  BY <1>3, <1>4, <1>5 DEF SdInv

\* The DIP plugin takes the answer, and steps that do not touch the card.
LEMMA AnswerTaken ==
  ASSUME SdInv, answer' = None \/ answer' = answer, UNCHANGED <<bus, drv, op, budget>>
  PROVE  SdInv'
<1>1. SdTyped /\ BusOK /\ \A e \in Driver : Fine(e)
  BY DEF SdInv
<1>2. SdTyped'
  BY <1>1, SdTypes, SdTypedFrom DEF bus, budget
<1>3. BusOK'
  BY <1>1 DEF BusOK, bus
<1>4. ASSUME NEW e \in Driver
      PROVE  Fine(e)'
  BY <1>1 DEF Fine, DriverOK, WiresOK, MoveOK, bus
<1> QED
  BY <1>2, <1>3, <1>4 DEF SdInv

\* Every step of a driver.
LEMMA DriverStepKeeps ==
  ASSUME SdInv, NEW d \in Driver, DriverStep(d)
  PROVE  SdInv'
BY ResetKeeps, StatusKeeps, HostKeeps, IdentifyKeeps, AddressKeeps, WidthKeeps, PickKeeps,
   LengthKeeps, WiresKeeps, UndoKeeps, DoneKeeps, SelectKeeps, TransferKeeps, ReleaseKeeps
DEF DriverStep, Start

\* Who waits for an answer: a step of a driver answers the DIP plugin, and nobody
\* else, when it ends what it does for it.
LEMMA DriverStepAnswers ==
  ASSUME SdInv, NEW d \in Driver, DriverStep(d)
  PROVE  /\ \A e \in Driver \ {d} : op'[e] = op[e]
         /\ \/ op'[d].by = op[d].by /\ answer' = answer
            \/ op'[d].by = None /\ (op[d].by # "dip" => answer' = answer)
<1>1. op \in [Driver -> OpSet]
  BY SdTypes DEF SdInv
<1>2. ASSUME NEW step \in Steps, Go(d, step), answer' = answer
      PROVE  (\A e \in Driver \ {d} : op'[e] = op[e]) /\ op'[d].by = op[d].by
  <2>1. op[d] \in OpSet
    BY <1>1
  <2> QED
    BY <1>1, <1>2, <2>1, GoRow DEF OpSet
<1>3. ASSUME NEW ok, NEW got, Return(d, ok, got)
      PROVE  /\ \A e \in Driver \ {d} : op'[e] = op[e]
             /\ op'[d].by = None /\ (op[d].by # "dip" => answer' = answer)
  <2>1. op' = [op EXCEPT ![d] = Resting] /\ (op[d].by # "dip" => answer' = answer)
    BY <1>3 DEF Return, Answer
  <2> QED
    BY <1>1, <2>1, RestingRow, OpRow
<1>4. ASSUME StartFails(d)
      PROVE  /\ \A e \in Driver \ {d} : op'[e] = op[e]
             /\ op'[d].by = None /\ (op[d].by # "dip" => answer' = answer)
  BY <1>3, <1>4 DEF StartFails, Abandons
<1>5. ASSUME Again(d)
      PROVE  /\ \A e \in Driver \ {d} : op'[e] = op[e]
             /\ \/ op'[d].by = op[d].by /\ answer' = answer
                \/ op'[d].by = None /\ (op[d].by # "dip" => answer' = answer)
  <2>1. CASE op[d].left = 1
    BY <1>3, <1>5, <2>1 DEF Again
  <2>2. CASE op[d].left # 1
    BY <1>1, <1>5, <2>2 DEF Again, OpSet
  <2> QED
    BY <2>1, <2>2
<1>6. CASE Start(d)
  <2>1. CASE Reset(d)
    BY <1>2, <2>1 DEF Reset, Steps
  <2>2. CASE Status(d)
    BY <1>2, <1>4, <2>2 DEF Status, Steps
  <2>3. CASE Host(d)
    BY <1>2, <1>3, <1>4, <2>3 DEF Host, Abandons, Steps
  <2>4. CASE Identify(d)
    BY <1>2, <1>4, <2>4 DEF Identify, HostFails, Steps
  <2>5. CASE Address(d)
    BY <1>2, <1>4, <2>5 DEF Address, HostFails, Steps
  <2>6. CASE Width(d)
    BY <1>2, <1>4, <2>6 DEF Width, Steps
  <2>7. CASE Pick(d)
    BY <1>2, <1>4, <2>7 DEF Pick, Steps
  <2>8. CASE Length(d)
    BY <1>2, <2>8 DEF Length, Steps
  <2>9. CASE Wires(d)
    BY <1>2, <2>9 DEF Wires, Steps
  <2>10. CASE Undo(d)
    BY <1>4, <2>10 DEF Undo
  <2>11. CASE Done(d)
    BY <1>3, <2>11 DEF Done
  <2> QED
    BY <1>6, <2>1, <2>2, <2>3, <2>4, <2>5, <2>6, <2>7, <2>8, <2>9, <2>10, <2>11 DEF Start
<1>7. CASE Select(d)
  <2>1. CASE /\ op' = [op EXCEPT ![d].at = "transfer", ![d].twin = slot # drv[d].of]
             /\ answer' = answer
    BY <1>1, <2>1 DEF OpSet
  <2>2. CASE Again(d)
    BY <1>5, <2>2
  <2> QED
    BY <1>7, <2>1, <2>2 DEF Select, NotSelected
<1>8. CASE Transfer(d)
  BY <1>1, <1>8 DEF Transfer, OpSet
<1>9. CASE Release(d)
  BY <1>3, <1>5, <1>9 DEF Release
<1> QED
  BY <1>6, <1>7, <1>8, <1>9 DEF DriverStep

-----------------------------------------------------------------------------
(* The inductive invariant of the reads *)

\* The plugin's variables.
DipTyped ==
  /\ list \in FragLists \cup {None} /\ fd \in BOOLEAN
  /\ dip = [todo |-> dip.todo, ok |-> dip.ok, lost |-> dip.lost, req |-> dip.req, data |-> dip.data]
  /\ dip.todo \in Seq(PartSet) /\ dip.ok \in BOOLEAN /\ dip.lost \in BOOLEAN
  /\ dip.req \in Request \cup DvdRequest \cup {None}

\* The plugin waits for one thing at a time, and for the part that comes next.
Waiting == answer # None \/ op["sdhc"].by = "dip"
AskOK ==
  /\ op["fat"].by # "dip"
  /\ answer # None => op["sdhc"].by # "dip"
  /\ dip.req # None /\ Waiting => dip.todo # <<>> /\ Head(dip.todo).sector # None

\* The words up to a place have come, and what is left of the plan brings the
\* others.
Coming(r, todo, data) ==
  \E e \in 0 .. r.len :
    /\ Chained(todo, e, r.len) /\ Takes(todo, Words, Wanted(r)) /\ data = Come(Wanted(r), r.len, e)
ReadOK ==
  /\ dip.req = None \/ dip.req \in DvdRequest => dip.todo = <<>>
  /\ dip.req \in Request => list # None
  /\ dip.req # None /\ dip.ok /\ ~dip.lost =>
       /\ Coming(dip.req, dip.todo, dip.data)
       /\ dip.req \in Request => dip.req.offset + dip.req.len <= list.size * Words

DiscInv == SdInv /\ DipTyped /\ AskOK /\ ReadOK

-----------------------------------------------------------------------------
(* What a read asks for *)

\* A read of fragments is not one of the drive.
LEMMA RequestsDiffer == Request \cap DvdRequest = {}
<1> SUFFICES ASSUME NEW r \in Request, r \in DvdRequest
             PROVE  FALSE
  OBVIOUS
<1>1. r \in [src : {"usb", "sd"}, offset : Nat, len : Nat \ {0}]
  BY DiscAssumption
<1>2. r \in [offset : Nat, len : Nat \ {0}, buffer : Nat]
  BY DiscAssumption
<1>3. DOMAIN r = {"src", "offset", "len"}
  BY <1>1
<1>4. DOMAIN r = {"offset", "len", "buffer"}
  BY <1>2
<1> QED
  BY <1>3, <1>4

\* The fields of a request.
LEMMA RequestType ==
  /\ \A r \in Request : r.offset \in Nat /\ r.len \in Nat \ {0} /\ r.src \in {"usb", "sd"} /\ r # None
  /\ \A r \in DvdRequest :
       r.offset \in Nat /\ r.len \in Nat \ {0} /\ r.buffer \in Nat /\ r # None
BY DiscAssumption

\* The words that a read wants.
LEMMA WantedOf ==
  /\ \A r \in Request : /\ DOMAIN Wanted(r) = 1 .. r.len
                        /\ \A i \in 1 .. r.len : Wanted(r)[i] = ImageWord(list, r.offset + i - 1)
  /\ \A r \in DvdRequest :
       /\ DOMAIN Wanted(r) = 1 .. r.len
       /\ \A i \in 1 .. r.len :
            Wanted(r)[i] = <<(r.offset + i - 1) \div DvdWords, (r.offset + i - 1) % DvdWords>>
BY RequestsDiffer DEF Wanted

\* What is wanted does not change while the list does not.
LEMMA WantedStays ==
  ASSUME list' = list, NEW r
  PROVE  Wanted(r)' = Wanted(r)
BY DEF Wanted, ImageWord, Within, End

\* When all has come, the buffer has what is wanted.
LEMMA AllCame ==
  ASSUME NEW r \in Request \cup DvdRequest, NEW data, Coming(r, <<>>, data)
  PROVE  data = Wanted(r)
<1>1. PICK e \in 0 .. r.len : Chained(<<>>, e, r.len) /\ data = Come(Wanted(r), r.len, e)
  BY DEF Coming
<1>2. e = r.len
  BY <1>1 DEF Chained
<1>3. r.len \in Nat /\ DOMAIN Wanted(r) = 1 .. r.len
  BY RequestType, WantedOf
<1>4. Wanted(r) = [i \in 1 .. r.len |-> Wanted(r)[i]]
  BY <1>3 DEF Wanted
<1> QED
  BY <1>1, <1>2, <1>3, <1>4 DEF Come

\* Nothing has come yet.
LEMMA NothingCame ==
  ASSUME NEW len \in Nat, NEW w
  PROVE  Empty(len) = Come(w, len, 0)
BY DEF Empty, Come

-----------------------------------------------------------------------------
(* Each step of the plugin *)

\* Steps of the others do not touch the read.
LEMMA ReadStays ==
  ASSUME DipTyped, ReadOK, fd' \in BOOLEAN, UNCHANGED <<list, dip>>
  PROVE  DipTyped' /\ ReadOK'
<1>1. DipTyped'
  BY DEF DipTyped
<1>2. \A r : Wanted(r)' = Wanted(r)
  BY WantedStays
<1> QED
  BY <1>1, <1>2 DEF ReadOK, Coming

\* Nobody else asks for the plugin, and nobody else is answered.
LEMMA AskStays ==
  ASSUME SdInv, AskOK, dip' = dip, answer' = answer,
         op'["fat"].by # "dip", op'["sdhc"].by = op["sdhc"].by \/ op'["sdhc"].by # "dip"
  PROVE  AskOK'
BY DEF AskOK, Waiting

\* Frag_Init.
LEMMA FragInitKeeps ==
  ASSUME DiscInv, NEW l \in FragLists, FragInit(l)
  PROVE  DiscInv'
<1>1. /\ SdInv /\ DipTyped /\ AskOK /\ ReadOK /\ list' = l /\ dip' = dip /\ Free /\ fd' \in BOOLEAN
      /\ (Startup("sdhc", "dip") \/ UNCHANGED sdVars)
      /\ op \in [Driver -> OpSet]
  BY SdTypes DEF DiscInv, FragInit, DipTyped, SdInv
<1>2. SdInv'
  <2>1. CASE Startup("sdhc", "dip")
    BY <1>1, <2>1, StartupKeeps DEF Driver, Caller
  <2>2. CASE UNCHANGED sdVars
    BY <1>1, <2>2, AnswerTaken DEF sdVars
  <2> QED
    BY <1>1, <2>1, <2>2
<1>3. DipTyped'
  BY <1>1 DEF DipTyped
<1>4. AskOK'
  <2>1. CASE Startup("sdhc", "dip")
    <3>1. op'["fat"] = op["fat"]
      BY <1>1, <2>1 DEF Startup, Driver
    <3>2. answer' # None => op'["sdhc"].by # "dip"
      <4>1. answer' = answer \/ op' = op
        BY <2>1 DEF Startup
      <4> QED
        BY <1>1, <4>1 DEF Free
    <3> QED
      BY <1>1, <3>1, <3>2 DEF AskOK, Free
  <2>2. CASE UNCHANGED sdVars
    BY <1>1, <2>2 DEF AskOK, Waiting, sdVars
  <2> QED
    BY <1>1, <2>1, <2>2
<1>5. ReadOK'
  BY <1>1, RequestType DEF ReadOK, Free
<1> QED
  BY <1>2, <1>3, <1>4, <1>5 DEF DiscInv

\* The answer to SDHC_INIT is taken.
LEMMA InitAnsweredKeeps ==
  ASSUME DiscInv, InitAnswered
  PROVE  DiscInv'
<1>1. SdInv'
  BY AnswerTaken DEF DiscInv, InitAnswered
<1>2. DipTyped' /\ ReadOK'
  BY ReadStays DEF DiscInv, DipTyped, InitAnswered
<1>3. AskOK'
  BY DEF DiscInv, AskOK, InitAnswered
<1> QED
  BY <1>1, <1>2, <1>3 DEF DiscInv

\* Frag_Close.
LEMMA FragCloseKeeps ==
  ASSUME DiscInv, FragClose
  PROVE  DiscInv'
<1>1. SdInv'
  BY AnswerTaken DEF DiscInv, FragClose, sdVars
<1>2. DipTyped'
  BY DEF DiscInv, DipTyped, FragClose
<1>3. AskOK'
  BY DEF DiscInv, AskOK, Waiting, FragClose, sdVars
<1>4. ReadOK'
  BY RequestType DEF DiscInv, ReadOK, FragClose, Free
<1> QED
  BY <1>1, <1>2, <1>3, <1>4 DEF DiscInv

\* The plan of a read of fragments takes what is wanted, and lies within the image.
LEMMA PlanWanted ==
  ASSUME list \in FragLists, NEW r \in Request, FragPlan(list, r.offset, r.len).ok
  PROVE  LET plan == FragPlan(list, r.offset, r.len) IN
         /\ Chained(plan.parts, 0, r.len) /\ Takes(plan.parts, Words, Wanted(r))
         /\ r.offset + r.len <= list.size * Words
<1>1. r.offset \in Nat /\ r.len \in Nat \ {0} /\ r.len \in Nat
  BY RequestType
<1> DEFINE plan == FragPlan(list, r.offset, r.len)
<1>2. PlanFor(list, r.offset, plan, 0, r.len) /\ (plan.ok => r.offset + r.len <= list.size * Words)
  BY <1>1, FragPlanRight
<1>3. Chained(plan.parts, 0, r.len) /\ Right(list, r.offset, plan.parts)
  BY <1>2 DEF PlanFor
<1>4. \A i \in 1 .. r.len : Wanted(r)[i] = ImageWord(list, r.offset + i - 1)
  BY WantedOf
<1> HIDE DEF plan
<1>5. Takes(plan.parts, Words, Wanted(r))
  BY <1>1, <1>3, <1>4, RightTakes
<1> QED
  BY <1>2, <1>3, <1>5 DEF plan

\* A read from a USB disk.
LEMMA ReadUsbKeeps ==
  ASSUME DiscInv, NEW r \in Request, ReadUsb(r)
  PROVE  DiscInv'
<1> DEFINE plan == FragPlan(list, r.offset, r.len)
<1>1. /\ SdInv /\ DipTyped /\ AskOK /\ ReadOK /\ Free /\ list # None /\ list \in FragLists
      /\ UNCHANGED <<sdVars, list, fd>>
  BY DEF DiscInv, ReadUsb, DipTyped
<1>2. PICK n \in 0 .. Len(plan.parts) :
        dip' = [NoRead EXCEPT !.req = r, !.data = Buffers(plan.parts, Words, r.len, {})[n],
                              !.ok = n = Len(plan.parts) /\ plan.ok]
  BY DEF ReadUsb
<1>3. r.offset \in Nat /\ r.len \in Nat \ {0} /\ r.len \in Nat /\ r # None
  BY RequestType
<1>4. PlanFor(list, r.offset, plan, 0, r.len)
  BY <1>1, <1>3, FragPlanRight
<1>5. plan.ok \in BOOLEAN
  BY <1>4 DEF PlanFor, PlanSet
<1> HIDE DEF plan
<1>6. /\ dip' = [todo |-> <<>>, ok |-> n = Len(plan.parts) /\ plan.ok, lost |-> FALSE, req |-> r,
                data |-> Buffers(plan.parts, Words, r.len, {})[n]]
  BY <1>2 DEF NoRead
<1>7. SdInv'
  BY <1>1, AnswerTaken DEF sdVars
<1>8. DipTyped'
  BY <1>1, <1>5, <1>6 DEF DipTyped
<1>9. AskOK'
  BY <1>1, <1>6 DEF AskOK, Waiting, Free, sdVars
<1>10. ASSUME dip'.ok
       PROVE  Coming(r, <<>>, dip.data)' /\ r.offset + r.len <= list'.size * Words
  <2>1. plan.ok /\ dip'.data = Buffers(plan.parts, Words, r.len, {})[Len(plan.parts)]
    BY <1>6, <1>10
  <2>2. /\ Chained(plan.parts, 0, r.len) /\ Takes(plan.parts, Words, Wanted(r))
        /\ r.offset + r.len <= list.size * Words
    BY <1>1, <2>1, PlanWanted DEF plan
  <2>3. dip'.data = [i \in 1 .. r.len |-> Wanted(r)[i]]
    BY <1>3, <2>1, <2>2, BuffersRight
  <2>4. dip'.data = Come(Wanted(r), r.len, r.len)
    BY <1>3, <2>3 DEF Come
  <2>5. Chained(<<>>, r.len, r.len) /\ Takes(<<>>, Words, Wanted(r)) /\ r.len \in 0 .. r.len
    BY <1>3 DEF Chained, Takes
  <2>6. Wanted(r)' = Wanted(r) /\ list' = list
    BY <1>1, WantedStays
  <2> QED
    BY <2>2, <2>4, <2>5, <2>6 DEF Coming
<1>11. ReadOK'
  BY <1>1, <1>3, <1>6, <1>10 DEF ReadOK
<1> QED
  BY <1>7, <1>8, <1>9, <1>11 DEF DiscInv

\* A read from the drive.
LEMMA ReadDvdKeeps ==
  ASSUME DiscInv, NEW r \in DvdRequest, ReadDvd(r)
  PROVE  DiscInv'
<1> DEFINE parts == DvdPlan(r.offset, r.len, r.buffer).parts
<1>1. /\ SdInv /\ DipTyped /\ AskOK /\ ReadOK /\ Free /\ list = None
      /\ UNCHANGED <<sdVars, list, fd>>
  BY DEF DiscInv, ReadDvd
<1>2. PICK bad \in SUBSET DOMAIN parts :
        dip' = [NoRead EXCEPT !.req = r,
                  !.data = Buffers(parts, DvdWords, r.len, bad)[Len(parts)],
                  !.ok = Len(parts) \notin bad, !.lost = bad # {}]
  BY DEF ReadDvd
<1>3. r.offset \in Nat /\ r.len \in Nat \ {0} /\ r.len \in Nat /\ r.buffer \in Nat /\ r # None
  BY RequestType
<1>4. \A i \in 1 .. r.len :
        Wanted(r)[i] = <<(r.offset + i - 1) \div DvdWords, (r.offset + i - 1) % DvdWords>>
  BY WantedOf
<1>5. Chained(parts, 0, r.len) /\ Takes(parts, DvdWords, Wanted(r))
  BY <1>3, <1>4, DvdPlanRight
<1> HIDE DEF parts
<1>6. dip' = [todo |-> <<>>, ok |-> Len(parts) \notin bad, lost |-> bad # {}, req |-> r,
              data |-> Buffers(parts, DvdWords, r.len, bad)[Len(parts)]]
  BY <1>2 DEF NoRead
<1>7. SdInv'
  BY <1>1, AnswerTaken DEF sdVars
<1>8. DipTyped'
  BY <1>1, <1>6 DEF DipTyped
<1>9. AskOK'
  BY <1>1, <1>6 DEF AskOK, Waiting, Free, sdVars
<1>10. ASSUME ~dip'.lost
       PROVE  Coming(r, <<>>, dip.data)'
  <2>1. dip'.data = Buffers(parts, DvdWords, r.len, {})[Len(parts)]
    BY <1>6, <1>10
  <2>2. dip'.data = [i \in 1 .. r.len |-> Wanted(r)[i]]
    BY <1>3, <1>5, <2>1, BuffersRight
  <2>3. dip'.data = Come(Wanted(r), r.len, r.len)
    BY <1>3, <2>2 DEF Come
  <2>4. Chained(<<>>, r.len, r.len) /\ Takes(<<>>, Words, Wanted(r)) /\ r.len \in 0 .. r.len
    BY <1>3 DEF Chained, Takes
  <2>5. Wanted(r)' = Wanted(r)
    BY <1>1, WantedStays
  <2> QED
    BY <2>3, <2>4, <2>5 DEF Coming
<1>11. ReadOK'
  BY <1>1, <1>3, <1>6, <1>10, RequestsDiffer DEF ReadOK
<1> QED
  BY <1>7, <1>8, <1>9, <1>11 DEF DiscInv

\* A read from an SD card begins.
LEMMA ReadSdKeeps ==
  ASSUME DiscInv, NEW r \in Request, ReadSd(r)
  PROVE  DiscInv'
<1> DEFINE plan == FragPlan(list, r.offset, r.len)
<1>1. /\ SdInv /\ DipTyped /\ AskOK /\ ReadOK /\ Free /\ list # None /\ list \in FragLists
      /\ UNCHANGED <<sdVars, list, fd>>
  BY DEF DiscInv, ReadSd, DipTyped
<1>2. dip' = [todo |-> plan.parts, ok |-> plan.ok, lost |-> FALSE, req |-> r, data |-> Empty(r.len)]
  BY DEF ReadSd
<1>3. r.offset \in Nat /\ r.len \in Nat \ {0} /\ r.len \in Nat /\ r # None
  BY RequestType
<1>4. PlanFor(list, r.offset, plan, 0, r.len)
  BY <1>1, <1>3, FragPlanRight
<1>5. plan.ok \in BOOLEAN /\ plan.parts \in Seq(PartSet)
  BY <1>4 DEF PlanFor, PlanSet
<1>6. plan.ok => /\ Chained(plan.parts, 0, r.len) /\ Takes(plan.parts, Words, Wanted(r))
                 /\ r.offset + r.len <= list.size * Words
  BY <1>1, PlanWanted
<1> HIDE DEF plan
<1>7. SdInv'
  BY <1>1, AnswerTaken DEF sdVars
<1>8. DipTyped'
  BY <1>1, <1>2, <1>5 DEF DipTyped
<1>9. AskOK'
  BY <1>1, <1>2 DEF AskOK, Waiting, Free, sdVars
<1>10. ASSUME dip'.ok
       PROVE  Coming(r, dip.todo, dip.data)' /\ r.offset + r.len <= list'.size * Words
  <2>1. dip'.data = Come(Wanted(r), r.len, 0) /\ 0 \in 0 .. r.len
    BY <1>2, <1>3, NothingCame
  <2>2. Wanted(r)' = Wanted(r) /\ list' = list
    BY <1>1, WantedStays
  <2>3. plan.ok /\ dip'.todo = plan.parts
    BY <1>2, <1>10
  <2> QED
    BY <1>6, <2>1, <2>2, <2>3 DEF Coming
<1>11. ReadOK'
  BY <1>1, <1>2, <1>3, <1>10, RequestsDiffer DEF ReadOK
<1> QED
  BY <1>7, <1>8, <1>9, <1>11 DEF DiscInv

\* A part that is read as the plan says brings the words up to its end.
LEMMA PartComes ==
  ASSUME NEW r \in Request, dip.todo # <<>>, Coming(r, dip.todo, dip.data),
         dip'.todo = Tail(dip.todo), dip'.data = Filled(dip.data, Head(dip.todo), Words),
         list' = list
  PROVE  Coming(r, dip.todo, dip.data)'
<1>1. PICK e \in 0 .. r.len : /\ Chained(dip.todo, e, r.len) /\ Takes(dip.todo, Words, Wanted(r))
                              /\ dip.data = Come(Wanted(r), r.len, e)
  BY DEF Coming
<1>2. r.len \in Nat /\ e \in Nat
  BY RequestType
<1> DEFINE part == Head(dip.todo)
<1>3. /\ part \in PartSet /\ part = dip.todo[1] /\ part.at = e /\ e + part.n <= r.len
      /\ Chained(Tail(dip.todo), e + part.n, r.len)
  BY <1>1, <1>2, ChainedTail
<1>4. dip.todo \in Seq(PartSet) /\ 1 \in DOMAIN dip.todo
  BY <1>1 DEF Chained
<1>5. /\ Takes(Tail(dip.todo), Words, Wanted(r))
      /\ \A k \in 0 .. part.n - 1 : Source(part, Words, k) = Wanted(r)[part.at + k + 1]
  BY <1>1, <1>4, TakesTail
<1>6. part.n \in Nat /\ e + part.n \in 0 .. r.len /\ part.at + part.n <= r.len
  BY <1>2, <1>3 DEF PartSet
<1>7. Filled(Come(Wanted(r), r.len, part.at), part, Words) = Come(Wanted(r), r.len, part.at + part.n)
  <2> DEFINE w   == Wanted(r)
             len == r.len
  <2>1. \A k \in 0 .. part.n - 1 : Source(part, Words, k) = w[part.at + k + 1]
    BY <1>5
  <2>2. len \in Nat /\ part \in PartSet /\ part.at + part.n <= len
    BY <1>2, <1>3, <1>6
  <2> HIDE DEF w, len, part
  <2>3. Filled(Come(w, len, part.at), part, Words) = Come(w, len, part.at + part.n)
    BY <2>1, <2>2, FilledRight
  <2> QED
    BY <2>3 DEF w, len
<1> HIDE DEF part
<1>8. dip'.data = Come(Wanted(r), r.len, e + part.n)
  BY <1>1, <1>3, <1>7 DEF part
<1>9. Wanted(r)' = Wanted(r)
  BY WantedStays
<1> QED
  BY <1>3, <1>5, <1>6, <1>8, <1>9 DEF Coming

\* A part of zeros.
LEMMA SdZerosKeeps ==
  ASSUME DiscInv, SdZeros
  PROVE  DiscInv'
<1>1. /\ SdInv /\ DipTyped /\ AskOK /\ ReadOK /\ dip.todo # <<>> /\ Head(dip.todo).sector = None
      /\ UNCHANGED <<sdVars, list, fd>>
  BY DEF DiscInv, SdZeros
<1>2. dip' = [todo |-> Tail(dip.todo), ok |-> dip.ok, lost |-> dip.lost, req |-> dip.req,
              data |-> Filled(dip.data, Head(dip.todo), Words)]
  BY <1>1 DEF SdZeros, DipTyped
<1>3. dip.req \in Request
  BY <1>1 DEF DipTyped, ReadOK
<1>4. SdInv'
  BY <1>1, AnswerTaken DEF sdVars
<1>5. Tail(dip.todo) \in Seq(PartSet)
  BY <1>1 DEF DipTyped
<1>6. DipTyped'
  BY <1>1, <1>2, <1>5 DEF DipTyped
<1>7. AskOK'
  BY <1>1, <1>2 DEF AskOK, Waiting, sdVars
<1>8. dip.ok /\ ~dip.lost => Coming(dip.req, dip.todo, dip.data)'
  BY <1>1, <1>2, <1>3, RequestType, PartComes DEF ReadOK
<1>9. ReadOK'
  BY <1>1, <1>2, <1>8 DEF ReadOK
<1> QED
  BY <1>4, <1>6, <1>7, <1>9 DEF DiscInv

\* A part is asked for.
LEMMA SdPartKeeps ==
  ASSUME DiscInv, SdPart
  PROVE  DiscInv'
<1>1. /\ SdInv /\ DipTyped /\ AskOK /\ ReadOK /\ dip.todo # <<>> /\ Head(dip.todo).sector # None
      /\ answer = None /\ Move("sdhc", "dip", Head(dip.todo).sector) /\ UNCHANGED <<list, fd, dip>>
  BY DEF DiscInv, SdPart
<1>2. Head(dip.todo) \in PartSet
  BY <1>1 DEF DipTyped
<1>3. Head(dip.todo).sector \in Nat
  BY <1>1, <1>2 DEF PartSet
<1>4. SdInv'
  BY <1>1, <1>3, MoveKeeps DEF Driver, Caller
<1>5. DipTyped' /\ ReadOK'
  BY <1>1, ReadStays DEF DipTyped
<1>6. op'["fat"] = op["fat"] /\ answer' = None
  BY <1>1, SdTypes DEF Move, SdInv, Driver
<1>7. AskOK'
  BY <1>1, <1>6 DEF AskOK, Waiting
<1> QED
  BY <1>4, <1>5, <1>7 DEF DiscInv

\* A part is answered.
LEMMA SdAnswerKeeps ==
  ASSUME DiscInv, SdAnswer
  PROVE  DiscInv'
<1>1. /\ SdInv /\ DipTyped /\ AskOK /\ ReadOK /\ dip.req # None /\ answer # None
      /\ answer' = None /\ UNCHANGED <<bus, drv, op, budget, list, fd>>
  BY DEF DiscInv, SdAnswer
<1>2. dip' = [todo |-> Tail(dip.todo), ok |-> dip.ok,
              lost |-> dip.lost \/ ~answer.ok \/ ~answer.got.right, req |-> dip.req,
              data |-> IF answer.ok THEN Filled(dip.data, Head(dip.todo), Words) ELSE dip.data]
  BY <1>1 DEF SdAnswer, DipTyped
<1>3. dip.todo # <<>> /\ dip.req \in Request
  BY <1>1 DEF DipTyped, ReadOK, AskOK, Waiting
<1>4. SdInv'
  BY <1>1, AnswerTaken
<1>5. Tail(dip.todo) \in Seq(PartSet)
  BY <1>1, <1>3 DEF DipTyped
<1>6. DipTyped'
  BY <1>1, <1>2, <1>5 DEF DipTyped
<1>7. AskOK'
  BY <1>1 DEF AskOK, Waiting
<1>8. ASSUME dip'.ok, ~dip'.lost
      PROVE  Coming(dip.req, dip.todo, dip.data)' /\ dip.req.offset + dip.req.len <= list'.size * Words
  <2>1. dip.ok /\ ~dip.lost /\ dip'.data = Filled(dip.data, Head(dip.todo), Words)
    BY <1>2, <1>8
  <2> QED
    BY <1>1, <1>2, <1>3, <2>1, PartComes DEF ReadOK
<1>9. ReadOK'
  BY <1>1, <1>2, <1>8 DEF ReadOK
<1> QED
  BY <1>4, <1>6, <1>7, <1>9 DEF DiscInv

\* The read returns.
LEMMA ReturnedKeeps ==
  ASSUME DiscInv, Returned
  PROVE  DiscInv'
<1>1. /\ SdInv /\ DipTyped /\ AskOK /\ ReadOK /\ dip' = NoRead /\ UNCHANGED <<sdVars, list, fd>>
  BY DEF DiscInv, Returned
<1>2. SdInv'
  BY <1>1, AnswerTaken DEF sdVars
<1>3. DipTyped'
  BY <1>1 DEF DipTyped, NoRead
<1>4. AskOK'
  BY <1>1 DEF AskOK, NoRead, sdVars
<1>5. ReadOK'
  BY <1>1, RequestType DEF ReadOK, NoRead
<1> QED
  BY <1>2, <1>3, <1>4, <1>5 DEF DiscInv

-----------------------------------------------------------------------------
(* Each step of the others *)

\* The FAT module and the loader.
LEMMA UsersKeep ==
  ASSUME DiscInv, FatUser \/ Loader, UNCHANGED <<list, fd, dip>>
  PROVE  DiscInv'
<1>1. /\ SdInv /\ DipTyped /\ AskOK /\ ReadOK /\ op \in [Driver -> OpSet]
      /\ \A d \in Driver : op[d] \in OpSet
  BY SdTypes DEF DiscInv, SdInv
<1>2. DipTyped' /\ ReadOK'
  BY <1>1, ReadStays DEF DipTyped
<1>3. ASSUME NEW d \in Driver, NEW by \in {"fat", "loader"}, Startup(d, by)
      PROVE  SdInv' /\ AskOK'
  <2>1. SdInv'
    BY <1>1, <1>3, StartupKeeps DEF Caller
  <2>2. answer' = answer /\ \A e \in Driver : op'[e].by = op[e].by \/ op'[e].by # "dip"
    <3>1. answer' = answer
      BY <1>3 DEF Startup, Answer
    <3>2. op' = op \/ op' = [op EXCEPT ![d] = Asking("reset", by, 0, 0)]
      BY <1>3 DEF Startup
    <3>3. Asking("reset", by, 0, 0).by = by
      BY DEF Asking
    <3> QED
      BY <1>1, <3>1, <3>2, <3>3
  <2>3. AskOK'
    BY <1>1, <2>2, AskStays DEF AskOK, Driver
  <2> QED
    BY <2>1, <2>3
<1>4. ASSUME NEW d \in Driver, Shutdown(d)
      PROVE  SdInv' /\ AskOK'
  BY <1>1, <1>4, ShutdownKeeps, AskStays DEF Shutdown, AskOK
<1>5. ASSUME NEW s \in Sector, Move("fat", "fat", s)
      PROVE  SdInv' /\ AskOK'
  <2>1. s \in Nat
    BY SdCardAssumption
  <2>2. SdInv'
    BY <1>1, <1>5, <2>1, MoveKeeps DEF Driver, Caller
  <2>3. answer' = answer /\ op'["sdhc"] = op["sdhc"] /\ op'["fat"].by = "fat"
    BY <1>1, <1>5 DEF Move, Asking, Driver
  <2>4. AskOK'
    BY <1>1, <2>3, AskStays
  <2> QED
    BY <2>2, <2>4
<1> QED
  BY <1>2, <1>3, <1>4, <1>5 DEF DiscInv, FatUser, Loader, Driver

\* A card is taken out or put in.
LEMMA SlotKeeps ==
  ASSUME DiscInv, TakeOut \/ \E c \in Card : PutIn(c), UNCHANGED <<list, fd, dip>>
  PROVE  DiscInv'
<1>1. SdInv'
  BY TakeOutKeeps, PutInKeeps DEF DiscInv
<1>2. DipTyped' /\ ReadOK'
  BY ReadStays DEF DiscInv, DipTyped
<1>3. AskOK'
  BY DEF DiscInv, AskOK, Waiting, TakeOut, PutIn
<1> QED
  BY <1>1, <1>2, <1>3 DEF DiscInv

\* A driver goes on.
LEMMA DriverKeeps ==
  ASSUME DiscInv, NEW d \in Driver, DriverStep(d), UNCHANGED <<list, fd, dip>>
  PROVE  DiscInv'
<1>1. SdInv /\ DipTyped /\ AskOK /\ ReadOK
  BY DEF DiscInv
<1>2. SdInv'
  BY <1>1, DriverStepKeeps
<1>3. DipTyped' /\ ReadOK'
  BY <1>1, ReadStays DEF DipTyped
<1>4. AskOK'
  <2>1. /\ \A e \in Driver \ {d} : op'[e] = op[e]
        /\ \/ op'[d].by = op[d].by /\ answer' = answer
           \/ op'[d].by = None /\ (op[d].by # "dip" => answer' = answer)
    BY <1>1, DriverStepAnswers
  <2>2. None # "dip"
    BY SdCardAssumption DEF Caller
  <2>3. CASE d = "fat"
    BY <1>1, <2>1, <2>2 DEF AskOK, Waiting, Driver
  <2>4. CASE d = "sdhc"
    BY <1>1, <2>1, <2>2 DEF AskOK, Waiting, Driver
  <2> QED
    BY <2>3, <2>4 DEF Driver
<1> QED
  BY <1>2, <1>3, <1>4 DEF DiscInv

-----------------------------------------------------------------------------
(* The theorems *)

\* Before anything is asked for.
LEMMA DiscInitially == DiscInit => DiscInv
<1> SUFFICES ASSUME DiscInit
             PROVE  DiscInv
  OBVIOUS
<1>1. /\ slot \in Card /\ card = Unidentified /\ wide = FALSE /\ known = FALSE /\ holder = None
      /\ drv = [d \in Driver |-> Down] /\ op = [d \in Driver |-> Resting] /\ answer = None
      /\ faults = 0 /\ swaps = 0 /\ list = None /\ fd = FALSE /\ dip = NoRead
  BY DEF DiscInit, SdInit
<1>2. Resting \in OpSet /\ Down \in DrvSet /\ Unidentified \in CardSet
  BY RestingRow DEF DrvSet, CardSet, Down, Unidentified
<1>3. \A d \in Driver : op[d] = Resting /\ drv[d] = Down
  BY <1>1
<1>4. SdTyped
  <2>1. \A d \in Driver :
          /\ op[d].by \in Caller \cup {None} /\ op[d].sector \in Nat
          /\ op[d].mult \in 0 .. 2 /\ op[d].left \in 0 .. Tries
          /\ op[d].twin \in BOOLEAN /\ op[d].got \in Got
    BY <1>2, <1>3 DEF OpSet
  <2>2. op \in [Driver -> OpSet] /\ drv \in [Driver -> DrvSet] /\ card \in CardSet
    BY <1>1, <1>2
  <2>3. faults \in 0 .. MaxFault /\ swaps \in 0 .. MaxSwap
    BY <1>1, SdCardAssumption
  <2> QED
    BY <1>1, <2>1, <2>2, <2>3 DEF SdTyped, SdTypeOK, DrvSet, CardSet
<1>5. BusOK
  BY <1>1, SdCardAssumption DEF BusOK, Unidentified
<1>6. ASSUME NEW d \in Driver
      PROVE  Fine(d)
  <2>1. /\ op[d].at = "idle" /\ op[d].got = None /\ drv[d].up = FALSE /\ drv[d].fd = FALSE
        /\ drv[d].rca = None /\ drv[d].of = None
    BY <1>3, RestingRow DEF Down
  <2> QED
    BY <2>1 DEF Fine, DriverOK, WiresOK, MoveOK, Selected, Moving
<1>7. DipTyped /\ ReadOK
  <2>1. /\ dip = [todo |-> <<>>, ok |-> TRUE, lost |-> FALSE, req |-> None, data |-> <<>>]
        /\ <<>> \in Seq(PartSet)
    BY <1>1 DEF NoRead
  <2>2. dip.todo = <<>> /\ dip.ok = TRUE /\ dip.lost = FALSE /\ dip.req = None /\ dip.data = <<>>
    BY <2>1
  <2>3. dip = [todo |-> dip.todo, ok |-> dip.ok, lost |-> dip.lost, req |-> dip.req, data |-> dip.data]
    BY <2>1, <2>2
  <2>4. dip.todo \in Seq(PartSet)
    BY <2>1, <2>2
  <2>5. DipTyped
    BY <1>1, <2>2, <2>3, <2>4 DEF DipTyped
  <2> QED
    BY <2>2, <2>5, RequestType DEF ReadOK
<1>8. AskOK
  <2>1. op["fat"].by = None
    BY <1>3, RestingRow DEF Driver
  <2>2. None # "dip"
    BY SdCardAssumption DEF Caller
  <2> QED
    BY <1>1, <2>1, <2>2 DEF AskOK, NoRead
<1> QED
  BY <1>4, <1>5, <1>6, <1>7, <1>8 DEF DiscInv, SdInv

\* Every step keeps the invariant.
LEMMA DiscStep ==
  ASSUME DiscInv, [Next]_vars
  PROVE  DiscInv'
<1>1. CASE UNCHANGED vars
  <2>1. SdInv'
    BY <1>1, AnswerTaken DEF DiscInv, vars, sdVars
  <2>2. DipTyped' /\ ReadOK'
    BY <1>1, ReadStays DEF DiscInv, DipTyped, vars
  <2>3. AskOK'
    BY <1>1 DEF DiscInv, AskOK, Waiting, vars, sdVars
  <2> QED
    BY <2>1, <2>2, <2>3 DEF DiscInv
<1>2. CASE Next
  BY <1>2, FragInitKeeps, InitAnsweredKeeps, FragCloseKeeps, ReadUsbKeeps, ReadSdKeeps,
     ReadDvdKeeps, SdZerosKeeps, SdPartKeeps, SdAnswerKeeps, ReturnedKeeps, UsersKeep, SlotKeeps,
     DriverKeeps
  DEF Next
<1> QED
  BY <1>1, <1>2

\* The inductive invariant holds always.
LEMMA DiscAlways == Spec => []DiscInv
<1>1. DiscInv /\ [Next]_vars => DiscInv'
  BY DiscStep
<1> QED
  BY <1>1, DiscInitially, PTL DEF Spec

\* The card, its drivers and a read have their types; in particular the attempts
\* left to a transfer and the multiplications of its sector stay within their bounds.
THEOREM DiscTypeCorrect == Spec => []DiscTypeOK
<1>1. DiscInv => DiscTypeOK
  BY DEF DiscInv, SdInv, SdTyped, DipTyped, DiscTypeOK
<1> QED
  BY <1>1, DiscAlways, PTL

\* A transfer that a driver answers with success moved the sector that was asked for,
\* on the card that the driver was started on, whatever the other driver and the slot do
\* meanwhile, with the three ways out that the property names: the second attempt on a card
\* that counts in bytes, a card with the same address, and the failed read of the status.
THEOREM SectorIsAsked == Spec => []MovedIsAsked
<1>1. DiscInv => MovedIsAsked
  BY DEF DiscInv, SdInv, Fine, MoveOK, MovedIsAsked
<1> QED
  BY <1>1, DiscAlways, PTL

\* When both drivers are at rest the card is not selected, by whatever way their starts
\* and transfers ended, unless a CMD7 failed that left it so.
THEOREM CardAlwaysReleased == Spec => []CardReleased
<1>1. DiscInv => CardReleased
  BY DEF DiscInv, SdInv, BusOK, CardReleased, At, Selected
<1> QED
  BY <1>1, DiscAlways, PTL

\* A driver that started and initialised the card last agrees with the card in the slot
\* on its type, unless the read of the status failed, and on the wires.
THEOREM StartAgrees == Spec => []StartedAgrees
<1>1. ASSUME DiscInv, NEW d \in Driver, drv[d].up, holder = d, slot = drv[d].of
      PROVE  (drv[d].read => drv[d].sdhc = (slot \in Sdhc)) /\ card.wide /\ wide
  <2>1. SdTyped /\ DriverOK(d) /\ WiresOK(d)
    BY <1>1 DEF DiscInv, SdInv, Fine
  <2>2. drv[d].fd /\ drv[d].of # None /\ op[d].at \in Aware /\ drv[d].sdhc \in BOOLEAN
    BY <1>1, <2>1, SdTypes DEF DriverOK, Aware, DrvSet
  <2>3. drv[d].read => (drv[d].sdhc <=> slot \in Sdhc)
    BY <1>1, <2>1, <2>2 DEF DriverOK
  <2> QED
    BY <1>1, <2>1, <2>2, <2>3 DEF WiresOK
<1>2. DiscInv => StartedAgrees
  BY <1>1 DEF StartedAgrees
<1> QED
  BY <1>2, DiscAlways, PTL

\* A read that is answered with success, of fragments on either device or of a disc
\* in the drive, has every word of the image in its place and lies within it.
THEOREM ReadsTrue == Spec => []DiscReadTrue
<1>1. ASSUME DiscInv, dip.req # None, dip.todo = <<>>, dip.ok, ~dip.lost
      PROVE  /\ dip.data = Wanted(dip.req)
             /\ dip.req \notin DvdRequest => dip.req.offset + dip.req.len <= list.size * Words
  <2>1. dip.req \in Request \cup DvdRequest
    BY <1>1 DEF DiscInv, DipTyped
  <2>2. Coming(dip.req, <<>>, dip.data)
    BY <1>1 DEF DiscInv, ReadOK
  <2> QED
    BY <1>1, <2>1, <2>2, AllCame DEF DiscInv, ReadOK
<1>2. DiscInv => DiscReadTrue
  BY <1>1 DEF DiscReadTrue
<1> QED
  BY <1>2, DiscAlways, PTL

=============================================================================
