------------------------- MODULE PollerCursorProofs -------------------------
(***************************************************************************)
(* The cursor of PollerCursor skips nothing, for every chain length, page  *)
(* size, budget and number of upsets, and for any number of sweeps that    *)
(* overlap.  The invariant says what the cursor may have behind it         *)
(* (Passed), what a marker promises (the walk has been over all from       *)
(* before to frozen), what the memory remembers (Books) and that the rows  *)
(* of a sweep have no holes: a page is the newest part of a range, and the *)
(* next one goes on below.  A sweep is measured by the cursor and the      *)
(* marker it has read, which other sweeps may have moved since.            *)
(***************************************************************************)
EXTENDS PollerCursor, SequenceTheorems, FiniteSetTheorems, TLAPS

USE PollerAssumption

----------------------------------------------------------------------------
(* Extremes, ranks and pages of finite sets of signatures.                 *)

\* A set of signatures is finite.
LEMMA SigsAreFinite ==
  ASSUME NEW S \in SUBSET Nat, NEW n \in Nat, \A s \in S : s <= n
  PROVE  IsFiniteSet(S) /\ Cardinality(S) \in Nat
BY FS_BoundedSetOfNaturals, FS_CardinalityType

\* The least element exists.
LEMMA MinIsLeast ==
  ASSUME NEW S \in SUBSET Nat, S # {}
  PROVE  Min(S) \in S /\ \A s \in S : Min(S) <= s
<1>1. \E x \in S : \A y \in S : ~ (<<y, x>> \in OpToRel(<, Nat))
  BY NatLessThanWellFounded, WFMin
<1>2. PICK x \in S : \A y \in S : ~ (<<y, x>> \in OpToRel(<, Nat))
  BY <1>1
<1>3. ASSUME NEW y \in S PROVE x <= y
  <2>1. ~ (y < x)
    BY <1>2 DEF OpToRel
  <2> QED BY <2>1
<1> QED BY <1>3 DEF Min

\* In a bounded set so does the greatest.
LEMMA MaxIsGreatest ==
  ASSUME NEW S \in SUBSET Nat, S # {}, NEW n \in Nat, \A s \in S : s <= n
  PROVE  Max(S) \in S /\ \A s \in S : s <= Max(S)
<1> DEFINE D == {n - s : s \in S}
<1>1. D \in SUBSET Nat /\ D # {}
  <2>1. \A s \in S : n - s \in Nat
    OBVIOUS
  <2> QED BY <2>1
<1>2. Min(D) \in D /\ \A d \in D : Min(D) <= d
  BY <1>1, MinIsLeast
<1>3. PICK x \in S : Min(D) = n - x
  BY <1>2
<1>4. \A s \in S : n - s \in D
  OBVIOUS
<1>5. \A s \in S : n - x <= n - s
  BY <1>2, <1>3, <1>4
<1>6. \A s \in S : s <= x
  BY <1>5
<1> QED BY <1>6 DEF Max

\* Counting the elements up to each numbers a finite set.
LEMMA RankNumbers ==
  ASSUME NEW S \in SUBSET Nat, IsFiniteSet(S)
  PROVE  /\ Cardinality(S) \in Nat
         /\ \A x \in S : Cardinality({t \in S : t <= x}) \in 1 .. Cardinality(S)
         /\ \A i \in 1 .. Cardinality(S) :
              \E x \in S : Cardinality({t \in S : t <= x}) = i
         /\ \A x, y \in S :
              Cardinality({t \in S : t <= x}) = Cardinality({t \in S : t <= y}) => x = y
<1> DEFINE UpTo(x) == {t \in S : t <= x}
           N == Cardinality(S)
           r == [x \in S |-> Cardinality(UpTo(x))]
<1>1. N \in Nat
  BY FS_CardinalityType
<1>2. ASSUME NEW x \in S PROVE IsFiniteSet(UpTo(x)) /\ Cardinality(UpTo(x)) \in 1 .. N
  <2>1. UpTo(x) \in SUBSET S /\ x \in UpTo(x)
    OBVIOUS
  <2>2. IsFiniteSet(UpTo(x)) /\ Cardinality(UpTo(x)) <= N
    BY <2>1, FS_Subset
  <2>3. Cardinality(UpTo(x)) \in Nat /\ Cardinality(UpTo(x)) # 0
    BY <2>1, <2>2, FS_CardinalityType, FS_EmptySet
  <2> QED BY <1>1, <2>2, <2>3
<1>3. ASSUME NEW x \in S, NEW y \in S, x < y PROVE Cardinality(UpTo(x)) # Cardinality(UpTo(y))
  <2>1. UpTo(x) \in SUBSET UpTo(y) /\ y \in UpTo(y) /\ y \notin UpTo(x)
    <3>1. \A t \in S : t <= x => t <= y
      BY <1>3
    <3>2. y <= y /\ ~ (y <= x)
      BY <1>3
    <3> QED BY <3>1, <3>2
  <2>2. UpTo(x) # UpTo(y)
    BY <2>1
  <2> QED BY <1>2, <2>1, <2>2, FS_Subset
<1>4. \A x, y \in S : Cardinality(UpTo(x)) = Cardinality(UpTo(y)) => x = y
  <2> SUFFICES ASSUME NEW x \in S, NEW y \in S, x # y
               PROVE  Cardinality(UpTo(x)) # Cardinality(UpTo(y))
    OBVIOUS
  <2>1. x < y \/ y < x
    OBVIOUS
  <2> QED BY <2>1, <1>3
<1>5. r \in Injection(S, 1 .. N)
  BY <1>2, <1>4 DEF Injection, IsInjective
<1>6. IsFiniteSet(1 .. N) /\ Cardinality(1 .. N) = N
  BY <1>1, FS_Interval
<1>7. r \in Surjection(S, 1 .. N)
  BY <1>5, <1>6, FS_Injection
<1>8. \A i \in 1 .. N : \E x \in S : Cardinality(UpTo(x)) = i
  BY <1>7 DEF Surjection
<1> QED BY <1>1, <1>2, <1>4, <1>8

\* Ascending lists every element, and no other.
LEMMA AscendingLists ==
  ASSUME NEW S \in SUBSET Nat, IsFiniteSet(S)
  PROVE  Ascending(S) \in Seq(S) /\ S \subseteq Range(Ascending(S))
<1> DEFINE Rank(s) == Cardinality({t \in S : t <= s})
           a(i) == CHOOSE s \in S : Rank(s) = i
           N == Cardinality(S)
<1>1. N \in Nat
  BY RankNumbers
<1>2. ASSUME NEW i \in 1 .. N PROVE a(i) \in S /\ Rank(a(i)) = i
  <2>1. \E s \in S : Rank(s) = i
    BY RankNumbers
  <2> QED BY <2>1
<1>3. Ascending(S) \in [1 .. N -> S]
  BY <1>2 DEF Ascending
<1>4. Ascending(S) \in Seq(S)
  BY <1>1, <1>3, SeqDef
<1>5. ASSUME NEW s \in S PROVE s \in Range(Ascending(S))
  <2>1. Rank(s) \in 1 .. N
    BY RankNumbers
  <2>2. a(Rank(s)) = s
    BY <2>1, <1>2, RankNumbers
  <2>3. Ascending(S)[Rank(s)] = s /\ Rank(s) \in DOMAIN Ascending(S)
    BY <2>1, <2>2, <1>3 DEF Ascending
  <2> QED BY <2>3 DEF Range
<1> QED BY <1>4, <1>5

\* Newest takes from the top, and fewer than n only if that is all of them.
LEMMA NewestTakesTheTop ==
  ASSUME NEW S \in SUBSET Nat, IsFiniteSet(S), NEW n \in Nat
  PROVE  /\ Newest(S, n) \subseteq S
         /\ \A s \in Newest(S, n), t \in S : s <= t => t \in Newest(S, n)
         /\ Cardinality(Newest(S, n)) < n => Newest(S, n) = S
<1> DEFINE UpTo(x) == {t \in S : t <= x}
           Above(x) == {t \in S : t > x}
           N == Cardinality(S)
<1>0. \A s \in S : s \in Nat
  OBVIOUS
<1>1. Newest(S, n) \subseteq S
  BY DEF Newest
<1>2. N \in Nat /\ \A i \in 1 .. N : \E x \in S : Cardinality(UpTo(x)) = i
  BY RankNumbers
<1>3. ASSUME NEW x \in S
      PROVE  /\ IsFiniteSet(Above(x)) /\ Cardinality(Above(x)) \in Nat
             /\ Cardinality(Above(x)) = N - Cardinality(UpTo(x))
             /\ Cardinality(UpTo(x)) \in 1 .. N
  <2>0. \A t \in S : t > x <=> ~ (t <= x)
    BY <1>0
  <2>1. Above(x) = S \ UpTo(x) /\ S \cap UpTo(x) = UpTo(x)
    BY <2>0
  <2>2. IsFiniteSet(Above(x)) /\ Cardinality(Above(x)) = N - Cardinality(UpTo(x))
    BY <2>1, FS_Difference
  <2> QED BY <2>2, FS_CardinalityType, RankNumbers
<1>4. ASSUME NEW s \in Newest(S, n), NEW t \in S, s <= t PROVE t \in Newest(S, n)
  <2>1. \A u \in S : u > t => u > s
    <3>1. s \in Nat /\ t \in Nat
      BY <1>0, <1>1
    <3> QED BY <1>0, <1>4, <3>1
  <2>2. Above(t) \in SUBSET Above(s)
    BY <2>1
  <2>3. Cardinality(Above(t)) <= Cardinality(Above(s))
    BY <1>1, <1>3, <2>2, FS_Subset
  <2>4. Cardinality(Above(s)) < n
    BY DEF Newest
  <2>5. Cardinality(Above(t)) < n
    <3>1. Cardinality(Above(t)) \in Nat /\ Cardinality(Above(s)) \in Nat
      BY <1>1, <1>3
    <3> HIDE DEF Above
    <3> QED BY <3>1, <2>3, <2>4
  <2> QED BY <2>5 DEF Newest
<1>5. ASSUME NEW x \in S, x \notin Newest(S, n) PROVE ~ (Cardinality(Newest(S, n)) < n)
  <2> DEFINE M == Newest(S, n)
             g == [y \in M |-> Cardinality(Above(y))]
  <2>1. IsFiniteSet(M) /\ Cardinality(M) \in Nat
    BY <1>1, FS_Subset, FS_CardinalityType
  <2>2. Cardinality(Above(x)) >= n
    <3>1. ~ (Cardinality(Above(x)) < n)
      BY <1>5 DEF Newest
    <3>2. Cardinality(Above(x)) \in Nat
      BY <1>3
    <3> HIDE DEF Above
    <3> QED BY <3>1, <3>2
  <2>3. g \in [M -> 0 .. n - 1]
    <3> SUFFICES ASSUME NEW y \in M PROVE Cardinality(Above(y)) \in 0 .. n - 1
      OBVIOUS
    <3>1. y \in S /\ Cardinality(Above(y)) < n
      BY DEF Newest
    <3>2. Cardinality(Above(y)) \in Nat
      BY <1>3, <3>1
    <3> HIDE DEF Above
    <3> QED BY <3>1, <3>2
  <2>4. ASSUME NEW i \in 0 .. n - 1 PROVE \E y \in M : g[y] = i
    <3>1. N - i \in 1 .. N
      <4>1. /\ N \in Nat /\ Cardinality(UpTo(x)) \in 1 .. N
            /\ N - Cardinality(UpTo(x)) >= n
        BY <1>2, <1>3, <2>2
      <4> HIDE DEF UpTo, N
      <4> QED BY <4>1
    <3>2. PICK y \in S : Cardinality(UpTo(y)) = N - i
      BY <3>1, <1>2
    <3>3. Cardinality(Above(y)) = i
      BY <1>2, <1>3, <3>2
    <3>4. y \in M
      BY <3>3 DEF Newest
    <3> QED BY <3>3, <3>4
  <2>5. g \in Surjection(M, 0 .. n - 1)
    BY <2>3, <2>4 DEF Surjection
  <2>6. Cardinality(0 .. n - 1) <= Cardinality(M)
    BY <2>1, <2>5, FS_Surjection
  <2>7. Cardinality(0 .. n - 1) = n
    BY FS_Interval
  <2> QED BY <2>1, <2>6, <2>7
<1> QED BY <1>1, <1>4, <1>5

\* A page takes from the top of its range, and the whole of it if it is short.
LEMMA PageTakesTheTop ==
  ASSUME NEW u \in Nat, NEW b \in Nat, head \in Nat
  PROVE  /\ \A s \in Page(u, b) : s \in 1 .. head /\ s > u /\ (b # 0 => s < b)
         /\ \A m \in Page(u, b), s \in 1 .. head :
              m <= s /\ (b # 0 => s < b) => s \in Page(u, b)
         /\ Cardinality(Page(u, b)) < PageLimit =>
              \A s \in 1 .. head : s > u /\ (b # 0 => s < b) => s \in Page(u, b)
         /\ Cardinality(Page(u, b)) >= PageLimit => Page(u, b) # {}
<1> DEFINE S == {s \in 1 .. head : s > u /\ (b # 0 => s < b)}
<1>1. S \in SUBSET Nat /\ IsFiniteSet(S) /\ PageLimit \in Nat /\ PageLimit >= 1
  <2>1. S \in SUBSET Nat /\ \A s \in S : s <= head
    OBVIOUS
  <2>2. IsFiniteSet(S)
    BY <2>1, FS_BoundedSetOfNaturals
  <2> QED BY <2>1, <2>2
<1>2. Page(u, b) = Newest(S, PageLimit)
  BY DEF Page
<1>3. \A m \in S, s \in 1 .. head : m <= s /\ (b # 0 => s < b) => s \in S
  OBVIOUS
<1> HIDE DEF S
<1>4. /\ Newest(S, PageLimit) \subseteq S
      /\ \A s \in Newest(S, PageLimit), t \in S : s <= t => t \in Newest(S, PageLimit)
      /\ Cardinality(Newest(S, PageLimit)) < PageLimit => Newest(S, PageLimit) = S
  BY <1>1, NewestTakesTheTop
<1>5. \A s \in S : s \in 1 .. head /\ s > u /\ (b # 0 => s < b)
  BY DEF S
<1>6. \A s \in 1 .. head : s > u /\ (b # 0 => s < b) => s \in S
  BY DEF S
<1>7. Page(u, b) = {} => ~ (Cardinality(Page(u, b)) >= PageLimit)
  BY <1>1, FS_EmptySet
<1> QED BY <1>2, <1>3, <1>4, <1>5, <1>6, <1>7

----------------------------------------------------------------------------
(* The backlog as a sequence.                                              *)

\* Appending loses nothing.
LEMMA ConcatKeeps ==
  ASSUME NEW S, NEW s \in Seq(S), NEW t \in Seq(S)
  PROVE  /\ s \o t \in Seq(S)
         /\ Range(s) \cup Range(t) \subseteq Range(s \o t)
<1>1. /\ s \o t \in Seq(S) /\ Len(s \o t) = Len(s) + Len(t)
      /\ \A i \in 1 .. Len(s) + Len(t) :
           (s \o t)[i] = IF i <= Len(s) THEN s[i] ELSE t[i - Len(s)]
  BY ConcatProperties
<1>2. /\ Len(s) \in Nat /\ Len(t) \in Nat
      /\ DOMAIN s = 1 .. Len(s) /\ DOMAIN t = 1 .. Len(t)
      /\ DOMAIN (s \o t) = 1 .. Len(s) + Len(t)
  BY <1>1, LenProperties
<1>3. ASSUME NEW i \in 1 .. Len(s) PROVE s[i] \in Range(s \o t)
  <2>1. i \in 1 .. Len(s) + Len(t) /\ (s \o t)[i] = s[i]
    BY <1>1, <1>2
  <2> QED BY <1>2, <2>1 DEF Range
<1>4. ASSUME NEW i \in 1 .. Len(t) PROVE t[i] \in Range(s \o t)
  <2>1. i + Len(s) \in 1 .. Len(s) + Len(t) /\ (s \o t)[i + Len(s)] = t[i]
    BY <1>1, <1>2
  <2> QED BY <1>2, <2>1 DEF Range
<1> QED BY <1>1, <1>2, <1>3, <1>4 DEF Range

\* RemoveFirst loses nothing but the element.
LEMMA RemoveKeepsTheOthers ==
  ASSUME NEW S, NEW q \in Seq(S), NEW e
  PROVE  /\ RemoveFirst(q, e) \in Seq(S)
         /\ Range(q) \ {e} \subseteq Range(RemoveFirst(q, e))
<1>1. CASE ~ \E i \in 1 .. Len(q) : q[i] = e
  BY <1>1 DEF RemoveFirst
<1>2. CASE \E i \in 1 .. Len(q) : q[i] = e
  <2> DEFINE I == {i \in 1 .. Len(q) : q[i] = e}
             k == Min(I)
             a == SubSeq(q, 1, k - 1)
             b == SubSeq(q, k + 1, Len(q))
  <2>1. Len(q) \in Nat /\ DOMAIN q = 1 .. Len(q) /\ \A i \in 1 .. Len(q) : q[i] \in S
    BY LenProperties, ElementOfSeq
  <2>2. I \in SUBSET Nat /\ I # {}
    BY <1>2, <2>1
  <2>3. k \in 1 .. Len(q) /\ q[k] = e
    <3>1. k \in I
      BY <2>2, MinIsLeast
    <3> QED BY <3>1
  <2>4. RemoveFirst(q, e) = a \o b
    BY <1>2, <2>2 DEF RemoveFirst, RemoveAt, SelectInSeq
  <2> HIDE DEF k
  <2>5. /\ a \in Seq(S) /\ Len(a) = k - 1
        /\ \A i \in 1 .. k - 1 : a[i] = q[i]
    <3>1. 1 \in Int /\ k - 1 \in Int /\ \A i \in 1 .. k - 1 : q[i] \in S
      BY <2>1, <2>3
    <3>2. /\ a \in Seq(S) /\ Len(a) = IF 1 <= k - 1 THEN (k - 1) - 1 + 1 ELSE 0
          /\ \A i \in 1 .. (k - 1) - 1 + 1 : a[i] = q[1 + i - 1]
      BY <3>1, SubSeqProperties
    <3>3. \A i \in 1 .. k - 1 : a[i] = q[i]
      BY <2>3, <3>2
    <3> QED BY <2>3, <3>2, <3>3
  <2>6. /\ b \in Seq(S) /\ Len(b) = Len(q) - k
        /\ \A i \in 1 .. Len(q) - k : b[i] = q[k + i]
    <3>1. k + 1 \in Int /\ Len(q) \in Int /\ \A i \in k + 1 .. Len(q) : q[i] \in S
      BY <2>1, <2>3
    <3>2. /\ b \in Seq(S) /\ Len(b) = IF k + 1 <= Len(q) THEN Len(q) - (k + 1) + 1 ELSE 0
          /\ \A i \in 1 .. Len(q) - (k + 1) + 1 : b[i] = q[(k + 1) + i - 1]
      BY <3>1, SubSeqProperties
    <3> HIDE DEF b
    <3>3. ASSUME NEW i \in 1 .. Len(q) - k PROVE b[i] = q[k + i]
      <4>1. i \in 1 .. Len(q) - (k + 1) + 1 /\ (k + 1) + i - 1 = k + i
        BY <2>1, <2>3
      <4>2. b[i] = q[(k + 1) + i - 1]
        BY <3>2, <4>1
      <4> QED BY <4>1, <4>2
    <3>4. Len(b) = Len(q) - k
      <4>1. Len(b) = IF k + 1 <= Len(q) THEN Len(q) - (k + 1) + 1 ELSE 0
        BY <3>2
      <4>2. k \in 1 .. Len(q) /\ Len(q) \in Nat
        BY <2>1, <2>3
      <4>3. CASE k + 1 <= Len(q)
        BY <4>1, <4>2, <4>3
      <4>4. CASE ~ (k + 1 <= Len(q))
        <5>1. k = Len(q) /\ Len(b) = 0
          BY <4>1, <4>2, <4>4
        <5> QED BY <4>2, <5>1
      <4> QED BY <4>3, <4>4
    <3> QED BY <3>2, <3>3, <3>4
  <2>7. DOMAIN a = 1 .. k - 1 /\ DOMAIN b = 1 .. Len(q) - k
    BY <2>5, <2>6, LenProperties
  <2>8. ASSUME NEW i \in 1 .. Len(q), i # k PROVE q[i] \in Range(a) \cup Range(b)
    <3>1. CASE i < k
      <4>1. i \in 1 .. k - 1
        BY <2>3, <3>1
      <4> QED BY <4>1, <2>5, <2>7 DEF Range
    <3>2. CASE i > k
      <4>1. i - k \in 1 .. Len(q) - k /\ k + (i - k) = i
        BY <2>1, <2>3, <3>2
      <4>2. b[i - k] = q[i]
        BY <4>1, <2>6
      <4> QED BY <4>1, <4>2, <2>7 DEF Range
    <3> QED BY <2>3, <2>8, <3>1, <3>2
  <2>9. Range(q) \ {e} \subseteq Range(a) \cup Range(b)
    <3>1. Range(q) = {q[i] : i \in 1 .. Len(q)}
      BY <2>1 DEF Range
    <3> QED BY <3>1, <2>3, <2>8
  <2>10. a \o b \in Seq(S) /\ Range(a) \cup Range(b) \subseteq Range(a \o b)
    BY <2>5, <2>6, ConcatKeeps
  <2> QED BY <2>4, <2>9, <2>10
<1> QED BY <1>1, <1>2

----------------------------------------------------------------------------
(* The invariant.                                                          *)

Resolved == Failed \cup done
Held == Resolved \cup Range(queue)

\* What the cursor may have behind it.  No step takes a signature out.
Passed == {s \in 1 .. MaxSig : s <= base} \cup Resolved \cup walked \cup gap

\* What the proof needs of the types.
Shape ==
  /\ head \in 0 .. MaxSig /\ cursor \in Nat /\ base \in Nat
  /\ marker \in [frozen : Nat, before : Nat]
  /\ seen \in SUBSET (1 .. MaxSig) /\ safe \in SUBSET (1 .. MaxSig)
  /\ queue \in Seq(1 .. MaxSig) /\ gen \in Nat

\* Memory agrees with the history: an outcome is remembered only of what had
\* one, and what was seen or walked over is resolved, waits, or went in a crash.
Books ==
  /\ safe \subseteq done
  /\ seen \subseteq Held
  /\ walked \subseteq Held \cup lost

\* A marker stands for a walk that has been over all from before to frozen.
Honest(m) ==
  m # NoMark =>
    /\ m.before \in 1 .. head /\ m.frozen \in 1 .. head
    /\ m.before .. m.frozen \subseteq Passed

\* The part of the chain a sweep is after: up to its newest row, or up to
\* where the walk it goes on with has been.
InScope(r, s) == IF r.mark = NoMark THEN \E n \in r.rows : s <= n ELSE s < r.mark.before

\* No holes among the rows, and none down to the cursor.
Gapless(r) ==
  \A m \in r.rows, s \in 1 .. MaxSig : m <= s /\ InScope(r, s) => s \in r.rows
Complete(r) ==
  \A s \in 1 .. MaxSig : r.until < s /\ InScope(r, s) => s \in r.rows

\* The cursor and the marker a sweep has read may be old, but were honest, and
\* its rows have no holes.  At its end it is complete, or ran out of pages, or
\* is the first of all; or, with few pages, it does not notice.
SweepIsSound(r) ==
  /\ r.pc \in {"marker", "fresh", "page", "ingest", "promote"} => 1 .. r.until \subseteq Passed
  /\ r.pc \in {"cursor", "marker", "fresh", "page"} => ~ r.full
  /\ r.pc \in {"cursor", "marker", "fresh"} => r.rows = {}
  /\ r.pc \in {"fresh", "page", "ingest", "promote"} =>
       /\ Honest(r.mark)
       /\ \A s \in r.rows : s \in 1 .. head /\ r.until < s
       /\ Gapless(r)
  /\ r.pc = "fresh" => r.mark # NoMark /\ r.before = r.mark.before
  /\ r.pc = "page" =>
       \/ r.before \in r.rows
       \/ r.before = 0 /\ r.rows = {}
       \/ r.mark # NoMark /\ r.before = r.mark.before
  /\ r.pc = "ingest" =>
       /\ r.rows # {} /\ r.rows \subseteq Held /\ r.ok \subseteq Resolved
       /\ r.full => r.until # 0
       /\ LowPages < MaxPages => r.full \/ r.until = 0 \/ Complete(r)
  /\ r.pc = "promote" => r.rows = {} /\ r.mark # NoMark /\ Complete(r)

Sound == {r \in SweepRecord : SweepIsSound(r)}

IInv ==
  /\ Shape /\ Books
  /\ Honest(marker) /\ 1 .. cursor \subseteq Passed
  /\ LowPages < MaxPages => gap = {}
  /\ sweep \in [Sweeps -> Sound]

\* The invariant says what the cursor may pass.
LEMMA IInvSkipsNothing == IInv => NothingSkipped
<1> SUFFICES ASSUME IInv PROVE NothingSkipped
  OBVIOUS
<1>1. ASSUME NEW s \in 1 .. cursor, s > base
      PROVE  s \in Failed \cup done \cup gap \cup (walked \cap (Range(queue) \cup lost))
  <2>1. s \in Passed /\ base \in Nat /\ cursor \in Nat
    BY DEF IInv, Shape
  <2>2. s \in Resolved \cup walked \cup gap
    BY <1>1, <2>1 DEF Passed
  <2> QED BY <2>2 DEF IInv, Books, Held, Resolved
<1> QED BY <1>1 DEF NothingSkipped, PagesReachTheCursor, IInv

LEMMA IdleIsSound == Idle \in Sound /\ Idle \in Sound'
BY DEF Idle, NoMark, SweepRecord, SweepIsSound, Sound

LEMMA InitIInv == Init => IInv
<1> SUFFICES ASSUME Init PROVE IInv
  OBVIOUS
<1>1. << >> \in Seq(1 .. MaxSig) /\ Range(<< >>) = {}
  BY DEF Range
<1>2. Shape
  BY <1>1 DEF Init, Shape, NoMark
<1>3. Books /\ Honest(marker) /\ (LowPages < MaxPages => gap = {})
  BY DEF Init, Books, Honest
<1>4. 1 .. cursor \subseteq Passed
  BY DEF Init
<1>5. sweep \in [Sweeps -> Sound]
  BY IdleIsSound DEF Init
<1> QED BY <1>2, <1>3, <1>4, <1>5 DEF IInv

\* An honest marker stays honest, and what a sweep has read stays sound, while
\* the chain, the backlog and the history grow: whatever another sweep does.
LEMMA HonestStays ==
  ASSUME NEW m, Honest(m), head \in Nat, head' \in Nat, head <= head', Passed \subseteq Passed'
  PROVE  Honest(m)'
<1>1. \A s \in 1 .. head : s \in 1 .. head'
  OBVIOUS
<1> HIDE DEF Passed
<1> QED BY <1>1 DEF Honest

LEMMA SoundStays ==
  ASSUME head \in Nat, head' \in Nat, head <= head',
         Passed \subseteq Passed', Held \subseteq Held', Resolved \subseteq Resolved'
  PROVE  Sound \subseteq Sound'
<1> SUFFICES ASSUME NEW r \in Sound PROVE r \in Sound'
  OBVIOUS
<1>1. r \in SweepRecord /\ SweepIsSound(r)
  BY DEF Sound
<1>2. \A s \in 1 .. head : s \in 1 .. head'
  OBVIOUS
<1>3. Honest(r.mark) => Honest(r.mark)'
  BY HonestStays
<1>4. Gapless(r)' = Gapless(r) /\ Complete(r)' = Complete(r)
  BY DEF Gapless, Complete, InScope
<1>5. SweepIsSound(r)'
  BY <1>1, <1>2, <1>3, <1>4 DEF SweepIsSound
<1> QED BY <1>1, <1>5 DEF Sound

\* One sweep goes on, the others keep what they know.
LEMMA OthersKeep ==
  ASSUME IInv, NEW w \in Sweeps, NEW r, r \in Sound', sweep' = [sweep EXCEPT ![w] = r],
         head' = head, Passed \subseteq Passed', Held \subseteq Held',
         Resolved \subseteq Resolved'
  PROVE  sweep' \in [Sweeps -> Sound']
<1>1. Sound \subseteq Sound'
  BY SoundStays DEF IInv, Shape
<1> QED BY <1>1 DEF IInv

\* A step of the sweep that changes nothing else.
LEMMA SweepSteps ==
  ASSUME IInv, NEW w \in Sweeps, NEW r, r \in Sound,
         sweep' = [sweep EXCEPT ![w] = r],
         UNCHANGED <<head, gen, seen, safe, queue, stored, done, base, gap, walked, lost>>
  PROVE  IInv'
<1>1. Passed' = Passed /\ Held' = Held /\ Resolved' = Resolved
  BY DEF Passed, Held, Resolved
<1>2. Sound \subseteq Sound' /\ head \in Nat
  BY <1>1, SoundStays DEF IInv, Shape
<1>3. sweep' \in [Sweeps -> Sound']
  BY <1>1, <1>2, OthersKeep
<1>4. Honest(marker)' /\ (1 .. cursor \subseteq Passed)'
  BY <1>1 DEF IInv, Honest, stored
<1>5. Shape' /\ Books'
  BY <1>1 DEF IInv, Shape, Books, stored
<1> QED BY <1>3, <1>4, <1>5 DEF IInv

LEMMA EndKeeps ==
  ASSUME IInv, NEW w \in Sweeps, End(w),
         UNCHANGED <<head, gen, seen, safe, queue, stored, done, base, gap, walked, lost>>
  PROVE  IInv'
BY IdleIsSound, SweepSteps DEF End

LEMMA BeginKeeps ==
  ASSUME IInv, NEW w \in Sweeps, Begin(w)
  PROVE  IInv'
<1> DEFINE r == [Idle EXCEPT !.pc = "cursor", !.gen = gen]
<1>1. r \in Sound
  BY DEF Idle, NoMark, SweepRecord, SweepIsSound, Sound, IInv, Shape
<1>2. sweep' = [sweep EXCEPT ![w] = r]
  BY DEF Begin
<1> HIDE DEF r
<1> QED BY <1>1, <1>2, SweepSteps DEF Begin, history

LEMMA ReadsKeep ==
  ASSUME IInv, NEW w \in Sweeps, ReadCursor(w) \/ ReadMarker(w)
  PROVE  IInv'
<1>0. sweep[w] \in SweepRecord /\ SweepIsSound(sweep[w])
  BY DEF IInv, Sound
<1>1. CASE ReadCursor(w) /\ ~ Stale(w)
  <2> DEFINE r == [sweep[w] EXCEPT !.pc = "marker", !.until = cursor]
  <2>0. cursor \in Nat /\ 1 .. cursor \subseteq Passed /\ sweep[w].pc = "cursor"
    BY <1>1 DEF IInv, Shape, ReadCursor
  <2>1. r \in SweepRecord
    BY <1>0, <2>0 DEF SweepRecord
  <2>2. /\ r.pc = "marker" /\ r.until = cursor /\ r.rows = sweep[w].rows
        /\ r.full = sweep[w].full
    BY <1>0 DEF SweepRecord
  <2>3. sweep' = [sweep EXCEPT ![w] = r]
    BY <1>1 DEF ReadCursor, Becomes
  <2> HIDE DEF r
  <2>4. r \in Sound
    BY <1>0, <2>0, <2>1, <2>2 DEF SweepIsSound, Sound
  <2> QED BY <1>1, <2>3, <2>4, SweepSteps DEF ReadCursor, history
<1>2. CASE ReadMarker(w) /\ ~ Stale(w)
  <2> DEFINE r == [sweep[w] EXCEPT
            !.pc = IF sweep[w].until # 0 /\ marker # NoMark THEN "fresh" ELSE "page",
            !.mark = marker,
            !.before = IF sweep[w].until # 0 THEN marker.before ELSE 0]
  <2>0. /\ marker \in [frozen : Nat, before : Nat] /\ Honest(marker)
        /\ sweep[w].pc = "marker" /\ sweep[w].rows = {} /\ ~ sweep[w].full
        /\ 1 .. sweep[w].until \subseteq Passed
    BY <1>0, <1>2 DEF IInv, Shape, ReadMarker, SweepIsSound
  <2>1. r \in SweepRecord
    BY <1>0, <2>0 DEF SweepRecord
  <2>2. /\ r.rows = {} /\ r.until = sweep[w].until /\ r.mark = marker /\ ~ r.full
        /\ \/ r.pc = "fresh" /\ r.mark # NoMark /\ r.before = r.mark.before
           \/ r.pc = "page" /\ r.before = 0
    BY <1>0, <2>0 DEF SweepRecord, NoMark
  <2>3. sweep' = [sweep EXCEPT ![w] = r]
    BY <1>2 DEF ReadMarker, Becomes
  <2> HIDE DEF r
  <2>4. Gapless(r)
    BY <2>2 DEF Gapless
  <2>5. r \in Sound
    BY <2>0, <2>1, <2>2, <2>4 DEF SweepIsSound, Sound
  <2> QED BY <1>2, <2>3, <2>5, SweepSteps DEF ReadMarker, history
<1>3. CASE Stale(w)
  BY <1>3, EndKeeps DEF ReadCursor, ReadMarker, history
<1> QED BY <1>1, <1>2, <1>3

LEMMA FetchFreshKeeps ==
  ASSUME IInv, NEW w \in Sweeps, FetchFresh(w)
  PROVE  IInv'
<1>1. CASE Stale(w)
  BY <1>1, EndKeeps DEF FetchFresh, history
<1>2. CASE ~ Stale(w)
  <2> DEFINE z == sweep[w]
             p == Page(z.until, 0)
             r == [z EXCEPT !.pc = "page", !.rows = p]
  <2>0. /\ z \in SweepRecord /\ SweepIsSound(z) /\ z.pc = "fresh"
        /\ head \in Nat /\ head <= MaxSig /\ MaxSig \in Nat
    BY DEF IInv, Shape, Sound, FetchFresh
  <2>1. /\ z.until \in Nat /\ z.mark # NoMark /\ Honest(z.mark) /\ ~ z.full
        /\ z.before = z.mark.before /\ 1 .. z.until \subseteq Passed
    BY <2>0 DEF SweepRecord, SweepIsSound
  <2>2. /\ \A s \in p : s \in 1 .. head /\ s > z.until
        /\ \A m \in p, s \in 1 .. head : m <= s => s \in p
    BY <2>0, <2>1, PageTakesTheTop
  <2>3. p \in SUBSET (1 .. MaxSig)
    BY <2>0, <2>2
  <2>4. r \in SweepRecord
    <3> HIDE DEF p, z
    <3> QED BY <2>0, <2>3 DEF SweepRecord
  <2>5. /\ r.pc = "page" /\ r.until = z.until /\ r.mark = z.mark /\ r.full = z.full
        /\ r.rows = p /\ r.before = z.before
    BY <2>0 DEF SweepRecord
  <2>8. sweep' = [sweep EXCEPT ![w] = r]
    BY <1>2 DEF FetchFresh, Becomes
  <2> HIDE DEF p, r, z
  <2>6. Gapless(r)
    <3> SUFFICES ASSUME NEW m \in p, NEW s \in 1 .. MaxSig, m <= s, s < z.mark.before
                 PROVE  s \in p
      BY <2>1, <2>5 DEF Gapless, InScope
    <3>1. s \in 1 .. head
      BY <2>0, <2>1 DEF Honest
    <3> QED BY <3>1, <2>2
  <2>7. r \in Sound
    <3>1. \A s \in r.rows : s \in 1 .. head /\ r.until < s
      BY <2>0, <2>1, <2>2, <2>5
    <3> QED BY <2>1, <2>4, <2>5, <2>6, <3>1 DEF SweepIsSound, Sound
  <2> QED BY <2>7, <2>8, SweepSteps DEF FetchFresh, history
<1> QED BY <1>1, <1>2

\* One more page leaves no hole, and a short one nothing down to the cursor.
NextPage(z) == Page(z.until, z.before)
Longer(z) == [z EXCEPT !.pages = @ + 1, !.rows = @ \cup NextPage(z)]

LEMMA AnotherPage ==
  ASSUME IInv, NEW w \in Sweeps, sweep[w].pc = "page",
         NEW p, p = NextPage(sweep[w]), NEW r, r = Longer(sweep[w])
  PROVE  /\ r \in SweepRecord
         /\ r.pc = "page" /\ r.until = sweep[w].until /\ r.mark = sweep[w].mark /\ ~ r.full
         /\ 1 .. r.until \subseteq Passed /\ Honest(r.mark)
         /\ r.before = sweep[w].before /\ r.rows = sweep[w].rows \cup p
         /\ \A s \in r.rows : s \in 1 .. head /\ r.until < s
         /\ Gapless(r)
         /\ Cardinality(p) < PageLimit => Complete(r)
         /\ Cardinality(p) >= PageLimit => p # {}
         /\ p \in SUBSET Nat /\ Cardinality(p) \in Nat
<1> DEFINE z == sweep[w]
           b == sweep[w].before
<1>0. /\ z \in SweepRecord /\ SweepIsSound(z)
      /\ head \in Nat /\ head <= MaxSig /\ MaxSig \in Nat
  BY DEF IInv, Shape, Sound
<1>1. z.until \in Nat /\ b \in Nat /\ z.rows \in SUBSET (1 .. MaxSig)
  BY <1>0 DEF SweepRecord
<1>2. /\ 1 .. z.until \subseteq Passed /\ Honest(z.mark) /\ ~ z.full /\ Gapless(z)
      /\ \A s \in z.rows : s \in 1 .. head /\ z.until < s
      /\ \/ b \in z.rows
         \/ b = 0 /\ z.rows = {}
         \/ z.mark # NoMark /\ b = z.mark.before
  BY <1>0 DEF SweepIsSound
<1>3. /\ \A s \in p : s \in 1 .. head /\ s > z.until /\ (b # 0 => s < b)
      /\ \A m \in p, s \in 1 .. head : m <= s /\ (b # 0 => s < b) => s \in p
      /\ Cardinality(p) < PageLimit =>
           \A s \in 1 .. head : s > z.until /\ (b # 0 => s < b) => s \in p
      /\ Cardinality(p) >= PageLimit => p # {}
  BY <1>0, <1>1, PageTakesTheTop DEF NextPage
<1>4. p \in SUBSET (1 .. MaxSig)
  BY <1>0, <1>3
<1>5. r \in SweepRecord
  <2>1. z.pages + 1 \in Nat /\ z.rows \cup p \in SUBSET (1 .. MaxSig)
    BY <1>0, <1>1, <1>4 DEF SweepRecord
  <2>2. r = [z EXCEPT !.pages = z.pages + 1, !.rows = z.rows \cup p]
    BY DEF Longer
  <2> HIDE DEF z
  <2> QED BY <1>0, <2>1, <2>2 DEF SweepRecord
<1>6. /\ r.pc = z.pc /\ r.until = z.until /\ r.mark = z.mark /\ r.full = z.full
      /\ r.before = b /\ r.rows = z.rows \cup p
  BY <1>0 DEF SweepRecord, Longer
<1>7. z.mark # NoMark => z.mark.before \in 1 .. head
  BY <1>2 DEF Honest
<1> HIDE DEF z, b
<1>8. ASSUME NEW s \in 1 .. MaxSig, InScope(r, s), b \in z.rows, b <= s
      PROVE  s \in z.rows
  <2>1. InScope(z, s)
    <3>1. CASE z.mark # NoMark
      BY <1>6, <1>8, <3>1 DEF InScope
    <3>2. CASE z.mark = NoMark
      <4>1. PICK n \in z.rows \cup p : s <= n
        BY <1>6, <1>8, <3>2 DEF InScope
      <4>2. n \notin p
        <5>1. n \in p => n \in Nat /\ n < b
          BY <1>2, <1>3, <1>8
        <5> QED BY <5>1, <4>1, <1>1, <1>8
      <4> QED BY <4>1, <4>2, <3>2 DEF InScope
    <3> QED BY <3>1, <3>2
  <2> QED BY <2>1, <1>2, <1>8 DEF Gapless
<1>9. ASSUME NEW s \in 1 .. MaxSig, InScope(r, s), b \in z.rows => s < b
      PROVE  s \in 1 .. head /\ (b # 0 => s < b)
  <2>1. CASE b \in z.rows
    BY <2>1, <1>0, <1>1, <1>2, <1>9
  <2>2. CASE b = 0 /\ z.rows = {}
    <3>1. CASE z.mark = NoMark
      <4>1. PICK n \in p : s <= n
        BY <1>6, <1>9, <2>2, <3>1 DEF InScope
      <4> QED BY <4>1, <2>2, <1>0, <1>3
    <3>2. CASE z.mark # NoMark
      <4>1. s < z.mark.before
        BY <1>6, <1>9, <3>2 DEF InScope
      <4> QED BY <4>1, <1>0, <1>7, <2>2, <3>2
    <3> QED BY <3>1, <3>2
  <2>3. CASE z.mark # NoMark /\ b = z.mark.before
    <3>1. s < b /\ b \in 1 .. head
      BY <1>2, <1>6, <1>7, <1>9, <2>3 DEF InScope
    <3> QED BY <3>1, <1>0
  <2> QED BY <1>2, <2>1, <2>2, <2>3
<1>10. Gapless(r)
  <2> SUFFICES ASSUME NEW m \in z.rows \cup p, NEW s \in 1 .. MaxSig, m <= s, InScope(r, s)
               PROVE  s \in z.rows \cup p
    BY <1>6 DEF Gapless
  <2>1. CASE b \in z.rows /\ ~ (s < b)
    <3>1. b <= s
      BY <2>1, <1>1
    <3> QED BY <2>1, <3>1, <1>8
  <2>2. CASE b \in z.rows => s < b
    <3>1. s \in 1 .. head /\ (b # 0 => s < b)
      BY <1>9, <2>2
    <3>2. CASE m \in p
      BY <3>1, <3>2, <1>3
    <3>3. CASE m \in z.rows
      <4>1. InScope(z, s)
        <5>1. CASE z.mark # NoMark
          BY <1>6, <5>1 DEF InScope
        <5>2. CASE z.mark = NoMark /\ b \in z.rows
          <6>1. s <= b
            BY <1>1, <2>2, <5>2
          <6> QED BY <6>1, <5>2 DEF InScope
        <5> QED BY <1>2, <3>3, <5>1, <5>2
      <4> QED BY <4>1, <3>3, <1>2 DEF Gapless
    <3> QED BY <3>2, <3>3
  <2> QED BY <2>1, <2>2
<1>11. ASSUME Cardinality(p) < PageLimit PROVE Complete(r)
  <2> SUFFICES ASSUME NEW s \in 1 .. MaxSig, r.until < s, InScope(r, s)
               PROVE  s \in r.rows
    BY DEF Complete
  <2>1. CASE b \in z.rows /\ ~ (s < b)
    <3>1. b <= s
      BY <2>1, <1>1
    <3> QED BY <2>1, <3>1, <1>6, <1>8
  <2>2. CASE b \in z.rows => s < b
    <3>1. s \in 1 .. head /\ (b # 0 => s < b)
      BY <1>9, <2>2
    <3>2. s > z.until
      BY <1>1, <1>6
    <3> QED BY <3>1, <3>2, <1>3, <1>6, <1>11
  <2> QED BY <2>1, <2>2
<1>12. \A s \in r.rows : s \in 1 .. head /\ r.until < s
  BY <1>1, <1>2, <1>3, <1>6
<1>13. p \in SUBSET Nat /\ Cardinality(p) \in Nat
  <2>1. p \in SUBSET Nat /\ \A s \in p : s <= MaxSig
    BY <1>4
  <2> QED BY <1>0, <2>1, SigsAreFinite
<1> QED BY <1>2, <1>3, <1>5, <1>6, <1>10, <1>11, <1>12, <1>13 DEF z, b

\* What a sweep has when it looks at its rows.
Gathered(r) ==
  /\ r \in SweepRecord
  /\ 1 .. r.until \subseteq Passed /\ Honest(r.mark)
  /\ \A s \in r.rows : s \in 1 .. head /\ r.until < s
  /\ Gapless(r)
  /\ r.full => r.until # 0
  /\ r.rows = {} => Complete(r)
  /\ LowPages < MaxPages => r.full \/ r.until = 0 \/ Complete(r)

\* Rows handed to ingestion.
LEMMA GatheredIsSound ==
  ASSUME NEW r, Gathered(r), r.rows # {}, NEW z \in SweepRecord,
         z.pc = "ingest", z.until = r.until, z.mark = r.mark, z.rows = r.rows, z.full = r.full,
         z.rows \subseteq Held', z.ok \subseteq Resolved', head' = head, Passed' = Passed
  PROVE  z \in Sound'
<1>1. Gapless(z)' = Gapless(r) /\ Complete(z)' = Complete(r) /\ Honest(z.mark)' = Honest(r.mark)
  BY DEF Gapless, Complete, InScope, Honest
<1> QED BY <1>1 DEF Gathered, SweepIsSound, Sound

\* One more outcome among them.
LEMMA ResolvedIsSound ==
  ASSUME NEW y, y \in Sound', NEW z \in SweepRecord,
         z.pc = y.pc, z.until = y.until, z.mark = y.mark, z.before = y.before,
         z.rows = y.rows, z.full = y.full,
         z.pc = "ingest" => z.ok \subseteq Resolved'
  PROVE  z \in Sound'
<1>1. Gapless(z)' = Gapless(y)' /\ Complete(z)' = Complete(y)'
  BY DEF Gapless, Complete, InScope
<1> QED BY <1>1 DEF SweepIsSound, Sound

LEMMA ScannedKeeps ==
  ASSUME IInv, NEW w \in Sweeps, NEW r, Gathered(r), r.rows # {},
         NEW pressure, Scanned(w, r, pressure),
         UNCHANGED <<head, gen, stored, done, base, gap, walked, lost>>
  PROVE  IInv'
<1> DEFINE budget == Budget(pressure, Cardinality(r.rows))
           depth == Cardinality(Waiting)
           kept == Reserve(pressure, depth, budget)
           old == {queue[i] : i \in Oldest(Waiting, kept)}
           unseen == Unseen(r.rows)
           new == Newest(unseen, budget - kept)
           z == [r EXCEPT !.pc = "ingest", !.ok = r.rows \cap (Failed \cup safe),
                          !.todo = old \cup new]
<1>1. /\ sweep' = [sweep EXCEPT ![w] = z] /\ seen' = seen \cup unseen
      /\ queue' = queue \o Ascending(unseen \ new) \o Ascending(new) /\ safe' = safe
  BY DEF Scanned, Becomes
<1>2. /\ Shape /\ Books /\ r.rows \in SUBSET (1 .. MaxSig) /\ MaxSig \in Nat
  BY DEF IInv, Gathered, SweepRecord
<1>3. new \subseteq unseen
  BY DEF Newest
<1>4. unseen = (r.rows \ Failed) \ seen
  BY DEF Unseen
<1>5. old \in SUBSET (1 .. MaxSig)
  <2>1. \A i \in DOMAIN queue : queue[i] \in 1 .. MaxSig
    BY <1>2, LenProperties, ElementOfSeq DEF Shape
  <2> QED BY <2>1 DEF Oldest, Waiting
<1> HIDE DEF old, unseen, new, kept, depth, budget
<1>6. z \in SweepRecord
  <2>1. old \cup new \in SUBSET (1 .. MaxSig) /\ r.rows \cap (Failed \cup safe) \in SUBSET (1 .. MaxSig)
    BY <1>2, <1>3, <1>4, <1>5
  <2> QED BY <2>1 DEF SweepRecord, Gathered
<1>7. /\ z.pc = "ingest" /\ z.until = r.until /\ z.mark = r.mark /\ z.rows = r.rows
      /\ z.full = r.full /\ z.ok = r.rows \cap (Failed \cup safe)
  BY DEF SweepRecord, Gathered
<1>8. /\ queue' \in Seq(1 .. MaxSig)
      /\ Range(queue) \cup unseen \subseteq Range(queue')
  <2> DEFINE a == Ascending(unseen \ new)
             c == Ascending(new)
  <2>1. /\ unseen \ new \in SUBSET Nat /\ new \in SUBSET Nat
        /\ unseen \ new \subseteq 1 .. MaxSig /\ new \subseteq 1 .. MaxSig
    BY <1>2, <1>3, <1>4
  <2>2. IsFiniteSet(1 .. MaxSig)
    <3>1. 1 .. MaxSig \in SUBSET Nat /\ \A s \in 1 .. MaxSig : s <= MaxSig
      BY <1>2
    <3> QED BY <1>2, <3>1, SigsAreFinite
  <2>3. IsFiniteSet(unseen \ new) /\ IsFiniteSet(new)
    BY <2>1, <2>2, FS_Subset
  <2>4. /\ a \in Seq(unseen \ new) /\ unseen \ new \subseteq Range(a)
        /\ c \in Seq(new) /\ new \subseteq Range(c)
    BY <2>1, <2>3, AscendingLists
  <2>5. a \in Seq(1 .. MaxSig) /\ c \in Seq(1 .. MaxSig) /\ queue \in Seq(1 .. MaxSig)
    BY <1>2, <2>1, <2>4, SeqMonotonic DEF Shape
  <2> HIDE DEF a, c
  <2>6. queue \o a \in Seq(1 .. MaxSig) /\ Range(queue) \cup Range(a) \subseteq Range(queue \o a)
    BY <2>5, ConcatKeeps
  <2>7. /\ (queue \o a) \o c \in Seq(1 .. MaxSig)
        /\ Range(queue \o a) \cup Range(c) \subseteq Range((queue \o a) \o c)
    BY <2>5, <2>6, ConcatKeeps
  <2>8. queue' = (queue \o a) \o c
    BY <1>1 DEF a, c
  <2> QED BY <2>4, <2>6, <2>7, <2>8
<1> HIDE DEF z
<1>9. Held \cup unseen \subseteq Held' /\ Resolved' = Resolved /\ Passed' = Passed
  BY <1>8 DEF Held, Resolved, Passed
<1>10. seen' \in SUBSET (1 .. MaxSig)
  BY <1>1, <1>2, <1>4 DEF Shape
<1>11. Shape'
  BY <1>1, <1>2, <1>8, <1>10 DEF Shape, stored
<1>12. Books'
  BY <1>1, <1>2, <1>9 DEF Books
<1>13. Honest(marker)' /\ (1 .. cursor \subseteq Passed)'
  BY <1>9 DEF IInv, Honest, stored
<1>14. z.rows \subseteq Held' /\ z.ok \subseteq Resolved'
  BY <1>2, <1>4, <1>7, <1>9 DEF Books, Held, Resolved
<1>15. z \in Sound'
  BY <1>6, <1>7, <1>9, <1>14, GatheredIsSound
<1>16. sweep' \in [Sweeps -> Sound']
  BY <1>1, <1>9, <1>15, OthersKeep
<1> QED BY <1>11, <1>12, <1>13, <1>16 DEF IInv

LEMMA AssessKeeps ==
  ASSUME IInv, NEW w \in Sweeps, NEW r, Gathered(r),
         NEW pressure, Assess(w, r, pressure),
         UNCHANGED <<head, gen, stored, done, base, gap, walked, lost>>
  PROVE  IInv'
<1>1. CASE r.rows # {}
  BY <1>1, ScannedKeeps DEF Assess
<1>2. CASE r.rows = {} /\ r.mark = NoMark
  BY <1>2, EndKeeps DEF Assess
<1>3. CASE r.rows = {} /\ r.mark # NoMark
  <2> DEFINE z == [r EXCEPT !.pc = "promote"]
  <2>1. sweep' = [sweep EXCEPT ![w] = z] /\ UNCHANGED <<seen, safe, queue>>
    BY <1>3 DEF Assess, Becomes
  <2>2. z \in SweepRecord
    BY DEF Gathered, SweepRecord
  <2>3. /\ z.pc = "promote" /\ z.until = r.until /\ z.mark = r.mark /\ z.rows = r.rows
        /\ z.full = r.full
    BY DEF Gathered, SweepRecord
  <2> HIDE DEF z
  <2>4. Gapless(z) /\ Complete(z)
    BY <1>3, <2>3 DEF Gathered, Gapless, Complete, InScope
  <2>5. z \in Sound
    BY <1>3, <2>2, <2>3, <2>4 DEF SweepIsSound, Sound, Gathered
  <2> QED BY <2>1, <2>5, SweepSteps
<1> QED BY <1>1, <1>2, <1>3

LEMMA FetchPageKeeps ==
  ASSUME IInv, NEW w \in Sweeps, NEW pressure \in Pressures, FetchPage(w, pressure)
  PROVE  IInv'
<1> DEFINE p == Page(sweep[w].until, sweep[w].before)
           r == [sweep[w] EXCEPT !.pages = @ + 1, !.rows = @ \cup p]
           floor == Cardinality(p) < PageLimit
<1>1. sweep[w].pc = "page" /\ UNCHANGED <<head, gen, stored, done, base, gap, walked, lost>>
  BY DEF FetchPage, history
<1>2. /\ r \in SweepRecord
      /\ r.pc = "page" /\ r.until = sweep[w].until /\ ~ r.full
      /\ 1 .. r.until \subseteq Passed /\ Honest(r.mark)
      /\ r.rows = sweep[w].rows \cup p
      /\ \A s \in r.rows : s \in 1 .. head /\ r.until < s
      /\ Gapless(r)
      /\ floor => Complete(r)
      /\ Cardinality(p) >= PageLimit => p # {}
      /\ p \in SUBSET Nat /\ Cardinality(p) \in Nat
  <2>1. p = NextPage(sweep[w]) /\ r = Longer(sweep[w])
    BY DEF NextPage, Longer
  <2> HIDE DEF p, r
  <2> QED BY <1>1, <2>1, AnotherPage
<1>3. CASE Stale(w)
  BY <1>1, <1>3, EndKeeps DEF FetchPage
<1>0. ~ floor => p # {}
  <2> HIDE DEF p, r
  <2> QED BY <1>2
<1>4. CASE ~ Stale(w) /\ (sweep[w].until = 0 \/ floor)
  <2>1. Assess(w, r, pressure)
    BY <1>4 DEF FetchPage
  <2> HIDE DEF r, p
  <2>2. Gathered(r)
    BY <1>0, <1>2, <1>4 DEF Gathered
  <2> QED BY <1>1, <2>1, <2>2, AssessKeeps
<1>5. CASE ~ Stale(w) /\ ~ (sweep[w].until = 0 \/ floor)
  <2>0. p # {}
    BY <1>0, <1>5
  <2>1. CASE r.pages < MaxPages
    <3> DEFINE z == [r EXCEPT !.before = Min(p)]
    <3>1. sweep' = [sweep EXCEPT ![w] = z] /\ UNCHANGED <<seen, safe, queue>>
      BY <1>5, <2>1 DEF FetchPage, Becomes
    <3>2. Min(p) \in p /\ Min(p) \in Nat
      BY <1>2, <2>0, MinIsLeast
    <3> HIDE DEF r, p
    <3>4. z \in SweepRecord
      BY <1>2, <3>2 DEF SweepRecord
    <3>5. /\ z.pc = "page" /\ z.until = r.until /\ z.mark = r.mark /\ z.rows = r.rows
          /\ z.full = r.full /\ z.before \in z.rows
      BY <1>2, <3>2 DEF SweepRecord
    <3> HIDE DEF z
    <3>6. Gapless(z)
      BY <1>2, <3>5 DEF Gapless, InScope
    <3>7. z \in Sound
      BY <1>2, <3>4, <3>5, <3>6 DEF SweepIsSound, Sound
    <3> QED BY <1>1, <3>1, <3>7, SweepSteps
  <2>2. CASE ~ (r.pages < MaxPages)
    <3> DEFINE full == r.pages > LowPages
               z == [r EXCEPT !.full = full]
    <3>1. Assess(w, z, pressure)
      BY <1>5, <2>2 DEF FetchPage
    <3> HIDE DEF r, p
    <3>2. LowPages < MaxPages => full
      <4>1. r.pages \in Nat /\ MaxPages \in Nat /\ LowPages \in Nat
        BY <1>2 DEF SweepRecord
      <4> QED BY <4>1, <2>2
    <3>3. full \in BOOLEAN
      OBVIOUS
    <3> HIDE DEF full
    <3>4. z \in SweepRecord
      BY <1>2, <3>3, Zenon DEF SweepRecord
    <3>5. z.until = r.until /\ z.mark = r.mark /\ z.rows = r.rows /\ z.full = full
      BY <1>2 DEF SweepRecord
    <3> HIDE DEF z
    <3>6. Gapless(z) /\ z.rows # {} /\ r.until # 0
      BY <1>2, <1>5, <2>0, <3>5 DEF Gapless, InScope
    <3>7. Gathered(z)
      BY <1>2, <3>2, <3>4, <3>5, <3>6 DEF Gathered
    <3> QED BY <1>1, <3>1, <3>7, AssessKeeps
  <2> QED BY <2>1, <2>2
<1> QED BY <1>3, <1>4, <1>5

LEMMA IngestReturnsKeeps ==
  ASSUME IInv, NEW w \in Sweeps, NEW s \in 1 .. MaxSig, NEW terminal \in BOOLEAN,
         IngestReturns(w, s, terminal)
  PROVE  IInv'
<1> DEFINE r == [sweep[w] EXCEPT !.todo = @ \ {s}]
<1>0. sweep[w] \in SweepRecord /\ SweepIsSound(sweep[w])
  BY DEF IInv, Sound
<1>1. CASE ~ terminal
  <2>1. r \in SweepRecord
    BY <1>0 DEF SweepRecord
  <2>2. SweepIsSound(r)
    BY <1>0 DEF SweepRecord, SweepIsSound, Gapless, Complete, InScope
  <2>3. sweep' = [sweep EXCEPT ![w] = r] /\ UNCHANGED <<safe, done, queue>>
    BY <1>1 DEF IngestReturns, Becomes
  <2> HIDE DEF r
  <2>4. r \in Sound
    BY <2>1, <2>2 DEF Sound
  <2> QED BY <2>3, <2>4, SweepSteps DEF IngestReturns
<1>2. CASE terminal
  <2> DEFINE z == [r EXCEPT !.ok = @ \cup ({s} \cap r.rows)]
             y == sweep[w]
  <2>1. /\ sweep' = [sweep EXCEPT ![w] = z]
        /\ safe' = safe \cup {s} /\ done' = done \cup {s} /\ queue' = RemoveFirst(queue, s)
        /\ UNCHANGED <<head, gen, seen, stored, base, gap, walked, lost>>
    BY <1>2 DEF IngestReturns, Becomes
  <2>2. /\ z \in SweepRecord
        /\ z.pc = y.pc /\ z.until = y.until /\ z.mark = y.mark
        /\ z.before = y.before /\ z.rows = y.rows /\ z.full = y.full
        /\ z.ok \subseteq y.ok \cup {s}
    BY <1>0 DEF SweepRecord
  <2>3. y \in Sound
    BY DEF IInv
  <2> HIDE DEF z, r, y
  <2>4. queue' \in Seq(1 .. MaxSig) /\ Range(queue) \subseteq Range(queue') \cup {s}
    BY <2>1, RemoveKeepsTheOthers DEF IInv, Shape
  <2>5. /\ Held \subseteq Held' /\ Resolved' = Resolved \cup {s}
        /\ Resolved \subseteq Resolved' /\ Passed \subseteq Passed'
    BY <2>1, <2>4 DEF Held, Resolved, Passed
  <2>6. Shape'
    BY <2>1, <2>4 DEF IInv, Shape, stored
  <2>7. Books'
    BY <2>1, <2>5 DEF IInv, Books
  <2>8. Honest(marker)' /\ (1 .. cursor \subseteq Passed)'
    BY <2>1, <2>5 DEF IInv, Honest, stored
  <2>9. z \in Sound'
    <3>1. y \in Sound'
      BY <2>1, <2>3, <2>5, SoundStays DEF IInv, Shape
    <3>2. y.pc = "ingest" => y.ok \cup {s} \subseteq Resolved'
      BY <2>3, <2>5 DEF SweepIsSound, Sound
    <3> QED BY <2>2, <3>1, <3>2, ResolvedIsSound
  <2>10. sweep' \in [Sweeps -> Sound']
    BY <2>1, <2>5, <2>9, OthersKeep
  <2> QED BY <2>1, <2>6, <2>7, <2>8, <2>10 DEF IInv
<1> QED BY <1>1, <1>2

\* The resolved run at the bottom of the rows has no unresolved row in it.
LEMMA SafeAdvanceIsSafe ==
  ASSUME NEW rows \in SUBSET (1 .. MaxSig), NEW ok, SafeAdvance(rows, ok) # 0
  PROVE  /\ SafeAdvance(rows, ok) \in rows
         /\ \A q \in rows : q <= SafeAdvance(rows, ok) => q \in ok
<1> DEFINE run == {s \in rows : \A q \in rows : q <= s => q \in ok}
<1>1. run # {} /\ SafeAdvance(rows, ok) = Max(run)
  BY DEF SafeAdvance
<1>2. run \in SUBSET Nat /\ MaxSig \in Nat /\ \A s \in run : s <= MaxSig
  <2>1. run \subseteq 1 .. MaxSig /\ MaxSig \in Nat
    OBVIOUS
  <2>2. \A s \in 1 .. MaxSig : s \in Nat /\ s <= MaxSig
    OBVIOUS
  <2> HIDE DEF run
  <2> QED BY <2>1, <2>2
<1>3. Max(run) \in run
  <2> HIDE DEF run
  <2> QED BY <1>1, <1>2, MaxIsGreatest
<1> QED BY <1>1, <1>3

\* The rest of a step that moves the cursor, the marker or the history.
LEMMA CursorMoves ==
  ASSUME IInv, NEW w \in Sweeps, NEW r \in SweepRecord, r.pc = "clear" \/ r = Idle,
         sweep' = [sweep EXCEPT ![w] = r],
         UNCHANGED <<head, gen, seen, safe, queue, done, lost>>,
         cursor' \in Nat, base' \in Nat, marker' \in [frozen : Nat, before : Nat],
         walked' \subseteq Held \cup lost, Passed \subseteq Passed',
         LowPages < MaxPages => gap' = {},
         Honest(marker)', (1 .. cursor \subseteq Passed)'
  PROVE  IInv'
<1>1. r \in Sound'
  BY DEF Idle, SweepIsSound, Sound
<1>2. Held' = Held /\ Resolved' = Resolved
  BY DEF Held, Resolved
<1>3. sweep' \in [Sweeps -> Sound']
  BY <1>1, <1>2, OthersKeep
<1>4. Shape'
  BY DEF IInv, Shape
<1>5. Books'
  BY <1>2 DEF IInv, Books
<1> QED BY <1>3, <1>4, <1>5 DEF IInv

\* Moving the cursor over what a sweep has resolved: up to a signature that
\* the sweep's rows, or the walk it goes on with, come to without a hole.
LEMMA MoveCursorKeeps ==
  ASSUME IInv, NEW w \in Sweeps, sweep[w].pc = "ingest", ~ sweep[w].full,
         NEW c \in 1 .. MaxSig, MoveCursor(sweep[w], c),
         UNCHANGED <<done, walked>>,
         \A q \in sweep[w].rows : q <= c => q \in sweep[w].ok,
         \/ sweep[w].mark = NoMark /\ c \in sweep[w].rows
         \/ sweep[w].mark # NoMark /\ c = sweep[w].mark.frozen
  PROVE  /\ cursor' = c /\ base' \in Nat /\ Passed \subseteq Passed'
         /\ LowPages < MaxPages => gap' = {}
         /\ 1 .. c \subseteq Passed'
<1> DEFINE z == sweep[w]
<1>0. /\ z \in SweepRecord /\ SweepIsSound(z) /\ base \in Nat
      /\ head \in Nat /\ head <= MaxSig /\ MaxSig \in Nat
      /\ LowPages < MaxPages => gap = {}
  BY DEF IInv, Shape, Sound
<1>1. /\ z.rows \in SUBSET (1 .. MaxSig) /\ z.rows # {} /\ z.ok \subseteq Resolved
      /\ 1 .. z.until \subseteq Passed /\ Honest(z.mark) /\ Gapless(z)
      /\ LowPages < MaxPages => z.until = 0 \/ Complete(z)
      /\ z.until \in Nat /\ z.mark \in [frozen : Nat, before : Nat]
  BY <1>0 DEF SweepIsSound, SweepRecord
<1>2. Min(z.rows) \in z.rows /\ \A s \in z.rows : Min(z.rows) <= s
  <2>1. z.rows \in SUBSET Nat
    BY <1>1
  <2> HIDE DEF z
  <2> QED BY <1>1, <2>1, MinIsLeast
<1>3. /\ cursor' = c
      /\ IF z.until = 0 THEN base' = Max({base, Min(z.rows) - 1}) /\ UNCHANGED gap
         ELSE gap' = gap \cup Unlooked(z, c) /\ UNCHANGED base
  BY DEF MoveCursor
<1>4. \/ z.mark = NoMark /\ c \in z.rows
      \/ z.mark # NoMark /\ c = z.mark.frozen
  OBVIOUS
<1>5. \A q \in z.rows : q <= c => q \in z.ok
  OBVIOUS
<1> HIDE DEF z
<1>6. base' \in Nat /\ base <= base' /\ (z.until = 0 => Min(z.rows) - 1 <= base')
  <2>1. CASE z.until # 0
    BY <1>0, <1>3, <2>1
  <2>2. CASE z.until = 0
    <3> DEFINE B == {base, Min(z.rows) - 1}
    <3>1. Min(z.rows) \in 1 .. MaxSig
      BY <1>1, <1>2
    <3>2. B \in SUBSET Nat /\ B # {} /\ \A s \in B : s <= base + MaxSig
      BY <1>0, <3>1
    <3>3. base + MaxSig \in Nat
      BY <1>0
    <3>4. Max(B) \in B /\ \A s \in B : s <= Max(B)
      <4> HIDE DEF B
      <4> QED BY <3>2, <3>3, MaxIsGreatest
    <3> QED BY <1>3, <2>2, <3>1, <3>2, <3>4
  <2> QED BY <2>1, <2>2
<1>7. gap \subseteq gap'
  BY <1>3
<1>8. Passed \subseteq Passed'
  <2>1. \A s \in 1 .. MaxSig : s <= base => s <= base'
    BY <1>0, <1>6
  <2> QED BY <1>7, <2>1 DEF Passed, Resolved
\* Below the walk, or below the newest row, is the scope of the sweep.
<1>9. ASSUME NEW s \in 1 .. c, ~ (z.mark # NoMark /\ z.mark.before <= s)
      PROVE  s \in 1 .. MaxSig /\ InScope(z, s)
  <2>1. s \in 1 .. MaxSig /\ s <= c
    BY <1>0
  <2>2. CASE z.mark = NoMark
    BY <1>4, <2>1, <2>2 DEF InScope
  <2>3. CASE z.mark # NoMark
    <3>1. z.mark.before \in Nat /\ ~ (z.mark.before <= s)
      BY <1>1, <1>9, <2>3
    <3> QED BY <2>1, <2>3, <3>1 DEF InScope
  <2> QED BY <2>2, <2>3
<1>10. ASSUME NEW s \in 1 .. c PROVE s \in Passed'
  <2>0. s \in 1 .. MaxSig /\ s <= c
    BY <1>0
  <2>1. CASE s <= z.until
    <3>1. s \in 1 .. z.until
      BY <1>1, <2>0, <2>1
    <3> QED BY <1>1, <1>8, <3>1
  <2>2. CASE z.mark # NoMark /\ z.mark.before <= s
    <3>1. s \in z.mark.before .. z.mark.frozen
      BY <1>1, <1>4, <2>0, <2>2
    <3> QED BY <1>1, <1>8, <2>2, <3>1 DEF Honest
  <2>3. CASE s \in z.rows
    BY <1>1, <1>5, <2>0, <2>3 DEF Passed, Resolved
  <2>4. CASE s \notin z.rows /\ ~ (s <= z.until) /\ ~ (z.mark # NoMark /\ z.mark.before <= s)
    <3>1. CASE z.until = 0
      <4>1. ~ (Min(z.rows) <= s)
        BY <1>1, <1>2, <1>9, <2>4 DEF Gapless
      <4>2. Min(z.rows) \in 1 .. MaxSig
        BY <1>1, <1>2
      <4>3. s <= base'
        BY <1>6, <2>0, <3>1, <4>1, <4>2
      <4> QED BY <2>0, <4>3 DEF Passed
    <3>2. CASE z.until # 0
      <4>1. s > z.until
        BY <1>1, <2>0, <2>4
      <4>2. s \in Unlooked(z, c)
        BY <2>4, <4>1 DEF Unlooked
      <4> QED BY <1>3, <3>2, <4>2 DEF Passed
    <3> QED BY <3>1, <3>2
  <2> QED BY <2>1, <2>2, <2>3, <2>4
<1>11. ASSUME LowPages < MaxPages PROVE gap' = {}
  <2>1. CASE z.until = 0
    BY <1>0, <1>3, <1>11, <2>1
  <2>2. CASE z.until # 0
    <3>1. ASSUME NEW s \in Unlooked(z, c) PROVE FALSE
      <4>1. /\ s \in 1 .. c /\ s > z.until /\ s \notin z.rows
            /\ z.mark # NoMark => ~ (z.mark.before <= s /\ s <= z.mark.frozen)
        BY DEF Unlooked
      <4>2. ~ (z.mark # NoMark /\ z.mark.before <= s)
        BY <1>0, <1>1, <1>4, <4>1
      <4>3. s \in 1 .. MaxSig /\ InScope(z, s) /\ z.until < s
        BY <1>1, <1>9, <4>1, <4>2
      <4> QED BY <1>1, <1>11, <2>2, <4>1, <4>3 DEF Complete
    <3> QED BY <1>0, <1>3, <1>11, <2>2, <3>1
  <2> QED BY <2>1, <2>2
<1> QED BY <1>3, <1>6, <1>8, <1>10, <1>11

LEMMA SettleKeeps ==
  ASSUME IInv, NEW w \in Sweeps, Settle(w)
  PROVE  IInv'
<1> DEFINE z == sweep[w]
<1>0. /\ z \in SweepRecord /\ SweepIsSound(z) /\ z.pc = "ingest"
      /\ UNCHANGED <<head, gen, seen, safe, queue, done, lost>>
      /\ Shape /\ Books /\ Honest(marker) /\ 1 .. cursor \subseteq Passed
      /\ LowPages < MaxPages => gap = {}
  BY DEF IInv, Shape, Sound, Settle
<1>1. /\ z.rows \in SUBSET (1 .. MaxSig) /\ z.rows # {} /\ z.rows \subseteq Held
      /\ z.ok \subseteq Resolved /\ Honest(z.mark) /\ Gapless(z)
      /\ \A s \in z.rows : s \in 1 .. head
      /\ z.mark \in [frozen : Nat, before : Nat]
  BY <1>0 DEF SweepIsSound, SweepRecord
<1>2. /\ Min(z.rows) \in z.rows /\ Max(z.rows) \in z.rows
      /\ \A s \in z.rows : Min(z.rows) <= s /\ s <= Max(z.rows)
  <2>1. z.rows \in SUBSET Nat /\ head \in Nat /\ \A s \in z.rows : s <= head
    BY <1>0, <1>1 DEF Shape
  <2> HIDE DEF z
  <2> QED BY <1>1, <2>1, MinIsLeast, MaxIsGreatest
<1>3. Idle \in SweepRecord
  BY IdleIsSound DEF Sound
<1>4. walked \subseteq Held \cup lost /\ cursor \in Nat /\ base \in Nat
      /\ marker \in [frozen : Nat, before : Nat] /\ head \in Nat /\ head <= MaxSig
      /\ MaxSig \in Nat
  BY <1>0 DEF Books, Shape
<1> HIDE DEF z
<1>5. CASE KeepWalking(w)
  <2>1. /\ sweep' = [sweep EXCEPT ![w] = Idle]
        /\ marker' = [frozen |-> IF z.mark = NoMark THEN Max(z.rows) ELSE z.mark.frozen,
                      before |-> Min(z.rows)]
        /\ walked' = walked \cup z.rows /\ UNCHANGED <<cursor, base, gap>>
    BY <1>5 DEF KeepWalking, End, z
  <2>2. /\ marker'.before = Min(z.rows)
        /\ marker'.frozen = IF z.mark = NoMark THEN Max(z.rows) ELSE z.mark.frozen
        /\ marker' \in [frozen : Nat, before : Nat]
        /\ marker'.before \in 1 .. head /\ marker'.frozen \in 1 .. head
    BY <1>1, <1>2, <1>4, <2>1 DEF Honest
  <2>3. Passed \subseteq Passed' /\ z.rows \subseteq Passed'
    BY <1>0, <2>1 DEF Passed, Resolved
  <2>4. ASSUME NEW s \in marker'.before .. marker'.frozen PROVE s \in Passed'
    <3>0. s \in 1 .. MaxSig /\ Min(z.rows) <= s /\ s <= marker'.frozen
      BY <1>4, <2>2
    <3>1. CASE z.mark = NoMark
      <4>1. InScope(z, s)
        BY <1>2, <2>2, <3>0, <3>1 DEF InScope
      <4> QED BY <4>1, <1>1, <1>2, <2>3, <3>0 DEF Gapless
    <3>2. CASE z.mark # NoMark /\ s < z.mark.before
      <4>1. InScope(z, s)
        BY <3>2 DEF InScope
      <4> QED BY <4>1, <1>1, <1>2, <2>3, <3>0 DEF Gapless
    <3>3. CASE z.mark # NoMark /\ ~ (s < z.mark.before)
      <4>1. s \in z.mark.before .. z.mark.frozen
        BY <1>1, <2>2, <3>0, <3>3
      <4> QED BY <1>1, <2>3, <3>3, <4>1 DEF Honest
    <3> QED BY <3>1, <3>2, <3>3
  <2>5. Honest(marker)'
    <3>1. marker'.before \in 1 .. head' /\ marker'.frozen \in 1 .. head'
      BY <1>0, <2>2
    <3>2. marker'.before .. marker'.frozen \subseteq Passed'
      BY <2>4
    <3> QED BY <3>1, <3>2 DEF Honest
  <2>6. walked' \subseteq Held \cup lost
    BY <1>1, <1>4, <2>1
  <2>7. /\ cursor' \in Nat /\ base' \in Nat /\ (1 .. cursor \subseteq Passed)'
        /\ LowPages < MaxPages => gap' = {}
    BY <1>0, <1>4, <2>1, <2>3
  <2> QED BY <1>0, <1>3, <2>1, <2>2, <2>3, <2>5, <2>6, <2>7, CursorMoves
<1>6. ASSUME NEW c \in 1 .. MaxSig, MoveCursor(z, c), ~ z.full,
             UNCHANGED <<marker, walked>>,
             NEW r \in SweepRecord, r.pc = "clear" \/ r = Idle,
             sweep' = [sweep EXCEPT ![w] = r],
             \A q \in z.rows : q <= c => q \in z.ok,
             \/ z.mark = NoMark /\ c \in z.rows
             \/ z.mark # NoMark /\ c = z.mark.frozen
      PROVE  IInv'
  <2>1. /\ cursor' = c /\ base' \in Nat /\ Passed \subseteq Passed'
        /\ LowPages < MaxPages => gap' = {}
        /\ 1 .. c \subseteq Passed'
    BY <1>0, <1>6, MoveCursorKeeps DEF z
  <2>2. (1 .. cursor \subseteq Passed)' /\ cursor' \in Nat
    BY <2>1
  <2>3. Honest(marker)'
    BY <1>0, <1>6, <2>1 DEF Honest
  <2>4. marker' \in [frozen : Nat, before : Nat] /\ walked' \subseteq Held \cup lost
    BY <1>4, <1>6
  <2> QED BY <1>0, <1>6, <2>1, <2>2, <2>3, <2>4, CursorMoves
<1>7. CASE FinishWalk(w)
  <2>0. /\ ~ z.full /\ z.mark # NoMark /\ UNCHANGED <<marker, walked>>
    BY <1>7 DEF FinishWalk, z
  <2>1. CASE SafeAdvance(z.rows, z.ok) = Max(z.rows)
    <3> DEFINE r == [z EXCEPT !.pc = "clear"]
    <3>1. MoveCursor(z, z.mark.frozen) /\ sweep' = [sweep EXCEPT ![w] = r]
      BY <1>7, <2>1 DEF FinishWalk, Becomes, z
    <3>2. r \in SweepRecord /\ r.pc = "clear"
      BY <1>0 DEF SweepRecord
    <3> HIDE DEF r
    <3>3. z.mark.frozen \in 1 .. MaxSig
      BY <1>1, <1>4, <2>0 DEF Honest
    <3>4. \A q \in z.rows : q \in z.ok
      <4>1. SafeAdvance(z.rows, z.ok) # 0
        BY <1>1, <1>2, <2>1
      <4> QED BY <4>1, <1>1, <1>2, <2>1, SafeAdvanceIsSafe
    <3> QED BY <1>6, <2>0, <3>1, <3>2, <3>3, <3>4
  <2>2. CASE SafeAdvance(z.rows, z.ok) # Max(z.rows)
    <3>1. End(w) /\ UNCHANGED <<cursor, base, gap>>
      BY <1>7, <2>2 DEF FinishWalk, z
    <3> QED BY <1>0, <2>0, <3>1, EndKeeps DEF stored
  <2> QED BY <2>1, <2>2
<1>8. CASE Advance(w)
  <2> DEFINE a == SafeAdvance(z.rows, z.ok)
  <2>0. ~ z.full /\ z.mark = NoMark /\ End(w) /\ UNCHANGED <<marker, walked>>
    BY <1>8 DEF Advance, z
  <2>1. CASE a = 0
    <3>1. UNCHANGED <<cursor, base, gap>>
      BY <1>8, <2>1 DEF Advance, z
    <3> QED BY <1>0, <2>0, <3>1, EndKeeps DEF stored
  <2>2. CASE a # 0
    <3>1. MoveCursor(z, a)
      BY <1>8, <2>2 DEF Advance, z
    <3>2. a \in z.rows /\ \A q \in z.rows : q <= a => q \in z.ok
      BY <1>1, <2>2, SafeAdvanceIsSafe
    <3> HIDE DEF a
    <3>3. a \in 1 .. MaxSig
      BY <1>1, <3>2
    <3>4. sweep' = [sweep EXCEPT ![w] = Idle]
      BY <2>0 DEF End
    <3> QED BY <1>3, <1>6, <2>0, <3>1, <3>2, <3>3, <3>4
  <2> QED BY <2>1, <2>2
<1> QED BY <1>5, <1>7, <1>8 DEF Settle

\* Nothing new below the walk: the frozen head may become the cursor.
LEMMA PromoteKeeps ==
  ASSUME IInv, NEW w \in Sweeps, Promote(w)
  PROVE  IInv'
<1> DEFINE z == sweep[w]
           r == [z EXCEPT !.pc = "clear"]
<1>0. /\ z \in SweepRecord /\ SweepIsSound(z) /\ z.pc = "promote"
      /\ head \in Nat /\ head <= MaxSig /\ MaxSig \in Nat
      /\ Shape /\ Books
  BY DEF IInv, Shape, Sound, Promote
<1>1. /\ z.rows = {} /\ z.mark # NoMark /\ Complete(z) /\ Honest(z.mark)
      /\ 1 .. z.until \subseteq Passed
      /\ z.until \in Nat /\ z.mark \in [frozen : Nat, before : Nat]
  BY <1>0 DEF SweepIsSound, SweepRecord
<1>2. /\ cursor' = z.mark.frozen /\ sweep' = [sweep EXCEPT ![w] = r]
      /\ UNCHANGED <<head, gen, seen, safe, queue, done, lost, marker, base, gap, walked>>
  BY DEF Promote, Becomes, history
<1>3. r \in SweepRecord /\ r.pc = "clear"
  BY <1>0 DEF SweepRecord
<1> HIDE DEF r, z
<1>4. ASSUME NEW s \in 1 .. z.mark.frozen PROVE s \in Passed
  <2>0. s \in 1 .. MaxSig
    BY <1>0, <1>1 DEF Honest
  <2>1. CASE s <= z.until
    <3>1. s \in 1 .. z.until
      BY <1>1, <2>0, <2>1
    <3> QED BY <1>1, <3>1
  <2>2. CASE z.mark.before <= s
    <3>1. s \in z.mark.before .. z.mark.frozen
      BY <1>1, <2>2
    <3> QED BY <1>1, <3>1 DEF Honest
  <2>3. CASE ~ (s <= z.until) /\ ~ (z.mark.before <= s)
    <3>1. z.until < s /\ s < z.mark.before
      BY <1>1, <2>0, <2>3
    <3> QED BY <1>1, <2>0, <3>1 DEF Complete, InScope
  <2> QED BY <2>1, <2>2, <2>3
<1>5. Passed' = Passed
  BY <1>2 DEF Passed, Resolved
<1>6. (1 .. cursor \subseteq Passed)'
  BY <1>2, <1>4, <1>5
<1>7. Honest(marker)'
  BY <1>2, <1>5 DEF IInv, Honest
<1>8. /\ cursor' \in Nat /\ base' \in Nat /\ marker' \in [frozen : Nat, before : Nat]
      /\ walked' \subseteq Held \cup lost /\ (LowPages < MaxPages => gap' = {})
  BY <1>0, <1>1, <1>2 DEF IInv, Shape, Books
<1> QED BY <1>2, <1>3, <1>5, <1>6, <1>7, <1>8, CursorMoves

LEMMA ClearMarkerKeeps ==
  ASSUME IInv, NEW w \in Sweeps, ClearMarker(w)
  PROVE  IInv'
<1>1. /\ sweep' = [sweep EXCEPT ![w] = Idle] /\ marker' = NoMark
      /\ UNCHANGED <<head, gen, seen, safe, queue, done, lost, cursor, base, gap, walked>>
  BY DEF ClearMarker, End, history
<1>2. NoMark \in [frozen : Nat, before : Nat] /\ Idle \in SweepRecord
  BY IdleIsSound DEF NoMark, Sound
<1>3. Passed' = Passed
  BY <1>1 DEF Passed, Resolved
<1>4. Honest(marker)' /\ (1 .. cursor \subseteq Passed)'
  BY <1>1, <1>3 DEF Honest, IInv
<1>5. /\ cursor' \in Nat /\ base' \in Nat /\ marker' \in [frozen : Nat, before : Nat]
      /\ walked' \subseteq Held \cup lost /\ (LowPages < MaxPages => gap' = {})
  BY <1>1, <1>2 DEF IInv, Shape, Books
<1> QED BY <1>1, <1>2, <1>3, <1>4, <1>5, CursorMoves

\* Nothing in memory or in the store changes.
LEMMA WorldKeeps ==
  ASSUME IInv, head' \in 0 .. MaxSig, head <= head', gen' \in Nat,
         UNCHANGED <<sweep, seen, safe, queue, cursor, marker, done, base, gap, walked, lost>>
  PROVE  IInv'
<1>1. Passed' = Passed /\ Held' = Held /\ Resolved' = Resolved
  BY DEF Passed, Held, Resolved
<1>2. head \in Nat /\ head' \in Nat
  BY DEF IInv, Shape
<1>3. Sound \subseteq Sound'
  BY <1>1, <1>2, SoundStays
<1>4. sweep' \in [Sweeps -> Sound']
  BY <1>3 DEF IInv
<1>5. \A s \in 1 .. head : s \in 1 .. head'
  BY <1>2
<1>6. Honest(marker)' /\ (1 .. cursor \subseteq Passed)'
  BY <1>1, <1>5 DEF IInv, Honest
<1>7. Shape' /\ Books'
  BY <1>1 DEF IInv, Shape, Books
<1> QED BY <1>4, <1>6, <1>7 DEF IInv

\* A crash takes the backlog: what a walk had left in it is lost.
LEMMA CrashKeeps ==
  ASSUME IInv, Crash
  PROVE  IInv'
<1>1. /\ sweep' = [w \in Sweeps |-> Idle] /\ gen' = 0
      /\ seen' = {} /\ safe' = {} /\ queue' = << >>
      /\ lost' = lost \cup (walked \cap Range(queue))
      /\ UNCHANGED <<head, cursor, marker, done, base, gap, walked>>
  BY DEF Crash, stored
<1>2. << >> \in Seq(1 .. MaxSig)
  OBVIOUS
<1>3. Shape'
  BY <1>1, <1>2 DEF IInv, Shape
<1>4. Books'
  BY <1>1 DEF IInv, Books, Held, Resolved
<1>5. Passed' = Passed
  BY <1>1 DEF Passed, Resolved
<1>6. Honest(marker)' /\ (1 .. cursor \subseteq Passed)'
  BY <1>1, <1>5 DEF IInv, Honest
<1>7. sweep' \in [Sweeps -> Sound']
  BY <1>1, IdleIsSound
<1> QED BY <1>1, <1>3, <1>4, <1>6, <1>7 DEF IInv

LEMMA NextKeeps ==
  ASSUME IInv, [Next]_vars
  PROVE  IInv'
<1>0. head \in 0 .. MaxSig /\ gen \in Nat
  BY DEF IInv, Shape
<1>1. CASE UNCHANGED vars
  BY <1>0, <1>1, WorldKeeps DEF vars, memory, stored, history
<1>2. ASSUME NEW w \in Sweeps, SweepFails(w) PROVE IInv'
  BY <1>2, EndKeeps DEF SweepFails
<1>3. CASE NewSignature
  <2>1. head' \in 0 .. MaxSig /\ head <= head'
    BY <1>0, <1>3 DEF NewSignature
  <2> QED BY <1>0, <1>3, <2>1, WorldKeeps DEF NewSignature, memory, stored, history
<1>4. CASE ChangeMode
  <2>1. head <= head' /\ head' \in 0 .. MaxSig /\ gen' \in Nat
    BY <1>0, <1>4 DEF ChangeMode
  <2> QED BY <1>4, <2>1, WorldKeeps DEF ChangeMode, stored
<1>5. ASSUME NEW w \in Sweeps,
             \/ Begin(w) \/ ReadCursor(w) \/ ReadMarker(w) \/ FetchFresh(w)
             \/ Settle(w) \/ Promote(w) \/ ClearMarker(w)
      PROVE  IInv'
  BY <1>5, BeginKeeps, ReadsKeep, FetchFreshKeeps, SettleKeeps, PromoteKeeps,
     ClearMarkerKeeps
<1>6. ASSUME NEW w \in Sweeps, \E pressure \in Pressures : FetchPage(w, pressure)
      PROVE  IInv'
  BY <1>6, FetchPageKeeps
<1>7. ASSUME NEW w \in Sweeps,
             \E s \in 1 .. MaxSig, terminal \in BOOLEAN : IngestReturns(w, s, terminal)
      PROVE  IInv'
  BY <1>7, IngestReturnsKeeps
<1>8. CASE Next
  BY <1>8, <1>2, <1>3, <1>4, <1>5, <1>6, <1>7, CrashKeeps DEF Next
<1> QED BY <1>1, <1>8

----------------------------------------------------------------------------
\* However many sweeps overlap, and whatever the page budget, the persisted
\* cursor passes a signature only when its outcome is terminal, when a catch-up
\* walk left it in the memory backlog, or when the pages of a sweep did not
\* reach it, which a budget over the threshold rules out: pages, budgets,
\* backlog, failures, mode changes and crashes lose nothing else.
THEOREM CursorSkipsNothing == Spec => []NothingSkipped
<1>1. Init => IInv
  BY InitIInv
<1>2. IInv /\ [Next]_vars => IInv'
  BY NextKeeps
<1>3. QED
  BY <1>1, <1>2, IInvSkipsNothing, PTL DEF Spec

\* The rest of the types: two flags and the history.
Flags ==
  /\ on \in BOOLEAN /\ inFlight \in BOOLEAN
  /\ done \subseteq 1 .. MaxSig /\ gap \subseteq 1 .. MaxSig
  /\ walked \subseteq 1 .. MaxSig /\ lost \subseteq 1 .. MaxSig

LEMMA FlagsKeep == IInv /\ Flags /\ [Next]_vars => Flags'
<1> SUFFICES ASSUME IInv, Flags, [Next]_vars PROVE Flags'
  OBVIOUS
<1>1. \A w \in Sweeps : sweep[w] \in SweepRecord /\ SweepIsSound(sweep[w])
  BY DEF IInv, Sound
<1>2. \A w \in Sweeps : sweep[w].rows \in SUBSET (1 .. MaxSig)
  BY <1>1 DEF SweepRecord
<1> USE DEF Flags, End, Becomes, history
<1>3. ASSUME NEW w \in Sweeps, Begin(w) \/ ReadCursor(w) \/ ReadMarker(w) \/ FetchFresh(w)
      PROVE  Flags'
  BY <1>3 DEF Begin, ReadCursor, ReadMarker, FetchFresh
<1>4. ASSUME NEW w \in Sweeps, NEW p \in Pressures, FetchPage(w, p) PROVE Flags'
  BY <1>4 DEF FetchPage, Assess, Scanned
<1>5. ASSUME NEW w \in Sweeps, NEW s \in 1 .. MaxSig, NEW t \in BOOLEAN,
             IngestReturns(w, s, t)
      PROVE  Flags'
  BY <1>5 DEF IngestReturns
<1>6. ASSUME NEW w \in Sweeps, Settle(w) PROVE Flags'
  <2>1. UNCHANGED <<on, done, lost>>
    BY <1>6 DEF Settle
  <2>2. inFlight' \in BOOLEAN /\ walked' \subseteq 1 .. MaxSig
    BY <1>2, <1>6 DEF Settle, KeepWalking, FinishWalk, Advance
  <2>3. \A c \in 1 .. MaxSig : Unlooked(sweep[w], c) \subseteq 1 .. MaxSig
    BY DEF Unlooked
  <2>4. ASSUME NEW c \in 1 .. MaxSig, MoveCursor(sweep[w], c) PROVE gap' \subseteq 1 .. MaxSig
    BY <2>3, <2>4 DEF MoveCursor
  <2>5. gap' \subseteq 1 .. MaxSig
    <3>1. CASE KeepWalking(w)
      BY <3>1 DEF KeepWalking
    <3>2. CASE FinishWalk(w)
      <4>1. sweep[w].mark.frozen \in 1 .. MaxSig
        <5>1. Honest(sweep[w].mark) /\ sweep[w].mark # NoMark
          BY <1>1, <1>6, <3>2 DEF Settle, FinishWalk, SweepIsSound
        <5>2. head \in Nat /\ head <= MaxSig /\ MaxSig \in Nat
          BY DEF IInv, Shape
        <5> QED BY <5>1, <5>2 DEF Honest
      <4> QED BY <2>4, <3>2, <4>1 DEF FinishWalk
    <3>3. CASE Advance(w)
      <4> DEFINE a == SafeAdvance(sweep[w].rows, sweep[w].ok)
      <4>1. a = 0 => gap' = gap
        BY <3>3 DEF Advance
      <4>2. a # 0 => a \in 1 .. MaxSig /\ MoveCursor(sweep[w], a)
        BY <1>2, <3>3, SafeAdvanceIsSafe DEF Advance
      <4> HIDE DEF a
      <4> QED BY <2>4, <4>1, <4>2
    <3> QED BY <1>6, <3>1, <3>2, <3>3 DEF Settle
  <2> QED BY <2>1, <2>2, <2>5
<1>7. ASSUME NEW w \in Sweeps, Promote(w) \/ ClearMarker(w) \/ SweepFails(w) PROVE Flags'
  BY <1>7 DEF Promote, ClearMarker, SweepFails
<1>8. CASE NewSignature \/ ChangeMode \/ Crash
  BY <1>8 DEF NewSignature, ChangeMode, Crash, memory
<1>9. CASE UNCHANGED vars
  BY <1>9 DEF vars, memory
<1> QED BY <1>3, <1>4, <1>5, <1>6, <1>7, <1>8, <1>9 DEF Next

\* Every reachable state of the poller is well typed, and an outcome is only
\* remembered of a signature that had one.
THEOREM PollerTypeCorrect == Spec => []TypeOK
<1>1. Init => IInv /\ Flags
  BY InitIInv DEF Init, Flags
<1>2. IInv /\ Flags /\ [Next]_vars => IInv' /\ Flags'
  BY NextKeeps, FlagsKeep
<1>3. IInv /\ Flags => TypeOK
  BY DEF IInv, Shape, Books, Flags, Sound, TypeOK
<1>4. QED
  BY <1>1, <1>2, <1>3, PTL DEF Spec
=============================================================================
