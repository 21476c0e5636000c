------------------------- MODULE StoredCountsProofs -------------------------
(***************************************************************************)
(* The two stored counts: the minted counts of a row, for every bound on   *)
(* the environment, and the holdings of a seller, for any number of sales  *)
(* under way, any wallet and any number of failures and restarts.          *)
(***************************************************************************)
EXTENDS MCStoredCounts, Sequences, FiniteSetTheorems, TLAPS

\* What carries the bound over a step: the numbers counted here are at most
\* the c counted mints, those that were told to it at most the n minted ones.
RowAtMost(r, c, n) ==
  r.observed <= c /\ r.local <= c /\ r.onChain <= n /\ r.minted <= n
StatusAtMost(s, c, n) ==
  /\ s.observed <= c /\ s.supply <= n /\ s.minted <= n
  /\ ~s.verified => s.supply <= c

\* A status the snapshot can hold is one the wire form represents: a verified
\* row has a number, an optimistic one has none or a positive one.
IsWire(s) == IF s.verified THEN s.supply # Missing ELSE s.supply # 0

RowInv(r, c, n) == r # NoRow => r \in Row /\ RowAtMost(r, c, n)
StatusInv(s, c, n) ==
  s # NoRow => s \in Status /\ StatusAtMost(s, c, n) /\ IsWire(s)

IInv ==
  /\ chain \in Nat /\ counted \in Nat /\ asks \in Nat /\ boots \in Nat
  /\ counted <= chain
  /\ RowInv(row, counted, chain)
  /\ StatusInv(frame, counted, chain)
  /\ StatusInv(saved, counted, chain)

\* What a step may do to a row that stays.
Rises(r, q) ==
  SupplyMinted(q) >= SupplyMinted(r) /\ (r.onChain # Missing => q.onChain # Missing)

LEMMA FreshFacts == FreshRow \in Row /\ RowAtMost(FreshRow, 0, 0)
BY DEF FreshRow, Row, Number, Missing, RowAtMost

LEMMA StatusFacts ==
  ASSUME NEW r \in Row, NEW c \in Nat, NEW n \in Nat, c <= n, RowAtMost(r, c, n)
  PROVE  /\ BuildStatus(r) \in Status
         /\ BuildStatus(r) # NoRow
         /\ StatusAtMost(BuildStatus(r), c, n)
         /\ IsWire(BuildStatus(r))
<1>1. BuildStatus(r) \in Status
  BY DEF Row, Status, Number, Missing, BuildStatus, SupplyMinted, Larger
<1>f. /\ BuildStatus(r).observed = r.observed
      /\ BuildStatus(r).supply = SupplyMinted(r)
      /\ BuildStatus(r).verified = (r.onChain # Missing)
      /\ BuildStatus(r).minted = r.minted
  BY DEF BuildStatus
<1>t. r.local \in Nat /\ r.onChain \in Number
  BY DEF Row
<1>2. CASE r.onChain = Missing
  <2>1. ~ BuildStatus(r).verified BY <1>2, <1>f
  <2>2. BuildStatus(r).supply = IF r.local > 0 THEN r.local ELSE Missing
    BY <1>2, <1>f DEF SupplyMinted
  <2> QED BY <1>1, <1>f, <1>t, <2>1, <2>2, NoRowIsNothing
          DEF Missing, RowAtMost, StatusAtMost, IsWire
<1>3. CASE r.onChain # Missing
  <2>1. BuildStatus(r).verified BY <1>3, <1>f
  <2>2. BuildStatus(r).supply = Larger(r.onChain, r.local) /\ r.onChain \in Nat
    BY <1>3, <1>f, <1>t DEF SupplyMinted, Number
  <2>3. BuildStatus(r).supply \in {r.onChain, r.local}
    BY <2>2 DEF Larger
  <2> QED BY <1>1, <1>f, <1>t, <2>1, <2>2, <2>3, NoRowIsNothing
          DEF Missing, RowAtMost, StatusAtMost, IsWire
<1> QED BY <1>2, <1>3

LEMMA HydratedFacts ==
  ASSUME NEW s \in Status, NEW c \in Nat, NEW n \in Nat, StatusAtMost(s, c, n), IsWire(s)
  PROVE  /\ Hydrated(s) \in Row
         /\ RowAtMost(Hydrated(s), c, n)
         /\ BuildStatus(Hydrated(s)) = s
<1>1. Hydrated(s) \in Row /\ RowAtMost(Hydrated(s), c, n)
  BY DEF Row, Status, Number, Missing, Hydrated, Larger, RowAtMost, StatusAtMost
<1>2. BuildStatus(Hydrated(s)) = s
  BY DEF Status, Number, Missing, Hydrated, Larger, BuildStatus, SupplyMinted, IsWire
<1> QED BY <1>1, <1>2

\* The bounds only grow.
LEMMA Monotone ==
  ASSUME NEW c \in Nat, NEW n \in Nat, NEW d \in Nat, NEW m \in Nat, c <= d, n <= m
  PROVE  /\ \A r \in Row : RowAtMost(r, c, n) => RowAtMost(r, d, m)
         /\ \A s \in Status : StatusAtMost(s, c, n) => StatusAtMost(s, d, m)
<1>1. \A r \in Row : RowAtMost(r, c, n) => RowAtMost(r, d, m)
  BY DEF Row, Number, Missing, RowAtMost
<1>2. \A s \in Status : StatusAtMost(s, c, n) => StatusAtMost(s, d, m)
  BY DEF Status, Number, Missing, StatusAtMost
<1> QED BY <1>1, <1>2

\* Putting other values in the fields SUPPLY does not depend on.
LEMMA SameSupply ==
  ASSUME NEW r \in Row, NEW q \in Row, q.onChain = r.onChain, q.local = r.local
  PROVE  Rises(r, q)
<1>1. SupplyMinted(q) = SupplyMinted(r)
  BY DEF SupplyMinted
<1>2. SupplyMinted(r) \in Int
  BY DEF SupplyMinted, Row, Number, Missing, Larger
<1> QED BY <1>1, <1>2 DEF Rises

\* One counted mint is one more in both local counts.
LEMMA CountFacts ==
  ASSUME NEW r \in Row, NEW c \in Nat, NEW n \in Nat, c < n, RowAtMost(r, c, n)
  PROVE  /\ Count(r) \in Row
         /\ RowAtMost(Count(r), c + 1, n)
         /\ Rises(r, Count(r))
<1>1. Count(r) \in Row
  <2>1. r.observed + 1 \in Nat /\ r.local + 1 \in Nat BY DEF Row
  <2>2. \A x, y \in Nat : [r EXCEPT !.observed = x, !.local = y] \in Row BY DEF Row
  <2> QED BY <2>1, <2>2 DEF Count
<1>2. /\ Count(r).observed = r.observed + 1 /\ Count(r).local = r.local + 1
      /\ Count(r).onChain = r.onChain /\ Count(r).minted = r.minted
  BY DEF Count, Row
<1>3. r.observed \in Nat /\ r.local \in Nat /\ r.onChain \in Number /\ r.minted \in Number
  BY DEF Row
<1>4. RowAtMost(Count(r), c + 1, n)
  BY <1>2, <1>3 DEF RowAtMost, Number, Missing
<1>5. Rises(r, Count(r))
  BY <1>2, <1>3 DEF SupplyMinted, Larger, Rises, Number, Missing
<1> QED BY <1>1, <1>4, <1>5

LEMMA MirroredFacts ==
  ASSUME NEW r \in Row, NEW c \in Nat, NEW n \in Nat, c <= n, RowAtMost(r, c, n),
         NEW q \in {Mirrored(r), [r EXCEPT !.throttled = TRUE]}
  PROVE  /\ q \in Row
         /\ RowAtMost(q, c, n)
         /\ q.onChain = r.onChain /\ q.local = r.local
<1> DEFINE m == Larger(r.onChain, r.observed)
<1>1. m \in Number /\ m <= n
  BY DEF Row, Number, Missing, RowAtMost, Larger
<1>2. CASE q = Mirrored(r)
  <2>1. q = [r EXCEPT !.minted = m, !.throttled = TRUE]
    BY <1>2 DEF Mirrored
  <2> HIDE DEF m
  <2> QED BY <2>1, <1>1 DEF Row, RowAtMost
<1>3. CASE q = [r EXCEPT !.throttled = TRUE]
  BY <1>3 DEF Row, RowAtMost
<1> QED BY <1>2, <1>3

LEMMA RisesFacts ==
  ASSUME NEW r \in Row, NEW q \in Row, NEW p \in Row, Rises(r, q), Rises(q, p)
  PROVE  Rises(r, p)
<1>1. \A x \in Row : SupplyMinted(x) \in Int
  BY DEF SupplyMinted, Row, Number, Missing, Larger
<1> QED BY <1>1 DEF Rises

----------------------------------------------------------------------------
\* A step that writes a row within the bounds and shows it.
LEMMA Emitted ==
  ASSUME IInv, NEW r \in Row, WriteAndEmit(r), asks' \in Nat, boots' \in Nat,
         counted' \in Nat, counted' \in {counted, counted + 1}, counted' <= chain,
         RowAtMost(r, counted', chain), UNCHANGED <<chain, saved>>
  PROVE  IInv'
<1>1. RowInv(row', counted', chain') /\ StatusInv(frame', counted', chain')
  BY StatusFacts DEF WriteAndEmit, RowInv, StatusInv, IInv
<1>2. StatusInv(saved', counted', chain')
  BY Monotone DEF StatusInv, IInv
<1> QED BY <1>1, <1>2 DEF IInv

LEMMA InitIInv == Init => IInv
BY DEF Init, IInv, RowInv, StatusInv

\* Every step keeps the bounds.
LEMMA NextIInv == IInv /\ [Next]_vars => IInv'
<1> SUFFICES ASSUME IInv, [Next]_vars PROVE IInv'
  OBVIOUS
<1>a. /\ chain \in Nat /\ counted \in Nat /\ asks \in Nat /\ boots \in Nat
      /\ counted <= chain
      /\ row # NoRow => row \in Row /\ RowAtMost(row, counted, chain)
  BY DEF IInv, RowInv
<1>f. FreshRow \in Row /\ RowAtMost(FreshRow, counted, chain)
  BY <1>a, FreshFacts, Monotone
<1>1. CASE ChainMint
  <2>1. RowInv(row', counted', chain')
    BY <1>1, <1>a, Monotone DEF ChainMint, RowInv
  <2>2. StatusInv(frame', counted', chain') /\ StatusInv(saved', counted', chain')
    BY <1>1, <1>a, Monotone DEF ChainMint, StatusInv, IInv
  <2> QED BY <1>1, <1>a, <2>1, <2>2 DEF ChainMint, IInv
<1>2. CASE RecordMint
  <2> DEFINE old == IF row = NoRow THEN FreshRow ELSE row
             r == Count(old)
  <2>1. old \in Row /\ RowAtMost(old, counted, chain) BY <1>a, <1>f
  <2>2. counted < chain /\ counted' = counted + 1 /\ chain' = chain
        /\ saved' = saved /\ boots' = boots
    BY <1>2 DEF RecordMint
  <2>3. r \in Row /\ RowAtMost(r, counted', chain)
    BY <2>1, <2>2, <1>a, CountFacts
  <2>4. asks' \in Nat /\ \E q \in {r, Mirrored(r), [r EXCEPT !.throttled = TRUE]} :
           WriteAndEmit(q)
    BY <1>2, <1>a DEF RecordMint
  <2>5. PICK q \in {r, Mirrored(r), [r EXCEPT !.throttled = TRUE]} : WriteAndEmit(q)
    BY <2>4
  <2>6. q \in Row /\ RowAtMost(q, counted', chain)
    <3>1. counted' \in Nat /\ counted' <= chain BY <2>2, <1>a
    <3> HIDE DEF r
    <3> QED BY <3>1, <2>3, <2>5, <1>a, MirroredFacts
  <2>7. counted' \in Nat /\ counted' <= chain /\ boots' \in Nat BY <2>2, <1>a
  <2> HIDE DEF r
  <2> QED BY <2>2, <2>4, <2>5, <2>6, <2>7, Emitted
<1>3. CASE RecordCreate
  <2>1. PICK r \in Row : RowAtMost(r, counted, chain) /\ WriteAndEmit(r)
    BY <1>3, <1>a, <1>f DEF RecordCreate
  <2> QED BY <1>3, <1>a, <2>1, Emitted DEF RecordCreate
<1>4. CASE ThrottleOpens
  <2>1. row \in Row /\ RowAtMost(row, counted, chain) BY <1>4, <1>a DEF ThrottleOpens
  <2>2. row' \in Row /\ RowAtMost(row', counted, chain)
    BY <1>4, <2>1 DEF ThrottleOpens, Row, RowAtMost
  <2> QED BY <1>4, <2>2 DEF ThrottleOpens, IInv, RowInv
<1>5. CASE DasAnswers
  <2>1. CASE UNCHANGED <<row, frame>>
    BY <1>5, <2>1, <1>a DEF DasAnswers, IInv
  <2>2. CASE ~ UNCHANGED <<row, frame>>
    <3> DEFINE Total(das) == Larger(das, Larger(row.observed, row.minted))
    <3>1. row \in Row /\ RowAtMost(row, counted, chain)
      BY <1>5, <2>2, <1>a DEF DasAnswers
    <3>2. PICK das \in 0 .. chain :
            /\ \/ row' = [row EXCEPT !.minted = Total(das)]
               \/ row' = [row EXCEPT !.minted = Total(das), !.throttled = TRUE]
            /\ frame' = IF row.minted = Total(das) THEN frame ELSE BuildStatus(row')
      BY <1>5, <2>2 DEF DasAnswers
    <3>3. Total(das) \in Number /\ Total(das) <= chain
      BY <3>1, <1>a DEF Row, Number, Missing, RowAtMost, Larger
    <3>4. row' \in Row /\ RowAtMost(row', counted, chain)
      <4> HIDE DEF Total
      <4> QED BY <3>1, <3>2, <3>3 DEF Row, RowAtMost
    <3>5. StatusInv(frame', counted, chain)
      <4> HIDE DEF Total
      <4> QED BY <3>2, <3>4, <1>a, StatusFacts DEF StatusInv, IInv
    <3>6. UNCHANGED <<chain, counted, saved, boots>> /\ asks > 0 /\ asks' = asks - 1
      BY <1>5 DEF DasAnswers
    <3> QED BY <3>4, <3>5, <3>6, <1>a DEF IInv, RowInv
  <2> QED BY <2>1, <2>2
<1>6. CASE PatchCoreSupply
  <2>1. row \in Row /\ RowAtMost(row, counted, chain) BY <1>6, <1>a DEF PatchCoreSupply
  <2>2. PICK n \in 0 .. chain : WriteAndEmit([row EXCEPT !.onChain = Larger(n, @)])
    BY <1>6 DEF PatchCoreSupply
  <2>3. [row EXCEPT !.onChain = Larger(n, @)] \in Row
        /\ RowAtMost([row EXCEPT !.onChain = Larger(n, @)], counted, chain)
    BY <2>1, <1>a DEF Row, Number, Missing, RowAtMost, Larger
  <2> QED BY <1>6, <1>a, <2>2, <2>3, Emitted DEF PatchCoreSupply
<1>7. CASE PatchLmnft
  <2>1. row \in Row /\ RowAtMost(row, counted, chain) BY <1>7, <1>a DEF PatchLmnft
  <2>2. PICK n \in 0 .. chain : WriteAndEmit([row EXCEPT !.minted = n])
    BY <1>7 DEF PatchLmnft
  <2>3. [row EXCEPT !.minted = n] \in Row
        /\ RowAtMost([row EXCEPT !.minted = n], counted, chain)
    BY <2>1, <1>a DEF Row, Number, RowAtMost
  <2> QED BY <1>7, <1>a, <2>2, <2>3, Emitted DEF PatchLmnft
<1>8. CASE Evict
  BY <1>8 DEF Evict, IInv, RowInv
<1>9. CASE SaveSnapshot
  <2>1. StatusInv(saved', counted, chain)
    BY <1>9, <1>a, StatusFacts DEF SaveSnapshot, StatusInv
  <2> QED BY <1>9, <2>1 DEF SaveSnapshot, IInv
<1>10. CASE Restart
  <2>1. CASE saved = NoRow
    BY <1>10, <2>1, <1>a DEF Restart, IInv, RowInv, StatusInv
  <2>2. CASE saved # NoRow
    <3>1. Hydrated(saved) \in Row /\ RowAtMost(Hydrated(saved), counted, chain)
      BY <2>2, <1>a, HydratedFacts DEF IInv, StatusInv
    <3>2. WriteAndEmit(Hydrated(saved)) /\ UNCHANGED <<chain, counted, saved>>
          /\ asks' \in Nat /\ boots' \in Nat
      BY <1>10, <2>2, <1>a DEF Restart
    <3> QED BY <3>1, <3>2, <1>a, Emitted
  <2> QED BY <2>1, <2>2
<1>11. CASE UNCHANGED vars
  BY <1>11 DEF vars, IInv
<1> QED
  BY <1>1, <1>2, <1>3, <1>4, <1>5, <1>6, <1>7, <1>8, <1>9, <1>10, <1>11 DEF Next

LEMMA Invariance == Spec => []IInv
BY InitIInv, NextIInv, PTL DEF Spec

\* Every reachable state is well typed (accumulator.ts, both minted counts).
THEOREM SupplyTypeCorrect == Spec => []TypeOK
<1>1. IInv => TypeOK
  BY DEF IInv, TypeOK, RowInv, StatusInv
<1> QED BY <1>1, Invariance, PTL

\* No frame shows more than was minted, for every bound on the mints, on the
\* requests under way and on the restarts (buildStatus, accumulator.ts:563).
THEOREM NoColumnAheadOfChain == Spec => []NeverAheadOfChain
<1>1. IInv => NeverAheadOfChain
  BY DEF IInv, NeverAheadOfChain, StatusInv, StatusAtMost
<1> QED BY <1>1, Invariance, PTL

----------------------------------------------------------------------------
\* A live row's SUPPLY column never falls within one run of the process
\* (patchAccumulatorCoreSupply and recordMint only raise its two counts).
THEOREM SupplyIsMonotone == Spec => SupplyNeverFalls
<1> DEFINE Step == row # NoRow /\ row' # NoRow /\ boots' = boots =>
                     /\ SupplyMinted(row') >= SupplyMinted(row)
                     /\ row.onChain # Missing => row'.onChain # Missing
<1>1. ASSUME IInv, IInv', [Next]_vars, row # NoRow, row' # NoRow, boots' = boots
      PROVE  Rises(row, row')
  <2>a. row \in Row /\ row' \in Row /\ RowAtMost(row, counted, chain)
        /\ chain \in Nat /\ counted \in Nat /\ boots \in Nat
    BY <1>1 DEF IInv, RowInv
  <2>1. CASE RecordMint
    <3>1. counted < chain BY <2>1 DEF RecordMint
    <3>2. Count(row) \in Row /\ Rises(row, Count(row))
          /\ RowAtMost(Count(row), counted + 1, chain)
      BY <3>1, <2>a, CountFacts
    <3>3. row' \in {Count(row), Mirrored(Count(row)), [Count(row) EXCEPT !.throttled = TRUE]}
      BY <2>1, <1>1 DEF RecordMint, WriteAndEmit
    <3>4. row'.onChain = Count(row).onChain /\ row'.local = Count(row).local
      <4>1. counted + 1 \in Nat /\ counted + 1 <= chain BY <3>1, <2>a
      <4>2. CASE row' = Count(row) BY <4>2
      <4>3. CASE row' \in {Mirrored(Count(row)), [Count(row) EXCEPT !.throttled = TRUE]}
        BY <4>1, <4>3, <3>2, <2>a, MirroredFacts
      <4> QED BY <4>2, <4>3, <3>3
    <3> QED BY <3>2, <3>4, <2>a, SameSupply, RisesFacts
  <2>2. CASE PatchCoreSupply
    <3>1. PICK n \in 0 .. chain : row' = [row EXCEPT !.onChain = Larger(n, @)]
      BY <2>2 DEF PatchCoreSupply, WriteAndEmit
    <3> QED BY <3>1, <2>a DEF Rises, SupplyMinted, Row, Number, Missing, Larger
  <2>3. CASE Evict
    BY <2>3, <1>1 DEF Evict
  <2>4. CASE Restart
    BY <2>4, <2>a, <1>1 DEF Restart
  <2>5. ASSUME ~ RecordMint, ~ PatchCoreSupply, ~ Evict, ~ Restart
        PROVE  row'.onChain = row.onChain /\ row'.local = row.local
    <3>1. CASE ChainMint BY <3>1 DEF ChainMint
    <3>2. CASE RecordCreate BY <3>2, <1>1 DEF RecordCreate, WriteAndEmit
    <3>3. CASE ThrottleOpens BY <3>3, <2>a DEF ThrottleOpens, Row
    <3>4. CASE DasAnswers BY <3>4, <2>a DEF DasAnswers, Row
    <3>5. CASE PatchLmnft BY <3>5, <2>a DEF PatchLmnft, WriteAndEmit, Row
    <3>6. CASE SaveSnapshot BY <3>6 DEF SaveSnapshot
    <3>7. CASE UNCHANGED vars BY <3>7 DEF vars
    <3> QED BY <1>1, <2>5, <3>1, <3>2, <3>3, <3>4, <3>5, <3>6, <3>7 DEF Next
  <2> QED BY <2>1, <2>2, <2>3, <2>4, <2>5, <2>a, SameSupply
<1>2. IInv /\ IInv' /\ [Next]_vars => [Step]_vars
  BY <1>1 DEF Rises
<1> QED BY <1>2, Invariance, PTL DEF Spec, SupplyNeverFalls

\* A restart shows exactly what the snapshot showed
\* (hydrateAccumulatorFromSnapshot inverts the wire form).
THEOREM SnapshotIsWhatIsShown == Spec => RestartShowsTheSnapshot
<1>1. ASSUME IInv, [Next]_vars, boots' # boots, row' # NoRow
      PROVE  BuildStatus(row') = saved
  <2>1. Restart
    BY <1>1 DEF Next, vars, ChainMint, RecordMint, RecordCreate, ThrottleOpens,
       DasAnswers, PatchCoreSupply, PatchLmnft, Evict, SaveSnapshot
  <2>2. saved # NoRow /\ row' = Hydrated(saved)
    BY <2>1, <1>1 DEF Restart, WriteAndEmit
  <2> QED BY <2>2, <1>1, HydratedFacts DEF IInv, StatusInv
<1>2. IInv /\ [Next]_vars => [boots' # boots /\ row' # NoRow => BuildStatus(row') = saved]_vars
  BY <1>1
<1> QED BY <1>2, Invariance, PTL DEF Spec, RestartShowsTheSnapshot

----------------------------------------------------------------------------
(* The holdings of a seller.                                               *)

\* What the wallet would hold had only our sales left it, less the sales the
\* count has not seen yet: every number the counter keeps estimates it.
Left == held + Cardinality(Holdings!Pending) - moved

\* A number the wallet was read for, and the sales it may be wrong by.
Near(read, n) ==
  /\ read.count \in Nat
  /\ read.count >= n + read.asOf - read.late
  /\ read.count <= n + read.asOf + read.late
ReadIsNear(read, n) == read # Holdings!NoRead => Near(read, n)

\* The scan of a first sight has the sale it is for already.
Sound ==
  /\ pair # Holdings!NoPair =>
       /\ pair.count >= Left + pair.asOf - pair.slack
       /\ pair.count <= Left + pair.asOf + pair.slack \/ pair.count = 0
  /\ ReadIsNear(reading, Left)
  /\ ReadIsNear(seeding, Left - 1)

\* Only the head of the chain scans, seeds or tries again; a reconcile is
\* for a row; a call that saw no row and now finds one was scanned for, or
\* its query had failed.
Flow ==
  /\ \A s \in Sales :
       /\ call[s].pc \in {"scan", "seed", "again"} => Holdings!IsHead(s)
       /\ call[s].pc = "seed" => seeding # Holdings!NoRead
       /\ call[s].pc \in {"due", "joined"} => pair # Holdings!NoPair
       /\ call[s].pc \in {"null", "recheck", "scan", "seed", "again"} =>
            pair = Holdings!NoPair \/ call[s].scanned \/ call[s].failed
  /\ inflight # "none" => pair # Holdings!NoPair
  /\ inflight \in {"write", "settle"} <=> reading # Holdings!NoRead

PendingPc == {"decrement", "null", "recheck", "scan", "seed", "again"}
Pc == PendingPc \cup {"idle", "due", "joined"}
Call == [pc : Pc, scanned : BOOLEAN, failed : BOOLEAN]
PairRow == [count : Nat, since : Nat, fresh : BOOLEAN, asOf : Int, slack : Nat]

HoldingsTyped ==
  /\ held \in Nat /\ moved \in Int /\ upsets \in 0 .. MaxUpsets
  /\ call \in [Sales -> Call] /\ queued \in Seq(Sales)
  /\ pair = Holdings!NoPair \/ pair \in PairRow
  /\ seeding \in Holdings!ReadRecord /\ reading \in Holdings!ReadRecord
  /\ inflight \in {"none", "scan", "write", "settle"}
  /\ answer \in [n : Int, scanned : BOOLEAN, failed : BOOLEAN]

HoldingsInv ==
  HoldingsTyped /\ Flow /\ Sound /\ Holdings!HiddenIsVerified

LEMMA HoldingsConstants ==
  /\ MaxHeld \in Nat /\ LowCount \in Nat /\ EveryN \in Nat /\ Gate \in Nat
  /\ MaxUpsets \in Nat /\ Gate <= LowCount + 1
  /\ IsFiniteSet(Sales)
BY HoldingsAreBounded
   DEF Holdings!HoldingsAssumption, Holdings!IsFiniteSet, IsFiniteSet

\* The instance has its own copy of FiniteSets.
LEMMA HoldingsCardinality == \A S : Holdings!Cardinality(S) = Cardinality(S)
BY Zenon DEF Holdings!Cardinality, Cardinality

LEMMA PendingIsFinite ==
  /\ IsFiniteSet(Holdings!Pending) /\ Cardinality(Holdings!Pending) \in Nat
<1>1. Holdings!Pending \subseteq Sales
  BY DEF Holdings!Pending
<1>2. IsFiniteSet(Holdings!Pending)
  BY <1>1, FS_Subset, HoldingsConstants
<1> QED BY <1>2, FS_CardinalityType

LEMMA LeftIsInt == ASSUME HoldingsTyped PROVE Left \in Int
BY PendingIsFinite DEF Left, HoldingsTyped

\* What the step of one call does to the number of sales not subtracted.
LEMMA PendingStep ==
  ASSUME NEW s \in Sales, \A t \in Sales \ {s} : call'[t].pc = call[t].pc
  PROVE  LET n == Cardinality(Holdings!Pending)
             m == Cardinality(Holdings!Pending')
         IN  /\ n \in Nat /\ m \in Nat
             /\ (call[s].pc \in PendingPc <=> call'[s].pc \in PendingPc) => m = n
             /\ call[s].pc \in PendingPc /\ call'[s].pc \notin PendingPc => m = n - 1
             /\ call[s].pc \notin PendingPc /\ call'[s].pc \in PendingPc => m = n + 1
<1>0. IsFiniteSet(Holdings!Pending) /\ Cardinality(Holdings!Pending) \in Nat
  BY PendingIsFinite
<1>1. CASE call[s].pc \in PendingPc <=> call'[s].pc \in PendingPc
  <2>1. Holdings!Pending' = Holdings!Pending
    BY <1>1 DEF Holdings!Pending, PendingPc
  <2> QED BY <1>0, <1>1, <2>1
<1>2. CASE call[s].pc \in PendingPc /\ call'[s].pc \notin PendingPc
  <2>1. s \in Holdings!Pending /\ Holdings!Pending' = Holdings!Pending \ {s}
    BY <1>2 DEF Holdings!Pending, PendingPc
  <2>2. /\ Cardinality(Holdings!Pending \ {s}) = Cardinality(Holdings!Pending) - 1
        /\ Cardinality(Holdings!Pending \ {s}) \in Nat
    BY <1>0, <2>1, FS_RemoveElement, FS_CardinalityType
  <2> QED BY <1>0, <1>2, <2>1, <2>2
<1>3. CASE call[s].pc \notin PendingPc /\ call'[s].pc \in PendingPc
  <2>1. s \notin Holdings!Pending /\ Holdings!Pending' = Holdings!Pending \cup {s}
    BY <1>3 DEF Holdings!Pending, PendingPc
  <2>2. /\ Cardinality(Holdings!Pending \cup {s}) = Cardinality(Holdings!Pending) + 1
    BY <1>0, <2>1, FS_AddElement
  <2> QED BY <1>0, <1>3, <2>1, <2>2
<1> QED BY <1>1, <1>2, <1>3

\* A step that leaves what is left alone.
LEMMA StandingIsSound ==
  ASSUME HoldingsTyped, Sound, Left' = Left,
         pair' = pair \/ (pair # Holdings!NoPair /\ pair' = [pair EXCEPT !.fresh = FALSE]),
         seeding' \in {seeding, Holdings!NoRead}, reading' \in {reading, Holdings!NoRead}
  PROVE  Sound'
<1>1. pair' # Holdings!NoPair =>
        /\ pair # Holdings!NoPair
        /\ pair'.count = pair.count /\ pair'.asOf = pair.asOf /\ pair'.slack = pair.slack
  BY DEF HoldingsTyped, PairRow
<1> QED BY <1>1 DEF Sound, ReadIsNear, Near

\* One sale is subtracted: what is left, the row and the reads go along.
LEMMA SubtractIsSound ==
  ASSUME HoldingsTyped, Sound, Holdings!Subtract, Left' = Left - 1
  PROVE  /\ Sound'
         /\ pair \in PairRow /\ pair' \in PairRow /\ pair' # Holdings!NoPair
         /\ seeding' \in Holdings!ReadRecord /\ reading' \in Holdings!ReadRecord
         /\ seeding' = Holdings!NoRead <=> seeding = Holdings!NoRead
         /\ reading' = Holdings!NoRead <=> reading = Holdings!NoRead
<1>0. Left \in Int
  BY LeftIsInt
<1>1. /\ pair \in PairRow /\ pair # Holdings!NoPair
      /\ pair' = Holdings!Subtracted
  BY DEF HoldingsTyped, Holdings!Subtract
<1>2. /\ pair' \in PairRow /\ pair' # Holdings!NoPair
      /\ pair'.count = (IF pair.count > 0 THEN pair.count - 1 ELSE 0)
      /\ pair'.asOf = pair.asOf /\ pair'.slack = pair.slack
  <2> DEFINE a == IF pair.count > 0 THEN pair.count - 1 ELSE 0
             b == pair.since + 1
  <2>1. pair' = [count |-> a, since |-> b, fresh |-> TRUE,
                 asOf |-> pair.asOf, slack |-> pair.slack]
    BY <1>1 DEF Holdings!Subtracted, PairRow
  <2>2. a \in Nat /\ b \in Nat /\ pair.asOf \in Int /\ pair.slack \in Nat
    BY <1>1 DEF PairRow
  <2> HIDE DEF a, b
  <2>3. pair' \in PairRow /\ pair'.count = a /\ pair'.asOf = pair.asOf /\ pair'.slack = pair.slack
    BY <2>1, <2>2 DEF PairRow
  <2>4. pair' # Holdings!NoPair
    BY <2>3 DEF PairRow, Holdings!NoPair, Holdings!None
  <2> QED BY <2>3, <2>4 DEF a
<1>3. ASSUME NEW r \in Holdings!ReadRecord
      PROVE  /\ Holdings!Later(r) \in Holdings!ReadRecord
             /\ Holdings!Later(r) = Holdings!NoRead <=> r = Holdings!NoRead
             /\ \A n \in Int : ReadIsNear(r, n) => ReadIsNear(Holdings!Later(r), n - 1)
  BY <1>3 DEF Holdings!ReadRecord, Holdings!Later, Holdings!NoRead, ReadIsNear, Near
<1>4. /\ seeding \in Holdings!ReadRecord /\ reading \in Holdings!ReadRecord
      /\ seeding' = Holdings!Later(seeding) /\ reading' = Holdings!Later(reading)
  BY DEF HoldingsTyped, Holdings!Subtract
<1>5. ReadIsNear(reading', Left') /\ ReadIsNear(seeding', Left' - 1)
  BY <1>0, <1>3, <1>4 DEF Sound
<1>6. /\ pair'.count >= Left' + pair'.asOf - pair'.slack
      /\ pair'.count <= Left' + pair'.asOf + pair'.slack \/ pair'.count = 0
  BY <1>0, <1>1, <1>2 DEF Sound, PairRow
<1> QED BY <1>1, <1>2, <1>3, <1>4, <1>5, <1>6 DEF Sound


\* A call at its next place, or answered.
LEMMA GoesFacts ==
  ASSUME HoldingsTyped, NEW s \in Sales, NEW pc \in Pc,
         Holdings!Goes(s, pc) \/ Holdings!GoesFailed(s, pc)
  PROVE  /\ call' \in [Sales -> Call]
         /\ \A t \in Sales \ {s} : call'[t] = call[t]
         /\ call'[s].pc = pc /\ call'[s].scanned = call[s].scanned
         /\ call[s].failed => call'[s].failed
         /\ Holdings!GoesFailed(s, pc) => call'[s].failed
<1>1. call[s] \in Call
  BY DEF HoldingsTyped
<1>2. CASE Holdings!Goes(s, pc)
  BY <1>1, <1>2 DEF HoldingsTyped, Holdings!Goes, Holdings!GoesFailed, Call
<1>3. CASE Holdings!GoesFailed(s, pc)
  <2> DEFINE moves == [call[s] EXCEPT !.pc = pc, !.failed = TRUE]
  <2>1. /\ moves \in Call /\ moves.pc = pc /\ moves.failed
        /\ moves.scanned = call[s].scanned
    BY <1>1 DEF Call
  <2>2. call' = [call EXCEPT ![s] = moves]
    BY <1>1, <1>3 DEF Holdings!GoesFailed, HoldingsTyped, Call
  <2> HIDE DEF moves
  <2> QED BY <2>1, <2>2 DEF HoldingsTyped
<1> QED BY <1>2, <1>3

LEMMA AnswersFacts ==
  ASSUME HoldingsTyped, NEW s \in Sales, NEW n \in Int, Holdings!Answers(s, n),
         \/ n = Holdings!None \/ n >= Gate
         \/ call[s].scanned \/ call[s].failed
  PROVE  /\ call' \in [Sales -> Call]
         /\ \A t \in Sales \ {s} : call'[t] = call[t]
         /\ call'[s] = Holdings!Idle /\ call'[s].pc = "idle"
         /\ answer' \in [n : Int, scanned : BOOLEAN, failed : BOOLEAN]
         /\ Holdings!HiddenIsVerified'
<1>1. Holdings!Idle \in Call /\ Holdings!Idle.pc = "idle" /\ call[s] \in Call
  BY DEF Holdings!Idle, Call, Pc, HoldingsTyped
<1>2. /\ answer'.n = n /\ answer'.scanned = call[s].scanned
      /\ answer'.failed = call[s].failed
      /\ answer' \in [n : Int, scanned : BOOLEAN, failed : BOOLEAN]
  BY <1>1 DEF Holdings!Answers, Call
<1>3. Holdings!HiddenIsVerified'
  BY <1>2, HoldingsConstants DEF Holdings!HiddenIsVerified
<1> QED BY <1>1, <1>2, <1>3 DEF Holdings!Answers, HoldingsTyped

LEMMA FailuresAreBounded ==
  ASSUME HoldingsTyped, Holdings!Upset \/ UNCHANGED upsets
  PROVE  upsets' \in 0 .. MaxUpsets
BY HoldingsConstants DEF HoldingsTyped, Holdings!Upset
----------------------------------------------------------------------------
(* One call.                                                               *)

LEMMA SaleLandsStep ==
  ASSUME HoldingsInv, NEW s \in Sales, Holdings!SaleLands(s)
  PROVE  HoldingsInv'
<1> USE DEF HoldingsInv
<1>0. /\ call[s].pc = "idle" /\ Holdings!Goes(s, "decrement") /\ held > 0
      /\ held' = held - 1
      /\ UNCHANGED <<moved, pair, queued, seeding, inflight, reading, answer, upsets>>
  BY DEF Holdings!SaleLands, Holdings!Idle
<1>1. /\ call' \in [Sales -> Call] /\ \A t \in Sales \ {s} : call'[t] = call[t]
      /\ call'[s].pc = "decrement"
  BY <1>0, GoesFacts DEF Pc, PendingPc
<1>2. HoldingsTyped'
  BY <1>0, <1>1 DEF HoldingsTyped
<1>3. Cardinality(Holdings!Pending') = Cardinality(Holdings!Pending) + 1
      /\ Cardinality(Holdings!Pending) \in Nat
  BY <1>0, <1>1, PendingStep DEF PendingPc
<1>4. Left' = Left
  BY <1>0, <1>3 DEF Left, HoldingsTyped
<1>5. Sound'
  BY <1>0, <1>4, StandingIsSound
<1>6. Flow'
  BY <1>0, <1>1 DEF Flow, Holdings!IsHead
<1> QED BY <1>0, <1>2, <1>5, <1>6 DEF Holdings!HiddenIsVerified

LEMMA DecrementStep ==
  ASSUME HoldingsInv, NEW s \in Sales, Holdings!Decrement(s)
  PROVE  HoldingsInv'
<1> USE DEF HoldingsInv
<1>0. /\ call[s].pc = "decrement"
      /\ UNCHANGED <<held, moved, queued, inflight>>
  BY DEF Holdings!Decrement
<1>1. CASE Holdings!Subtract /\ UNCHANGED upsets
           /\ IF Holdings!ReconciliationDue THEN Holdings!Goes(s, "due") /\ UNCHANGED answer
              ELSE Holdings!Answers(s, Holdings!Subtracted.count)
  <2>1. pair \in PairRow /\ pair # Holdings!NoPair /\ pair' = Holdings!Subtracted
    BY <1>1 DEF HoldingsTyped, Holdings!Subtract
  <2>2. Holdings!Subtracted.count \in Nat
    BY <2>1 DEF Holdings!Subtracted, PairRow
  <2>3. /\ call' \in [Sales -> Call] /\ \A t \in Sales \ {s} : call'[t] = call[t]
        /\ call'[s].pc \in {"idle", "due"}
        /\ answer' \in [n : Int, scanned : BOOLEAN, failed : BOOLEAN]
        /\ Holdings!HiddenIsVerified'
    <3>1. CASE Holdings!ReconciliationDue
      <4>1. Holdings!Goes(s, "due") /\ UNCHANGED answer
        BY <1>1, <3>1
      <4> QED BY <4>1, GoesFacts DEF Pc, HoldingsTyped, Holdings!HiddenIsVerified
    <3>2. CASE ~ Holdings!ReconciliationDue
      <4>1. Holdings!Answers(s, Holdings!Subtracted.count)
        BY <1>1, <3>2
      <4>2. Holdings!Subtracted.count >= Gate
        BY <2>2, <3>2, HoldingsConstants DEF Holdings!ReconciliationDue
      <4> DEFINE n == Holdings!Subtracted.count
      <4>3. n \in Int /\ n >= Gate /\ Holdings!Answers(s, n)
        BY <2>2, <4>1, <4>2
      <4> HIDE DEF n
      <4> QED BY <4>3, AnswersFacts
    <3> QED BY <3>1, <3>2
  <2>4. Cardinality(Holdings!Pending') = Cardinality(Holdings!Pending) - 1
        /\ Cardinality(Holdings!Pending) \in Nat
    BY <1>0, <2>3, PendingStep DEF PendingPc
  <2>5. Left' = Left - 1
    BY <1>0, <2>4 DEF Left, HoldingsTyped
  <2>6. /\ Sound' /\ pair' \in PairRow /\ pair' # Holdings!NoPair
        /\ seeding' \in Holdings!ReadRecord /\ reading' \in Holdings!ReadRecord
        /\ seeding' = Holdings!NoRead <=> seeding = Holdings!NoRead
        /\ reading' = Holdings!NoRead <=> reading = Holdings!NoRead
    BY <1>1, <2>5, SubtractIsSound
  <2>7. HoldingsTyped'
    BY <1>0, <1>1, <2>3, <2>6 DEF HoldingsTyped
  <2>8. Flow'
    BY <1>0, <2>1, <2>3, <2>6 DEF Flow, Holdings!IsHead
  <2> QED BY <2>3, <2>6, <2>7, <2>8
<1>2. CASE /\ Holdings!Goes(s, "null") \/ Holdings!GoesFailed(s, "null")
           /\ pair = Holdings!NoPair \/ Holdings!GoesFailed(s, "null")
           /\ Holdings!Upset \/ UNCHANGED upsets
           /\ UNCHANGED <<pair, seeding, reading, answer>>
  <2>1. /\ call' \in [Sales -> Call] /\ \A t \in Sales \ {s} : call'[t] = call[t]
        /\ call'[s].pc = "null"
        /\ pair = Holdings!NoPair \/ call'[s].failed
    BY <1>2, GoesFacts DEF Pc, PendingPc
  <2>2. HoldingsTyped'
    BY <1>0, <1>2, <2>1, FailuresAreBounded DEF HoldingsTyped
  <2>3. Cardinality(Holdings!Pending') = Cardinality(Holdings!Pending)
        /\ Cardinality(Holdings!Pending) \in Nat
    BY <1>0, <2>1, PendingStep DEF PendingPc
  <2>4. Left' = Left
    BY <1>0, <2>3 DEF Left, HoldingsTyped
  <2>5. Sound'
    BY <1>2, <2>4, StandingIsSound
  <2>6. Flow'
    BY <1>0, <1>2, <2>1 DEF Flow, Holdings!IsHead
  <2> QED BY <1>2, <2>2, <2>5, <2>6 DEF Holdings!HiddenIsVerified
<1> QED BY <1>1, <1>2 DEF Holdings!Decrement

LEMMA JoinStep ==
  ASSUME HoldingsInv, NEW s \in Sales, Holdings!JoinChain(s) \/ Holdings!JoinReconcile(s)
  PROVE  HoldingsInv'
<1> USE DEF HoldingsInv
<1>0. UNCHANGED <<held, moved, pair, seeding, reading, answer, upsets>>
  BY DEF Holdings!JoinChain, Holdings!JoinReconcile
<1>1. CASE Holdings!JoinChain(s)
  <2>0. call[s].pc = "null" /\ queued' = Append(queued, s) /\ inflight' = inflight
    BY <1>1 DEF Holdings!JoinChain
  <2>1. /\ call' \in [Sales -> Call] /\ \A t \in Sales \ {s} : call'[t] = call[t]
        /\ call'[s].pc = "recheck" /\ call'[s].scanned = call[s].scanned
        /\ call[s].failed => call'[s].failed
    BY <1>1, GoesFacts DEF Pc, PendingPc, Holdings!JoinChain
  <2>2. HoldingsTyped'
    BY <1>0, <2>0, <2>1 DEF HoldingsTyped
  <2>3. Cardinality(Holdings!Pending') = Cardinality(Holdings!Pending)
        /\ Cardinality(Holdings!Pending) \in Nat
    BY <2>0, <2>1, PendingStep DEF PendingPc
  <2>4. Left' = Left
    BY <1>0, <2>3 DEF Left, HoldingsTyped
  <2>5. Sound'
    BY <1>0, <2>4, StandingIsSound
  <2>6. queued # << >> => queued' # << >> /\ Head(queued') = Head(queued)
    BY <2>0 DEF HoldingsTyped
  <2>7. Flow'
    BY <1>0, <2>0, <2>1, <2>6 DEF Flow, Holdings!IsHead
  <2> QED BY <1>0, <2>2, <2>5, <2>7 DEF Holdings!HiddenIsVerified
<1>2. CASE Holdings!JoinReconcile(s)
  <2>0. /\ call[s].pc = "due" /\ queued' = queued
        /\ inflight' = IF inflight = "none" THEN "scan" ELSE inflight
    BY <1>2 DEF Holdings!JoinReconcile
  <2>1. /\ call' \in [Sales -> Call] /\ \A t \in Sales \ {s} : call'[t] = call[t]
        /\ call'[s].pc = "joined"
    BY <1>2, GoesFacts DEF Pc, PendingPc, Holdings!JoinReconcile
  <2>2. HoldingsTyped'
    BY <1>0, <2>0, <2>1 DEF HoldingsTyped
  <2>3. Cardinality(Holdings!Pending') = Cardinality(Holdings!Pending)
        /\ Cardinality(Holdings!Pending) \in Nat
    BY <2>0, <2>1, PendingStep DEF PendingPc
  <2>4. Left' = Left
    BY <1>0, <2>3 DEF Left, HoldingsTyped
  <2>5. Sound'
    BY <1>0, <2>4, StandingIsSound
  <2>6. Flow'
    BY <1>0, <2>0, <2>1 DEF Flow, Holdings!IsHead
  <2> QED BY <1>0, <2>2, <2>5, <2>6 DEF Holdings!HiddenIsVerified
<1> QED BY <1>1, <1>2

----------------------------------------------------------------------------
(* The head of the chain.                                                  *)

\* A head that moves on within the chain.
LEMMA HeadMovesOn ==
  ASSUME HoldingsInv, NEW s \in Sales, NEW pc \in {"scan", "seed", "again"},
         Holdings!IsHead(s), call[s].pc \in {"recheck", "scan", "seed"},
         Holdings!Goes(s, pc) \/ Holdings!GoesFailed(s, pc),
         Holdings!Upset \/ UNCHANGED upsets,
         call[s].pc = "recheck" => pair = Holdings!NoPair \/ Holdings!GoesFailed(s, pc),
         \/ pc # "seed" /\ seeding' \in {seeding, Holdings!NoRead}
         \/ pc = "seed" /\ seeding' = Holdings!Read(Holdings!Pending \ {s}),
         UNCHANGED <<held, moved, pair, queued, inflight, reading, answer>>
  PROVE  HoldingsInv'
<1> USE DEF HoldingsInv
<1>1. /\ call' \in [Sales -> Call] /\ \A t \in Sales \ {s} : call'[t] = call[t]
      /\ call'[s].pc = pc /\ call'[s].scanned = call[s].scanned
      /\ call[s].failed => call'[s].failed
      /\ Holdings!GoesFailed(s, pc) => call'[s].failed
  BY GoesFacts DEF Pc, PendingPc
<1>2. Cardinality(Holdings!Pending') = Cardinality(Holdings!Pending)
      /\ Cardinality(Holdings!Pending) \in Nat
  BY <1>1, PendingStep DEF PendingPc
<1>3. Left' = Left /\ Left \in Int
  BY <1>2 DEF Left, HoldingsTyped
<1>4. CASE pc # "seed" /\ seeding' \in {seeding, Holdings!NoRead}
  <2>1. Holdings!NoRead \in Holdings!ReadRecord
    BY DEF Holdings!NoRead, Holdings!ReadRecord, Holdings!None
  <2>2. HoldingsTyped'
    BY <1>1, <1>4, <2>1, FailuresAreBounded DEF HoldingsTyped
  <2>3. Sound'
    BY <1>3, <1>4, StandingIsSound
  <2>4. Flow'
    <3>1. \A t \in Sales \ {s} : call[t].pc # "seed"
      BY DEF Flow, Holdings!IsHead
    <3> QED BY <1>1, <1>4, <3>1 DEF Flow, Holdings!IsHead
  <2> QED BY <2>2, <2>3, <2>4 DEF Holdings!HiddenIsVerified
<1>5. CASE pc = "seed" /\ seeding' = Holdings!Read(Holdings!Pending \ {s})
  <2> DEFINE others == Cardinality(Holdings!Pending \ {s})
  <2>1. s \in Holdings!Pending
    BY DEF Holdings!Pending
  <2>2. others = Cardinality(Holdings!Pending) - 1 /\ others \in Nat
    BY <2>1, PendingIsFinite, FS_RemoveElement, FS_CardinalityType
  <2>3. seeding' = [count |-> held, asOf |-> moved, late |-> others]
    BY <1>5, HoldingsCardinality DEF Holdings!Read
  <2>4. Left - 1 + moved = held + others
    BY <1>2, <2>2 DEF Left, HoldingsTyped
  <2> HIDE DEF others
  <2>5. /\ seeding' \in Holdings!ReadRecord /\ seeding' # Holdings!NoRead
        /\ ReadIsNear(seeding', Left - 1)
    <3>1. held \in Nat /\ moved \in Int
      BY DEF HoldingsTyped
    <3>2. seeding' \in Holdings!ReadRecord /\ seeding' # Holdings!NoRead
      BY <2>2, <2>3, <3>1 DEF Holdings!NoRead, Holdings!ReadRecord, Holdings!None
    <3>3. seeding'.count = held /\ seeding'.asOf = moved /\ seeding'.late = others
      BY <2>3
    <3> QED BY <1>3, <2>2, <2>4, <3>1, <3>2, <3>3 DEF ReadIsNear, Near
  <2>6. HoldingsTyped'
    BY <1>1, <2>5, FailuresAreBounded DEF HoldingsTyped
  <2>7. Sound'
    BY <1>3, <2>5 DEF Sound
  <2>8. Flow'
    BY <1>1, <1>5, <2>5 DEF Flow, Holdings!IsHead
  <2> QED BY <2>6, <2>7, <2>8 DEF Holdings!HiddenIsVerified
<1> QED BY <1>4, <1>5

\* A head that is answered and leaves the chain; its sale is subtracted now
\* or was passed by.
LEMMA HeadLeaves ==
  ASSUME HoldingsInv, NEW s \in Sales, NEW n \in Int, NEW subtracted \in BOOLEAN,
         Holdings!IsHead(s), call[s].pc \in {"recheck", "scan", "again"},
         Holdings!Ends(s, n, subtracted),
         \/ subtracted /\ Holdings!Subtract /\ n = Holdings!Subtracted.count
         \/ ~ subtracted /\ n = Holdings!None /\ UNCHANGED <<pair, seeding, reading>>,
         Holdings!Upset \/ UNCHANGED upsets,
         UNCHANGED <<held, inflight>>
  PROVE  HoldingsInv'
<1> USE DEF HoldingsInv
<1>1. /\ call' \in [Sales -> Call] /\ \A t \in Sales \ {s} : call'[t] = call[t]
      /\ call'[s].pc = "idle"
      /\ answer' \in [n : Int, scanned : BOOLEAN, failed : BOOLEAN]
      /\ Holdings!HiddenIsVerified'
  <2>1. n = Holdings!None \/ call[s].scanned \/ call[s].failed
    BY DEF Flow, Holdings!Subtract
  <2> QED BY <2>1, AnswersFacts DEF Holdings!Ends
<1>2. /\ Cardinality(Holdings!Pending') = Cardinality(Holdings!Pending) - 1
      /\ Cardinality(Holdings!Pending) \in Nat
  BY <1>1, PendingStep DEF PendingPc
<1>3. /\ queued' = Tail(queued) /\ queued # << >> /\ queued' \in Seq(Sales)
      /\ moved' = IF subtracted THEN moved ELSE moved - 1
  BY DEF Holdings!Ends, Holdings!IsHead, HoldingsTyped
<1>4. \A t \in Sales : call'[t].pc \notin {"scan", "seed", "again"}
  BY <1>1 DEF Flow, Holdings!IsHead
<1>5. CASE subtracted /\ Holdings!Subtract
  <2>1. Left' = Left - 1
    BY <1>2, <1>3, <1>5 DEF Left, HoldingsTyped
  <2>2. /\ Sound' /\ pair' \in PairRow /\ pair' # Holdings!NoPair
        /\ pair # Holdings!NoPair
        /\ seeding' \in Holdings!ReadRecord /\ reading' \in Holdings!ReadRecord
        /\ seeding' = Holdings!NoRead <=> seeding = Holdings!NoRead
        /\ reading' = Holdings!NoRead <=> reading = Holdings!NoRead
    BY <1>5, <2>1, SubtractIsSound DEF Holdings!Subtract
  <2>3. HoldingsTyped'
    BY <1>1, <1>3, <1>5, <2>2, FailuresAreBounded DEF HoldingsTyped
  <2>4. Flow'
    BY <1>1, <1>4, <2>2 DEF Flow
  <2> QED BY <1>1, <2>2, <2>3, <2>4
<1>6. CASE ~ subtracted /\ UNCHANGED <<pair, seeding, reading>>
  <2>1. Left' = Left
    BY <1>2, <1>3, <1>6 DEF Left, HoldingsTyped
  <2>2. Sound'
    BY <1>6, <2>1, StandingIsSound
  <2>3. HoldingsTyped'
    BY <1>1, <1>3, <1>6, FailuresAreBounded DEF HoldingsTyped
  <2>4. Flow'
    BY <1>1, <1>4, <1>6 DEF Flow
  <2> QED BY <1>1, <2>2, <2>3, <2>4
<1> QED BY <1>5, <1>6

LEMMA SubtractedIsANumber ==
  ASSUME HoldingsTyped, Holdings!Subtract PROVE Holdings!Subtracted.count \in Int
BY DEF HoldingsTyped, Holdings!Subtract, Holdings!Subtracted, PairRow

LEMMA NoneIsInt == Holdings!None \in Int
BY DEF Holdings!None

LEMMA RecheckStep ==
  ASSUME HoldingsInv, NEW s \in Sales, Holdings!Recheck(s)
  PROVE  HoldingsInv'
<1>0. /\ Holdings!IsHead(s) /\ call[s].pc = "recheck" /\ UNCHANGED <<held, inflight>>
  BY DEF Holdings!Recheck
<1>1. CASE /\ Holdings!Subtract /\ Holdings!Ends(s, Holdings!Subtracted.count, TRUE)
           /\ UNCHANGED upsets
  BY <1>0, <1>1, HeadLeaves, SubtractedIsANumber DEF HoldingsInv
<1>2. CASE /\ Holdings!Goes(s, "scan") \/ Holdings!GoesFailed(s, "scan")
           /\ pair = Holdings!NoPair \/ Holdings!GoesFailed(s, "scan")
           /\ Holdings!Upset \/ UNCHANGED upsets
           /\ UNCHANGED <<moved, pair, queued, seeding, reading, answer>>
  BY <1>0, <1>2, HeadMovesOn
<1> QED BY <1>1, <1>2 DEF Holdings!Recheck

LEMMA ScanStep ==
  ASSUME HoldingsInv, NEW s \in Sales, Holdings!Scan(s)
  PROVE  HoldingsInv'
<1>0. /\ Holdings!IsHead(s) /\ call[s].pc = "scan"
      /\ UNCHANGED <<held, pair, inflight, reading>>
  BY DEF Holdings!Scan
<1>1. CASE /\ seeding' = Holdings!Read(Holdings!Pending \ {s})
           /\ Holdings!Goes(s, "seed")
           /\ UNCHANGED <<moved, queued, answer, upsets>>
  BY <1>0, <1>1, HeadMovesOn
<1>2. CASE Holdings!Upset /\ Holdings!Ends(s, Holdings!None, FALSE) /\ UNCHANGED seeding
  BY <1>0, <1>2, HeadLeaves, NoneIsInt
<1> QED BY <1>1, <1>2 DEF Holdings!Scan

LEMMA DecrementAgainStep ==
  ASSUME HoldingsInv, NEW s \in Sales, Holdings!DecrementAgain(s)
  PROVE  HoldingsInv'
<1>0. /\ Holdings!IsHead(s) /\ call[s].pc = "again" /\ UNCHANGED <<held, inflight>>
  BY DEF Holdings!DecrementAgain
<1>1. CASE /\ Holdings!Subtract /\ Holdings!Ends(s, Holdings!Subtracted.count, TRUE)
           /\ UNCHANGED upsets
  BY <1>0, <1>1, HeadLeaves, SubtractedIsANumber DEF HoldingsInv
<1>2. CASE /\ Holdings!Ends(s, Holdings!None, FALSE)
           /\ Holdings!Upset \/ UNCHANGED upsets
           /\ UNCHANGED <<pair, seeding, reading>>
  BY <1>0, <1>2, HeadLeaves, NoneIsInt
<1> QED BY <1>1, <1>2 DEF Holdings!DecrementAgain

\* The seed takes: the sale is in the number already.
LEMMA SeedTakes ==
  ASSUME HoldingsInv, NEW s \in Sales, Holdings!IsHead(s), call[s].pc = "seed",
         pair = Holdings!NoPair, pair' = Holdings!Row(seeding),
         call' = [t \in Sales |-> IF call[t] = Holdings!Idle \/ t = s THEN Holdings!Idle
                                  ELSE [call[t] EXCEPT !.scanned = TRUE]],
         answer' = [n |-> seeding.count, scanned |-> TRUE, failed |-> call[s].failed],
         queued' = Tail(queued), seeding' = Holdings!NoRead,
         UNCHANGED <<held, moved, inflight, reading, upsets>>
  PROVE  HoldingsInv'
<1> USE DEF HoldingsInv
<1>0. /\ Holdings!Idle \in Call /\ Holdings!Idle.pc = "idle"
      /\ Holdings!NoRead \in Holdings!ReadRecord /\ call[s] \in Call
      /\ \A t \in Sales : call[t] \in Call
  BY DEF Holdings!Idle, Call, Pc, HoldingsTyped, Holdings!NoRead, Holdings!ReadRecord,
         Holdings!None
<1>1. ASSUME NEW t \in Sales \ {s}
      PROVE  /\ call'[t] \in Call /\ call'[t].pc = call[t].pc
             /\ call'[t].pc # "idle" => call'[t].scanned
  BY <1>0 DEF Call, Holdings!Idle
<1>2. call' \in [Sales -> Call] /\ call'[s].pc = "idle"
  BY <1>0, <1>1
<1>3. /\ Cardinality(Holdings!Pending') = Cardinality(Holdings!Pending) - 1
      /\ Cardinality(Holdings!Pending) \in Nat
  BY <1>1, <1>2, PendingStep DEF PendingPc
<1>4. Left' = Left - 1 /\ Left \in Int
  BY <1>3 DEF Left, HoldingsTyped
<1>5. /\ seeding \in Holdings!ReadRecord /\ Near(seeding, Left - 1)
      /\ reading = Holdings!NoRead
  BY DEF Flow, Sound, ReadIsNear, HoldingsTyped
<1>6. /\ pair' \in PairRow /\ pair'.count = seeding.count /\ pair'.asOf = seeding.asOf
      /\ pair'.slack = seeding.late
  BY <1>5 DEF Holdings!Row, PairRow, Holdings!ReadRecord, Near
<1>7. queued # << >> /\ queued' \in Seq(Sales)
  BY DEF Holdings!IsHead, HoldingsTyped
<1>8. HoldingsTyped'
  BY <1>0, <1>2, <1>5, <1>6, <1>7 DEF HoldingsTyped, Call, Near
<1>9. Sound'
  BY <1>4, <1>5, <1>6 DEF Sound, ReadIsNear, Near
<1>10. Flow'
  <2>1. \A t \in Sales : call'[t].pc \notin {"scan", "seed", "again", "due", "joined"}
    BY <1>1, <1>2 DEF Flow, Holdings!IsHead
  <2>2. inflight = "none"
    BY DEF Flow
  <2> QED BY <1>1, <1>2, <1>5, <2>1, <2>2 DEF Flow
<1>11. Holdings!HiddenIsVerified'
  BY DEF Holdings!HiddenIsVerified
<1> QED BY <1>8, <1>9, <1>10, <1>11

LEMMA SeedStep ==
  ASSUME HoldingsInv, NEW s \in Sales, Holdings!Seed(s)
  PROVE  HoldingsInv'
<1>0. /\ Holdings!IsHead(s) /\ call[s].pc = "seed" /\ seeding' = Holdings!NoRead
      /\ UNCHANGED <<held, moved, inflight, reading>>
  BY DEF Holdings!Seed
<1>1. CASE /\ pair = Holdings!NoPair /\ pair' = Holdings!Row(seeding)
           /\ call' = [t \in Sales |->
                IF call[t] = Holdings!Idle \/ t = s THEN Holdings!Idle
                ELSE [call[t] EXCEPT !.scanned = TRUE]]
           /\ answer' = [n |-> seeding.count, scanned |-> TRUE, failed |-> call[s].failed]
           /\ queued' = Tail(queued) /\ UNCHANGED upsets
  BY <1>0, <1>1, SeedTakes
<1>2. CASE /\ Holdings!Goes(s, "again") \/ Holdings!GoesFailed(s, "again")
           /\ Holdings!Upset \/ UNCHANGED upsets
           /\ UNCHANGED <<pair, answer, queued>>
  BY <1>0, <1>2, HeadMovesOn
<1> QED BY <1>1, <1>2 DEF Holdings!Seed

----------------------------------------------------------------------------
(* reconcileScan, and the world around.                                    *)

\* The calls that wait for a reconcile have subtracted their sales.
LEMMA SettlesStep ==
  ASSUME HoldingsInv, NEW n \in Int, Holdings!Settles(n),
         Holdings!Upset \/ UNCHANGED upsets,
         UNCHANGED <<held, moved, pair, queued, seeding>>
  PROVE  HoldingsInv'
<1> USE DEF HoldingsInv
<1>0. /\ Holdings!Idle \in Call /\ Holdings!Idle.pc = "idle"
      /\ Holdings!NoRead \in Holdings!ReadRecord
  BY DEF Holdings!Idle, Call, Pc, Holdings!NoRead, Holdings!ReadRecord, Holdings!None
<1>1. /\ call' = [s \in Sales |-> IF call[s].pc = "joined" THEN Holdings!Idle ELSE call[s]]
      /\ answer' = [n |-> n, scanned |-> TRUE, failed |-> FALSE]
      /\ inflight' = "none" /\ reading' = Holdings!NoRead
  BY DEF Holdings!Settles
<1>2. call' \in [Sales -> Call]
  BY <1>0, <1>1 DEF HoldingsTyped
<1>3. Holdings!Pending' = Holdings!Pending
  BY <1>0, <1>1 DEF Holdings!Pending
<1>4. Left' = Left
  BY <1>3 DEF Left
<1>5. Sound'
  BY <1>1, <1>4, StandingIsSound
<1>6. HoldingsTyped'
  BY <1>0, <1>1, <1>2, FailuresAreBounded DEF HoldingsTyped
<1>7. Flow'
  BY <1>0, <1>1 DEF Flow, Holdings!IsHead
<1>8. Holdings!HiddenIsVerified'
  BY <1>1 DEF Holdings!HiddenIsVerified
<1> QED BY <1>5, <1>6, <1>7, <1>8

LEMMA ReconcileReadsStep ==
  ASSUME HoldingsInv, Holdings!ReconcileReads
  PROVE  HoldingsInv'
<1> USE DEF HoldingsInv
<1>0. inflight = "scan" /\ UNCHANGED <<held, moved, pair, queued, seeding>>
  BY DEF Holdings!ReconcileReads
<1>1. CASE /\ reading' = Holdings!Read(Holdings!Pending) /\ inflight' = "write"
           /\ UNCHANGED <<call, answer, upsets>>
  <2> DEFINE pending == Cardinality(Holdings!Pending)
  <2>1. pending \in Nat /\ held \in Nat /\ moved \in Int /\ Left \in Int
    BY PendingIsFinite, LeftIsInt DEF HoldingsTyped
  <2>2. reading' = [count |-> held, asOf |-> moved, late |-> pending]
    BY <1>1, HoldingsCardinality DEF Holdings!Read
  <2>3. Holdings!Pending' = Holdings!Pending
    BY <1>1 DEF Holdings!Pending
  <2>4. Left' = Left /\ Left + moved = held + pending
    BY <1>0, <2>1, <2>3 DEF Left
  <2> HIDE DEF pending
  <2>5. reading' \in Holdings!ReadRecord /\ reading' # Holdings!NoRead
    BY <2>1, <2>2 DEF Holdings!NoRead, Holdings!ReadRecord, Holdings!None
  <2>6. reading'.count = held /\ reading'.asOf = moved /\ reading'.late = pending
    BY <2>2
  <2>7. ReadIsNear(reading', Left')
    BY <2>1, <2>4, <2>6 DEF ReadIsNear, Near
  <2>8. Sound'
    BY <1>0, <2>4, <2>7 DEF Sound
  <2>9. HoldingsTyped'
    BY <1>0, <1>1, <2>5 DEF HoldingsTyped
  <2>10. Flow'
    BY <1>0, <1>1, <2>5 DEF Flow, Holdings!IsHead
  <2> QED BY <1>1, <2>8, <2>9, <2>10 DEF Holdings!HiddenIsVerified
<1>2. CASE Holdings!Upset /\ Holdings!Settles(Holdings!None)
  BY <1>0, <1>2, SettlesStep, NoneIsInt
<1> QED BY <1>1, <1>2 DEF Holdings!ReconcileReads

LEMMA OverwriteStep ==
  ASSUME HoldingsInv, Holdings!Overwrite
  PROVE  HoldingsInv'
<1> USE DEF HoldingsInv
<1>0. /\ inflight = "write" /\ inflight' = "settle"
      /\ pair' = Holdings!Row(reading) \/ pair' = pair
      /\ Holdings!Upset \/ UNCHANGED upsets
      /\ UNCHANGED <<held, moved, call, queued, seeding, reading, answer>>
  BY DEF Holdings!Overwrite
<1>1. Holdings!Pending' = Holdings!Pending
  BY <1>0 DEF Holdings!Pending
<1>2. Left' = Left
  BY <1>0, <1>1 DEF Left
<1>3. /\ reading # Holdings!NoRead /\ reading \in Holdings!ReadRecord
      /\ Near(reading, Left) /\ pair # Holdings!NoPair
  BY <1>0 DEF Flow, Sound, ReadIsNear, HoldingsTyped
<1>4. CASE pair' = Holdings!Row(reading)
  <2>1. /\ pair' \in PairRow /\ pair'.count = reading.count /\ pair'.asOf = reading.asOf
        /\ pair'.slack = reading.late
    BY <1>3, <1>4 DEF Holdings!Row, PairRow, Holdings!ReadRecord, Near
  <2>2. pair' # Holdings!NoPair
    BY <2>1 DEF PairRow, Holdings!NoPair, Holdings!None
  <2>3. Sound'
    BY <1>0, <1>2, <1>3, <2>1 DEF Sound, Near
  <2>4. HoldingsTyped'
    BY <1>0, <2>1, FailuresAreBounded DEF HoldingsTyped
  <2>5. Flow'
    BY <1>0, <1>3, <2>2 DEF Flow, Holdings!IsHead
  <2> QED BY <1>0, <2>3, <2>4, <2>5 DEF Holdings!HiddenIsVerified
<1>5. CASE pair' = pair
  <2>1. Sound'
    BY <1>0, <1>2, <1>5, StandingIsSound
  <2>2. HoldingsTyped'
    BY <1>0, <1>5, FailuresAreBounded DEF HoldingsTyped
  <2>3. Flow'
    BY <1>0, <1>5 DEF Flow, Holdings!IsHead
  <2> QED BY <1>0, <2>1, <2>2, <2>3 DEF Holdings!HiddenIsVerified
<1> QED BY <1>0, <1>4, <1>5

LEMMA WorldStep ==
  ASSUME HoldingsInv, Holdings!TimePasses \/ Holdings!MovesUnseen
  PROVE  HoldingsInv'
<1> USE DEF HoldingsInv
<1>0. /\ UNCHANGED <<call, queued, seeding, inflight, reading, answer>>
      /\ Holdings!Upset \/ UNCHANGED upsets
      /\ \/ pair' = pair
         \/ pair # Holdings!NoPair /\ pair' = [pair EXCEPT !.fresh = FALSE]
      /\ held' \in Nat /\ moved' \in Int /\ held' - moved' = held - moved
  BY DEF Holdings!TimePasses, Holdings!MovesUnseen, HoldingsTyped
<1>1. Holdings!Pending' = Holdings!Pending
  BY <1>0 DEF Holdings!Pending
<1>2. Left' = Left
  BY <1>0, <1>1, PendingIsFinite DEF Left, HoldingsTyped
<1>3. /\ pair' = Holdings!NoPair \/ pair' \in PairRow
      /\ pair' = Holdings!NoPair <=> pair = Holdings!NoPair
  <2>1. CASE pair' = pair
    BY <2>1 DEF HoldingsTyped
  <2>2. CASE pair # Holdings!NoPair /\ pair' = [pair EXCEPT !.fresh = FALSE]
    <3>1. pair \in PairRow /\ pair' \in PairRow
      BY <2>2 DEF HoldingsTyped, PairRow
    <3>2. pair' # Holdings!NoPair
      BY <3>1 DEF PairRow, Holdings!NoPair, Holdings!None
    <3> QED BY <2>2, <3>1, <3>2
  <2> QED BY <1>0, <2>1, <2>2
<1>4. Sound'
  BY <1>0, <1>2, StandingIsSound
<1>5. HoldingsTyped'
  BY <1>0, <1>3, FailuresAreBounded DEF HoldingsTyped
<1>6. Flow'
  BY <1>0, <1>3 DEF Flow, Holdings!IsHead
<1> QED BY <1>0, <1>4, <1>5, <1>6 DEF Holdings!HiddenIsVerified

LEMMA RestartStep ==
  ASSUME HoldingsInv, Holdings!Restart
  PROVE  HoldingsInv'
<1> USE DEF HoldingsInv
<1>0. /\ Holdings!Upset /\ moved' = moved - Cardinality(Holdings!Pending)
      /\ call' = [s \in Sales |-> Holdings!Idle] /\ queued' = << >>
      /\ seeding' = Holdings!NoRead /\ inflight' = "none" /\ reading' = Holdings!NoRead
      /\ UNCHANGED <<held, pair, answer>>
  BY HoldingsCardinality DEF Holdings!Restart
<1>1. /\ Holdings!Idle \in Call /\ Holdings!Idle.pc = "idle"
      /\ Holdings!NoRead \in Holdings!ReadRecord
  BY DEF Holdings!Idle, Call, Pc, Holdings!NoRead, Holdings!ReadRecord, Holdings!None
<1>2. Holdings!Pending' = {}
  BY <1>0, <1>1 DEF Holdings!Pending
<1>3. Cardinality(Holdings!Pending') = 0
  BY <1>2, FS_EmptySet
<1>4. Left' = Left
  BY <1>0, <1>3, PendingIsFinite DEF Left, HoldingsTyped
<1>5. Sound'
  BY <1>0, <1>4, StandingIsSound
<1>6. HoldingsTyped'
  BY <1>0, <1>1, PendingIsFinite, FailuresAreBounded DEF HoldingsTyped
<1>7. Flow'
  BY <1>0, <1>1 DEF Flow
<1> QED BY <1>0, <1>5, <1>6, <1>7 DEF Holdings!HiddenIsVerified

----------------------------------------------------------------------------
LEMMA HoldingsInit == Holdings!Init => HoldingsInv
<1> SUFFICES ASSUME Holdings!Init PROVE HoldingsInv
  OBVIOUS
<1>0. /\ held = MaxHeld /\ moved = 0 /\ pair = Holdings!NoPair
      /\ call = [s \in Sales |-> Holdings!Idle] /\ queued = << >>
      /\ seeding = Holdings!NoRead /\ inflight = "none" /\ reading = Holdings!NoRead
      /\ answer = [n |-> Holdings!None, scanned |-> FALSE, failed |-> FALSE] /\ upsets = 0
  BY DEF Holdings!Init
<1>1. /\ Holdings!Idle \in Call /\ Holdings!Idle.pc = "idle"
      /\ Holdings!NoRead \in Holdings!ReadRecord /\ Holdings!None \in Int
  BY DEF Holdings!Idle, Call, Pc, Holdings!NoRead, Holdings!ReadRecord, Holdings!None
<1>2. HoldingsTyped
  BY <1>0, <1>1, HoldingsConstants DEF HoldingsTyped
<1>3. Sound /\ Flow /\ Holdings!HiddenIsVerified
  BY <1>0, <1>1 DEF Sound, ReadIsNear, Flow, Holdings!HiddenIsVerified
<1> QED BY <1>2, <1>3 DEF HoldingsInv

LEMMA HoldingsNext == HoldingsInv /\ [Holdings!Next]_(Holdings!vars) => HoldingsInv'
<1> SUFFICES ASSUME HoldingsInv, [Holdings!Next]_(Holdings!vars) PROVE HoldingsInv'
  OBVIOUS
<1>1. ASSUME NEW s \in Sales, Holdings!SaleLands(s) PROVE HoldingsInv'
  BY <1>1, SaleLandsStep
<1>2. ASSUME NEW s \in Sales, Holdings!Decrement(s) PROVE HoldingsInv'
  BY <1>2, DecrementStep
<1>3. ASSUME NEW s \in Sales, Holdings!JoinChain(s) \/ Holdings!JoinReconcile(s)
      PROVE  HoldingsInv'
  BY <1>3, JoinStep
<1>4. ASSUME NEW s \in Sales, Holdings!Recheck(s) PROVE HoldingsInv'
  BY <1>4, RecheckStep
<1>5. ASSUME NEW s \in Sales, Holdings!Scan(s) PROVE HoldingsInv'
  BY <1>5, ScanStep
<1>6. ASSUME NEW s \in Sales, Holdings!Seed(s) PROVE HoldingsInv'
  BY <1>6, SeedStep
<1>7. ASSUME NEW s \in Sales, Holdings!DecrementAgain(s) PROVE HoldingsInv'
  BY <1>7, DecrementAgainStep
<1>8. CASE Holdings!ReconcileReads
  BY <1>8, ReconcileReadsStep
<1>9. CASE Holdings!Overwrite
  BY <1>9, OverwriteStep
<1>10. CASE Holdings!ReconcileSettles
  <2>1. reading.count \in Int
    BY DEF HoldingsInv, HoldingsTyped, Holdings!ReadRecord
  <2> QED BY <1>10, <2>1, SettlesStep DEF Holdings!ReconcileSettles
<1>11. CASE Holdings!TimePasses \/ Holdings!MovesUnseen
  BY <1>11, WorldStep
<1>12. CASE Holdings!Restart
  BY <1>12, RestartStep
<1>13. CASE UNCHANGED Holdings!vars
  <2>1. Holdings!Pending' = Holdings!Pending
    BY <1>13 DEF Holdings!vars, Holdings!Pending
  <2>2. Left' = Left
    BY <1>13, <2>1 DEF Left, Holdings!vars
  <2>3. Sound'
    BY <1>13, <2>2 DEF Holdings!vars, Sound, HoldingsInv
  <2> QED BY <1>13, <2>3 DEF Holdings!vars, HoldingsInv, HoldingsTyped, Flow,
             Holdings!IsHead, Holdings!HiddenIsVerified
<1> QED BY <1>1, <1>2, <1>3, <1>4, <1>5, <1>6, <1>7, <1>8, <1>9, <1>10, <1>11, <1>12, <1>13
        DEF Holdings!Next

LEMMA HoldingsInvariance == Holdings!Spec => []HoldingsInv
BY HoldingsInit, HoldingsNext, PTL DEF Holdings!Spec

\* Every reachable state of the holdings counter is well typed.
THEOREM HoldingsTypeCorrect == Holdings!Spec => []Holdings!TypeOK
<1>1. HoldingsInv => Holdings!TypeOK
  BY DEF HoldingsInv, HoldingsTyped, Call, Pc, PendingPc, PairRow, Holdings!TypeOK
<1> QED BY <1>1, HoldingsInvariance, PTL

\* The error of a stored holdings count never grows beyond the sales that
\* overlapped the scan it came from, for any number of sales under way
\* (atomicDecrementSellerHolding against seedSellerHolding and reconcileScan).
THEOREM DriftDoesNotAddUp == Holdings!Spec => []DriftIsOneScans
<1>1. HoldingsInv => DriftIsOneScans
  <2> SUFFICES ASSUME HoldingsInv, pair # Holdings!NoPair
               PROVE  /\ pair.count >= Holdings!Expected - pair.slack
                      /\ pair.count <= Holdings!Expected + pair.slack \/ pair.count = 0
    BY DEF DriftIsOneScans, Holdings!DriftIsOneScans
  <2>1. /\ pair.asOf \in Int /\ pair.count \in Nat /\ pair.slack \in Nat
        /\ held \in Nat /\ moved \in Int /\ Left \in Int
    BY LeftIsInt DEF HoldingsInv, HoldingsTyped, PairRow
  <2>2. Holdings!Expected = Left + pair.asOf
    BY <2>1, PendingIsFinite, HoldingsCardinality DEF Holdings!Expected, Left
  <2>3. /\ pair.count >= Left + pair.asOf - pair.slack
        /\ pair.count <= Left + pair.asOf + pair.slack \/ pair.count = 0
    BY DEF HoldingsInv, Sound
  <2> QED BY <2>1, <2>2, <2>3
<1> QED BY <1>1, HoldingsInvariance, PTL

\* A badge is hidden for a low number only after a scan or a failed query
\* (the reconciliation rule of getAndDecrementSellerHolding).
THEOREM LowNumbersAreLookedInto == Holdings!Spec => []HiddenIsVerified
<1>1. HoldingsInv => HiddenIsVerified
  BY DEF HoldingsInv, HiddenIsVerified
<1> QED BY <1>1, HoldingsInvariance, PTL

=============================================================================
