----------------------------- MODULE PagesProofs -----------------------------
(***************************************************************************)
(* Proofs about what an open page is served: by the hub of the event       *)
(* stream (SseHub) and by the store of a collection's listings             *)
(* (ListingsStore).                                                        *)
(***************************************************************************)
EXTENDS SseHub, MCListings, FiniteSetTheorems, SequenceTheorems, TLAPS

----------------------------------------------------------------------------
(* The listings store.                                                     *)

StoreInv == Store!TypeOK /\ Store!SoldStaysAway

LEMMA StoreStarts ==
  ASSUME Store!ListingsAssumption, Store!Init
  PROVE  StoreInv
<1> USE DEF Store!Init, Store!ListingsAssumption
<1>1. PICK o \in Owners : o = CHOOSE x \in Owners : TRUE
  OBVIOUS
<1>2. owner \in [Mints -> Owners] /\ {listed, upstream, rows} \subseteq SUBSET Store!Listing
  BY <1>1
<1>3. /\ snapshot \in [pc : {"none", "queued", "reading", "ranking"},
                        tensor : SUBSET Store!Listing, others : SUBSET Store!Listing,
                        failed : BOOLEAN]
      /\ tensorPending \in [pc : {"none", "asked", "read"}, got : SUBSET Store!Listing]
      /\ late \in [pc : {"none", "asked", "ranking"}, got : SUBSET Store!Listing]
      /\ tab \in [waits : BOOLEAN, shown : SUBSET Store!Listing]
  BY DEF Store!NoSnapshot, Store!NoAnswer
<1>5. /\ suppressed \in [Mints -> {"no", "sold", "delisted"}]
      /\ meRetry \in [attempts : 0 .. MaxMeRetries, timer : BOOLEAN]
      /\ moves \in 0 .. MaxMoves /\ faults \in 0 .. MaxFaults
  OBVIOUS
<1>6. Store!TypeOK
  BY <1>2, <1>3, <1>5 DEF Store!TypeOK
<1>4. Store!SoldStaysAway
  BY DEF Store!SoldStaysAway, Store!About
<1> QED
  BY <1>6, <1>4 DEF StoreInv

\* add() lets nothing of a sold mint in.
LEMMA AdmittedIsNotSold ==
  ASSUME NEW S \in SUBSET Store!Listing
  PROVE  /\ Store!Admitted(S) \in SUBSET Store!Listing
         /\ \A m \in Mints : suppressed[m] = "sold" => Store!About(Store!Admitted(S), m) = {}
BY DEF Store!Admitted, Store!About

LEMMA ChainKeeps ==
  ASSUME Store!ListingsAssumption, StoreInv, Store!Chain
  PROVE  StoreInv'
<1> USE DEF StoreInv, Store!Chain, Store!storeVars, Store!fetchVars, Store!lateVars
<1>1. Store!SoldStaysAway'
  BY DEF Store!SoldStaysAway, Store!About
<1>2. moves' \in 0 .. MaxMoves
  BY DEF Store!TypeOK, Store!ListingsAssumption, Store!ChainLists, Store!ChainCancels,
         Store!ChainSells, Store!Moves
<1>3. owner' \in [Mints -> Owners]
  <2>1. CASE \E l \in Store!Listing : Store!ChainLists(l) \/ Store!ChainCancels(l)
    BY <2>1 DEF Store!TypeOK, Store!ChainLists, Store!ChainCancels
  <2>2. CASE \E l \in Store!Listing, b \in Owners : Store!ChainSells(l, b)
    BY <2>2 DEF Store!TypeOK, Store!ChainSells
  <2> QED
    BY <2>1, <2>2
<1>4. {listed, upstream}' \subseteq SUBSET Store!Listing
  BY DEF Store!TypeOK, Store!ChainLists, Store!ChainCancels, Store!ChainSells
<1>5. news' \subseteq [kind : {"list", "delist", "confirmed", "sold"}, listing : Store!Listing]
  BY DEF Store!TypeOK, Store!ChainLists, Store!ChainCancels, Store!ChainSells, Store!Streamed
<1>6. Store!TypeOK'
  BY <1>2, <1>3, <1>4, <1>5 DEF Store!TypeOK
<1> QED
  BY <1>1, <1>6

LEMMA NewsKeeps ==
  ASSUME Store!ListingsAssumption, StoreInv,
         NEW n \in news, Store!Hears(n) \/ Store!NewsIsLost(n)
  PROVE  StoreInv'
<1> USE DEF StoreInv
<1>0. n.listing \in Store!Listing /\ n.listing.mint \in Mints
  BY DEF Store!TypeOK, Store!Listing
<1>1. CASE Store!NewsIsLost(n)
  <2>1. faults' \in 0 .. MaxFaults
    BY <1>1 DEF Store!TypeOK, Store!ListingsAssumption, Store!NewsIsLost, Store!Fault
  <2> QED
    BY <1>1, <2>1 DEF Store!NewsIsLost, Store!storeVars, Store!fetchVars, Store!lateVars,
       Store!TypeOK, Store!SoldStaysAway, Store!About
<1>2. CASE Store!Hears(n)
  <2> DEFINE l == n.listing
  <2>1. /\ rows' \subseteq Store!Listing /\ tab'.shown \subseteq Store!Listing
        /\ tab' = [tab EXCEPT !.shown = tab'.shown] \/ tab' = tab
        /\ suppressed' \in [Mints -> {"no", "sold", "delisted"}]
        /\ \A m \in Mints : suppressed'[m] = "sold" => Store!About(rows', m) = {}
    <3>1. CASE Store!MintIsGone(l, "sold") \/ Store!MintIsGone(l, "delisted")
      BY <1>0, <3>1 DEF Store!MintIsGone, Store!TypeOK, Store!SoldStaysAway, Store!About,
         Store!Shows, Store!ShowsChange
    <3>2. CASE Store!Delisted(l)
      BY <1>0, <3>2 DEF Store!Delisted, Store!TypeOK, Store!SoldStaysAway, Store!About,
         Store!Shows, Store!ShowsChange
    <3>3. CASE Store!Listed(l)
      BY <1>0, <3>3 DEF Store!Listed, Store!TypeOK, Store!SoldStaysAway, Store!About,
         Store!Shows, Store!ShowsChange
    <3> QED
      BY <1>2, <3>1, <3>2, <3>3 DEF Store!Hears
  <2>2. /\ news' \subseteq news
        /\ UNCHANGED <<owner, listed, upstream, moves, warm, fetched, Store!fetchVars, faults>>
    BY <1>2 DEF Store!Hears
  <2>3. Store!TypeOK'
    BY <2>1, <2>2 DEF Store!TypeOK, Store!fetchVars, Store!lateVars
  <2> QED
    BY <2>1, <2>3 DEF Store!SoldStaysAway
<1> QED
  BY <1>1, <1>2

\* What a task or a page does to the store goes through Admitted or takes
\* rows away.
LEMMA RowsGoThroughAdmitted ==
  ASSUME Store!SoldStaysAway, UNCHANGED suppressed,
         NEW S \in SUBSET Store!Listing, NEW T \in SUBSET rows,
         rows' = T \cup Store!Admitted(S)
  PROVE  Store!SoldStaysAway'
BY DEF Store!SoldStaysAway, Store!About, Store!Admitted

LEMMA SnapshotKeeps ==
  ASSUME Store!ListingsAssumption, StoreInv, Store!SnapshotTask
  PROVE  StoreInv'
<1> USE DEF StoreInv
<1>1. CASE Store!SlotIsFree
  <2>1. Store!TensorNow \in SUBSET Store!Listing
    BY DEF Store!TensorNow, Store!TypeOK, Store!Of
  <2>2. snapshot' \in [pc : {"none", "queued", "reading", "ranking"},
                       tensor : SUBSET Store!Listing, others : SUBSET Store!Listing,
                       failed : BOOLEAN]
    BY <1>1, <2>1 DEF Store!SlotIsFree, Store!TypeOK
  <2> QED
    BY <1>1, <2>2 DEF Store!SlotIsFree, Store!TypeOK, Store!SoldStaysAway, Store!About,
       Store!chainVars, Store!storeVars, Store!lateVars
<1>2. CASE Store!MarketplacesAnswer
  <2> DEFINE me == Store!Of(upstream, "ME")  mmm == Store!Of(upstream, "MMM")
             Good(S) == S \in SUBSET Store!Listing
  <2>1. /\ Good(me) /\ Good(mmm) /\ Good(Store!Of(rows, "ME")) /\ Good({})
        /\ \A m \in Mints : Good(me \ Store!About(me, m))
    BY DEF Store!TypeOK, Store!Of
  <2>2. PICK a \in SUBSET Store!Listing, b \in SUBSET Store!Listing,
             failed \in BOOLEAN, later \in BOOLEAN : Store!Reads(a, b, failed, later)
    BY <1>2, <2>1 DEF Store!MarketplacesAnswer
  <2>3. /\ snapshot' \in [pc : {"none", "queued", "reading", "ranking"},
                          tensor : SUBSET Store!Listing, others : SUBSET Store!Listing,
                          failed : BOOLEAN]
        /\ late' \in [pc : {"none", "asked", "ranking"}, got : SUBSET Store!Listing]
    <3>1. snapshot' = [snapshot EXCEPT !.pc = "ranking", !.others = a \cup b, !.failed = failed]
      BY <2>2 DEF Store!Reads
    <3>2. late' = late \/ late' = [pc |-> "asked", got |-> {}]
      BY <2>2 DEF Store!Reads, Store!NoAnswer
    <3>3. /\ snapshot \in [pc : {"none", "queued", "reading", "ranking"},
                           tensor : SUBSET Store!Listing, others : SUBSET Store!Listing,
                           failed : BOOLEAN]
          /\ late \in [pc : {"none", "asked", "ranking"}, got : SUBSET Store!Listing]
      BY DEF Store!TypeOK
    <3>4. a \cup b \in SUBSET Store!Listing
      OBVIOUS
    <3>5. snapshot' \in [pc : {"none", "queued", "reading", "ranking"},
                         tensor : SUBSET Store!Listing, others : SUBSET Store!Listing,
                         failed : BOOLEAN]
      BY <3>1, <3>3, <3>4
    <3>6. late' \in [pc : {"none", "asked", "ranking"}, got : SUBSET Store!Listing]
      BY <3>2, <3>3
    <3> QED
      BY <3>5, <3>6
  <2>4. tensorPending' \in [pc : {"none", "asked", "read"}, got : SUBSET Store!Listing]
    BY <1>2 DEF Store!MarketplacesAnswer, Store!TypeOK, Store!NoAnswer
  <2>7. UNCHANGED faults \/ Store!Fault
    BY <1>2 DEF Store!MarketplacesAnswer
  <2>5. faults' \in 0 .. MaxFaults
    BY <2>7 DEF Store!TypeOK, Store!Fault, Store!ListingsAssumption
  <2>6. UNCHANGED <<Store!chainVars, Store!storeVars, tensorLast, meRetry, tab>>
    BY <1>2 DEF Store!MarketplacesAnswer
  <2> QED
    BY <2>3, <2>4, <2>5, <2>6 DEF Store!TypeOK, Store!SoldStaysAway, Store!About,
       Store!chainVars, Store!storeVars
<1>3. CASE Store!SnapshotLands
  <2> DEFINE fresh == snapshot.tensor \cup snapshot.others
  <2>1. fresh \in SUBSET Store!Listing
    BY DEF Store!TypeOK
  <2>2. rows' = {} \cup Store!Admitted(fresh)
    BY <1>3 DEF Store!SnapshotLands
  <2>3. /\ Store!SoldStaysAway' /\ rows' \in SUBSET Store!Listing
    BY <1>3, <2>1, <2>2, RowsGoThroughAdmitted, AdmittedIsNotSold
       DEF Store!SnapshotLands
  <2>4. tab' \in [waits : BOOLEAN, shown : SUBSET Store!Listing]
    <3>1. \E R \in SUBSET Store!Listing : tab' = [waits |-> FALSE, shown |-> R]
      BY <1>3, <2>1, <2>3 DEF Store!SnapshotLands, Store!Responses
    <3> QED
      BY <3>1
  <2>5. /\ warm' \in BOOLEAN /\ fetched' \in BOOLEAN
        /\ meRetry' \in [attempts : 0 .. MaxMeRetries, timer : BOOLEAN]
    <3>1. /\ MaxMeRetries \in Nat /\ meRetry.attempts \in 0 .. MaxMeRetries
          /\ meRetry \in [attempts : 0 .. MaxMeRetries, timer : BOOLEAN]
      BY DEF Store!TypeOK, Store!ListingsAssumption
    <3>2. \/ /\ meRetry.attempts < MaxMeRetries
             /\ meRetry' = [attempts |-> meRetry.attempts + 1, timer |-> TRUE]
          \/ meRetry' = [meRetry EXCEPT !.attempts = 0]
      BY <1>3 DEF Store!SnapshotLands
    <3>3. meRetry' \in [attempts : 0 .. MaxMeRetries, timer : BOOLEAN]
      <4>1. meRetry.attempts \in Nat /\ meRetry.timer \in BOOLEAN
        BY <3>1
      <4>2. CASE /\ meRetry.attempts < MaxMeRetries
                 /\ meRetry' = [attempts |-> meRetry.attempts + 1, timer |-> TRUE]
        <5>1. meRetry.attempts + 1 \in 0 .. MaxMeRetries
          BY <3>1, <4>1, <4>2
        <5> QED
          BY <4>2, <5>1
      <4>3. CASE meRetry' = [meRetry EXCEPT !.attempts = 0]
        BY <3>1, <4>3
      <4> QED
        BY <3>2, <4>2, <4>3
    <3>4. warm' \in BOOLEAN /\ fetched' \in BOOLEAN
      BY <1>3 DEF Store!SnapshotLands, Store!TypeOK
    <3> QED
      BY <3>3, <3>4
  <2>6. snapshot' \in [pc : {"none", "queued", "reading", "ranking"},
                       tensor : SUBSET Store!Listing, others : SUBSET Store!Listing,
                       failed : BOOLEAN]
    BY <1>3 DEF Store!SnapshotLands, Store!NoSnapshot
  <2>7. UNCHANGED <<Store!chainVars, suppressed, Store!lateVars, faults>>
    BY <1>3 DEF Store!SnapshotLands
  <2> QED
    BY <2>3, <2>4, <2>5, <2>6, <2>7 DEF Store!TypeOK, Store!chainVars, Store!lateVars
<1> QED
  BY <1>1, <1>2, <1>3 DEF Store!SnapshotTask

LEMMA TensorKeeps ==
  ASSUME Store!ListingsAssumption, StoreInv, Store!TensorTask
  PROVE  StoreInv'
<1> USE DEF StoreInv
<1>1. CASE Store!TensorAnswers
  <2>1. tensorPending' \in [pc : {"none", "asked", "read"}, got : SUBSET Store!Listing]
    BY <1>1 DEF Store!TensorAnswers, Store!TypeOK, Store!Of
  <2>2. faults' \in 0 .. MaxFaults
    BY <1>1 DEF Store!TensorAnswers, Store!TypeOK, Store!Fault, Store!ListingsAssumption
  <2>3. UNCHANGED <<Store!chainVars, Store!storeVars, snapshot, tensorLast, late, meRetry, tab>>
    BY <1>1 DEF Store!TensorAnswers
  <2> QED
    BY <2>1, <2>2, <2>3 DEF Store!TypeOK, Store!SoldStaysAway, Store!About,
       Store!chainVars, Store!storeVars
<1>2. CASE Store!TensorLands
  <2> DEFINE merged == (rows \ Store!Of(rows, "TENSOR")) \cup tensorPending.got
  <2>1. merged \in SUBSET Store!Listing /\ tensorPending.got \in SUBSET Store!Listing
    BY DEF Store!TypeOK
  <2>2. /\ Store!SoldStaysAway' /\ rows' \in SUBSET Store!Listing
        /\ tab' \in [waits : BOOLEAN, shown : SUBSET Store!Listing]
    <3>1. CASE fetched
      <4>1. /\ rows' = {} \cup Store!Admitted(merged) /\ UNCHANGED suppressed
            /\ tab' = [tab EXCEPT !.shown = merged]
        BY <1>2, <3>1 DEF Store!TensorLands, Store!Shows
      <4> QED
        BY <4>1, <2>1, RowsGoThroughAdmitted, AdmittedIsNotSold DEF Store!TypeOK
    <3>2. CASE ~ fetched
      BY <1>2, <3>2 DEF Store!TensorLands, Store!SoldStaysAway, Store!About, Store!TypeOK
    <3> QED
      BY <3>1, <3>2
  <2>3. /\ tensorLast' \in SUBSET Store!Listing
        /\ tensorPending' \in [pc : {"none", "asked", "read"}, got : SUBSET Store!Listing]
    BY <1>2, <2>1 DEF Store!TensorLands, Store!NoAnswer
  <2>4. UNCHANGED <<Store!chainVars, suppressed, warm, fetched, snapshot, late, meRetry, faults>>
    BY <1>2 DEF Store!TensorLands
  <2> QED
    BY <2>2, <2>3, <2>4 DEF Store!TypeOK, Store!chainVars
<1> QED
  BY <1>1, <1>2 DEF Store!TensorTask

LEMMA LateKeeps ==
  ASSUME Store!ListingsAssumption, StoreInv, Store!LateTask
  PROVE  StoreInv'
<1> USE DEF StoreInv
<1>1. CASE Store!LateRowsAreRead
  <2>1. late' \in [pc : {"none", "asked", "ranking"}, got : SUBSET Store!Listing]
    BY <1>1 DEF Store!LateRowsAreRead, Store!TypeOK, Store!NoAnswer, Store!Of
  <2> QED
    BY <1>1, <2>1 DEF Store!LateRowsAreRead, Store!TypeOK, Store!SoldStaysAway, Store!About,
       Store!chainVars, Store!storeVars
<1>2. CASE Store!LateRowsLand
  <2>1. PICK T \in SUBSET rows : /\ rows' = T \cup Store!Admitted(late.got)
                                 /\ Store!Shows(rows')
    BY <1>2 DEF Store!LateRowsLand
  <2>2. late.got \in SUBSET Store!Listing /\ rows \in SUBSET Store!Listing
    BY DEF Store!TypeOK
  <2>3. late' \in [pc : {"none", "asked", "ranking"}, got : SUBSET Store!Listing]
    BY <1>2 DEF Store!LateRowsLand, Store!NoAnswer
  <2>4. UNCHANGED <<Store!chainVars, suppressed, warm, fetched, snapshot, tensorLast,
                    tensorPending, meRetry, faults>>
    BY <1>2 DEF Store!LateRowsLand
  <2>5. Store!SoldStaysAway' /\ rows' \in SUBSET Store!Listing
    BY <2>1, <2>2, <2>4, RowsGoThroughAdmitted, AdmittedIsNotSold
  <2>6. tab' \in [waits : BOOLEAN, shown : SUBSET Store!Listing]
    BY <2>1, <2>5 DEF Store!Shows, Store!TypeOK
  <2> QED
    BY <2>3, <2>4, <2>5, <2>6 DEF Store!TypeOK, Store!chainVars
<1> QED
  BY <1>1, <1>2 DEF Store!LateTask

LEMMA EnsureFreshIsTyped ==
  ASSUME Store!TypeOK, NEW young \in BOOLEAN, Store!EnsureFresh(young)
  PROVE  /\ warm' \in BOOLEAN
         /\ snapshot' \in [pc : {"none", "queued", "reading", "ranking"},
                           tensor : SUBSET Store!Listing, others : SUBSET Store!Listing,
                           failed : BOOLEAN]
BY DEF Store!EnsureFresh, Store!TypeOK, Store!NoSnapshot

LEMMA TimersKeep ==
  ASSUME Store!ListingsAssumption, StoreInv,
         \/ Store!RetryFires \/ Store!RefreshHint \/ Store!EvictSlug
         \/ \E young \in Store!Ages : Store!PageLoads(young)
         \/ \E m \in Mints : Store!SuppressionEnds(m)
         \/ \E src \in Sources : Store!CatchesUp(src)
  PROVE  StoreInv'
<1> USE DEF StoreInv
<1>0. Store!Ages \subseteq BOOLEAN
  BY DEF Store!Ages, Store!TypeOK
<1>1. CASE Store!RetryFires \/ Store!RefreshHint
  <2>1. meRetry' \in [attempts : 0 .. MaxMeRetries, timer : BOOLEAN]
    BY <1>1 DEF Store!RetryFires, Store!RefreshHint, Store!TypeOK
  <2>2. \E young \in BOOLEAN : Store!EnsureFresh(young)
    BY <1>0, <1>1 DEF Store!RetryFires, Store!RefreshHint
  <2> QED
    BY <1>1, <2>1, <2>2, EnsureFreshIsTyped DEF Store!RetryFires, Store!RefreshHint,
       Store!TypeOK, Store!SoldStaysAway, Store!About, Store!chainVars, Store!lateVars
<1>2. CASE Store!EvictSlug
  <2>1. faults' \in 0 .. MaxFaults
    BY <1>2 DEF Store!EvictSlug, Store!TypeOK, Store!Fault, Store!ListingsAssumption
  <2>2. rows' = {} /\ fetched' = FALSE /\ warm' = FALSE
    BY <1>2 DEF Store!EvictSlug
  <2>3. UNCHANGED <<Store!chainVars, suppressed, Store!fetchVars, tab>>
    BY <1>2 DEF Store!EvictSlug
  <2>4. Store!SoldStaysAway'
    BY <2>2 DEF Store!SoldStaysAway, Store!About
  <2>5. /\ UNCHANGED <<owner, listed, upstream, news, moves, suppressed, tab>>
        /\ UNCHANGED <<snapshot, tensorLast, tensorPending, late, meRetry>>
    BY <2>3 DEF Store!chainVars, Store!fetchVars, Store!lateVars
  <2>6. ({listed, upstream, rows} \subseteq SUBSET Store!Listing)'
    BY <2>2, <2>5 DEF Store!TypeOK
  <2>7. Store!TypeOK'
    BY <2>1, <2>2, <2>5, <2>6 DEF Store!TypeOK
  <2> QED
    BY <2>4, <2>7
<1>3. ASSUME NEW young \in Store!Ages, Store!PageLoads(young)
      PROVE  StoreInv'
  <2>1. tab' \in [waits : BOOLEAN, shown : SUBSET Store!Listing]
    <3>1. \/ \E R \in SUBSET rows : tab' = [tab EXCEPT !.shown = R]
          \/ tab' = [tab EXCEPT !.waits = TRUE]
      BY <1>3 DEF Store!PageLoads, Store!Responses
    <3>2. /\ tab \in [waits : BOOLEAN, shown : SUBSET Store!Listing]
          /\ SUBSET rows \subseteq SUBSET Store!Listing
      BY DEF Store!TypeOK
    <3> QED
      BY <3>1, <3>2
  <2>2. young \in BOOLEAN /\ Store!EnsureFresh(young)
    BY <1>0, <1>3 DEF Store!PageLoads
  <2> QED
    BY <1>3, <2>1, <2>2, EnsureFreshIsTyped DEF Store!PageLoads,
       Store!TypeOK, Store!SoldStaysAway, Store!About, Store!chainVars, Store!lateVars
<1>4. ASSUME NEW m \in Mints, Store!SuppressionEnds(m)
      PROVE  StoreInv'
  BY <1>4 DEF Store!SuppressionEnds, Store!TypeOK, Store!SoldStaysAway, Store!About,
     Store!chainVars, Store!fetchVars, Store!lateVars
<1>5. ASSUME NEW src \in Sources, Store!CatchesUp(src)
      PROVE  StoreInv'
  <2>1. upstream' \in SUBSET Store!Listing
    BY <1>5 DEF Store!CatchesUp, Store!TypeOK, Store!Of
  <2> QED
    BY <1>5, <2>1 DEF Store!CatchesUp, Store!TypeOK, Store!SoldStaysAway, Store!About,
       Store!storeVars, Store!fetchVars, Store!lateVars
<1> QED
  BY <1>1, <1>2, <1>3, <1>4, <1>5

LEMMA StoreSteps ==
  ASSUME Store!ListingsAssumption, StoreInv, [Store!Next]_(Store!vars)
  PROVE  StoreInv'
<1>1. CASE UNCHANGED Store!vars
  BY <1>1 DEF StoreInv, Store!TypeOK, Store!SoldStaysAway, Store!About, Store!vars,
     Store!chainVars, Store!storeVars, Store!fetchVars, Store!lateVars
<1>2. CASE Store!Next
  BY <1>2, ChainKeeps, NewsKeeps, SnapshotKeeps, TensorKeeps, LateKeeps, TimersKeep
     DEF Store!Next
<1> QED
  BY <1>1, <1>2

\* The store, its tasks and the page have the types of their declarations.
THEOREM StoreTypeCorrect ==
  Store!Spec => []Store!TypeOK
<1> USE ListingsAreBounded
<1>1. Store!Init => StoreInv
  BY StoreStarts
<1>2. StoreInv /\ [Store!Next]_(Store!vars) => StoreInv'
  BY StoreSteps
<1>3. StoreInv => Store!TypeOK
  BY DEF StoreInv
<1> QED
  BY <1>1, <1>2, <1>3, PTL DEF Store!Spec

\* A mint whose sale was heard has no row while it is suppressed (SUPPRESS_TTL_MS
\* in listings-store.ts), however many snapshots, late answers and retries were
\* under way when it was sold.
THEOREM SoldMintsStayAway ==
  Store!Spec => []SoldStaysAway
<1> USE ListingsAreBounded
<1>1. Store!Init => StoreInv
  BY StoreStarts
<1>2. StoreInv /\ [Store!Next]_(Store!vars) => StoreInv'
  BY StoreSteps
<1>3. StoreInv => SoldStaysAway
  BY DEF StoreInv, SoldStaysAway
<1> QED
  BY <1>1, <1>2, <1>3, PTL DEF Store!Spec

----------------------------------------------------------------------------
(* The slots of the event stream.                                          *)

At(i) == {k \in Clients : conn[k].ip = i}

Slots ==
  /\ conn \in [Conns -> Conn] /\ clientsByIp \in [Ips -> Nat]
  /\ \A k \in Clients : conn[k].full < MaxBackpressure
  /\ SlotsMatchConnections

LEMMA FreeIsTyped ==
  /\ Free \in Conn /\ Cleaned \in Conn
  /\ Free.stage = "free" /\ Cleaned.stage = "cleaned"
BY SseAssumption DEF Free, Cleaned, Conn

\* The clients K go, each once: their slots go with them.
LEMMA FreedSlots ==
  ASSUME Slots, NEW K \in SUBSET Clients, conn' \in [Conns -> Conn],
         \A k \in Conns : conn'[k].stage = "open" <=> k \in Clients \ K,
         \A k \in Clients \ K : conn'[k].ip = conn[k].ip,
         \A k \in Clients \ K : conn'[k].full < MaxBackpressure,
         clientsByIp' = Freed(K)
  PROVE  Slots'
<1>1. Clients' = Clients \ K
  BY DEF Clients
<1>2. IsFiniteSet(Clients)
  BY SseAssumption, FS_Subset DEF Clients
<1>3. Cardinality(Clients') \in Nat /\ Cardinality(Clients') <= Cardinality(Clients)
      /\ Cardinality(Clients) \in Nat
  BY <1>1, <1>2, FS_Subset, FS_CardinalityType
<1>4. ASSUME NEW i \in Ips
      PROVE  /\ clientsByIp'[i] = Cardinality(At(i)') /\ clientsByIp'[i] \in Nat
             /\ clientsByIp'[i] <= PerIp
  <2> DEFINE G == {k \in K : conn[k].ip = i}
  <2>1. At(i)' = At(i) \ G
    BY <1>1 DEF At
  <2>2. G \subseteq At(i) /\ IsFiniteSet(At(i)) /\ IsFiniteSet(G)
    BY <1>2, FS_Subset DEF At
  <2>3. Cardinality(At(i) \ G) = Cardinality(At(i)) - Cardinality(G)
        /\ Cardinality(G) \in Nat /\ Cardinality(At(i)) \in Nat
        /\ Cardinality(At(i) \ G) \in Nat
    <3>1. At(i) \cap G = G
      BY <2>2
    <3>2. IsFiniteSet(At(i) \ G)
      BY <2>2, FS_Subset
    <3> QED
      BY <2>2, <3>1, <3>2, FS_Difference, FS_CardinalityType
  <2>4. clientsByIp[i] = Cardinality(At(i)) /\ clientsByIp[i] <= PerIp
    BY DEF Slots, SlotsMatchConnections, At
  <2>5. clientsByIp'[i] = clientsByIp[i] - Cardinality(G)
    BY DEF Freed
  <2>6. PerIp \in Nat
    BY SseAssumption
  <2> HIDE DEF G
  <2> QED
    BY <2>1, <2>3, <2>4, <2>5, <2>6
<1>5. clientsByIp' \in [Ips -> Nat]
  BY <1>4 DEF Freed
<1>6. SlotsMatchConnections'
  <2>1. Cardinality(Clients) <= MaxClients /\ MaxClients \in Nat
    BY SseAssumption DEF Slots, SlotsMatchConnections
  <2>2. Cardinality(Clients') <= MaxClients
    BY <1>3, <2>1
  <2> QED
    BY <1>4, <2>2 DEF SlotsMatchConnections, At
<1> QED
  BY <1>1, <1>5, <1>6 DEF Slots

\* A step that opens and closes nothing.
LEMMA KeptSlots ==
  ASSUME Slots, conn' \in [Conns -> Conn],
         \A k \in Conns : conn'[k].stage = "open" <=> k \in Clients,
         \A k \in Clients : conn'[k].ip = conn[k].ip /\ conn'[k].full < MaxBackpressure,
         UNCHANGED clientsByIp
  PROVE  Slots'
<1>1. Clients' = Clients
  BY DEF Clients
<1>2. \A i \in Ips : At(i)' = At(i)
  BY <1>1 DEF At
<1>3. SlotsMatchConnections'
  BY <1>1, <1>2 DEF Slots, SlotsMatchConnections, At
<1> QED
  BY <1>1, <1>3 DEF Slots

\* The cap is checked in the same step as the slot is taken.
LEMMA OpenedSlots ==
  ASSUME Slots, NEW k \in Conns, NEW ip \in Ips,
         conn[k].stage = "free", Admitted(ip), Opened(k, ip)
  PROVE  Slots'
<1> DEFINE new == [stage |-> "open", ip |-> ip, gone |-> FALSE, beats |-> TRUE, full |-> 0]
<1>1. conn' = [conn EXCEPT ![k] = new] /\ new \in Conn
  BY DEF Opened, Conn
<1>2. conn' \in [Conns -> Conn] /\ Clients' = Clients \cup {k} /\ k \notin Clients
  BY <1>1 DEF Clients, Slots
<1>3. IsFiniteSet(Clients)
  BY SseAssumption, FS_Subset DEF Clients
<1>4. Cardinality(Clients') = Cardinality(Clients) + 1 /\ Cardinality(Clients) \in Nat
  BY <1>2, <1>3, FS_AddElement, FS_CardinalityType
<1>5. Cardinality(Clients') <= MaxClients
  BY <1>4, SseAssumption DEF Admitted
<1>6. ASSUME NEW i \in Ips
      PROVE  /\ clientsByIp'[i] = Cardinality(At(i)') /\ clientsByIp'[i] \in Nat
             /\ clientsByIp'[i] <= PerIp
  <2>1. clientsByIp[i] = Cardinality(At(i)) /\ clientsByIp[i] <= PerIp /\ clientsByIp[i] \in Nat
    BY DEF Slots, SlotsMatchConnections, At
  <2>2. CASE i = ip
    <3>1. At(i)' = At(i) \cup {k} /\ k \notin At(i)
      BY <1>1, <1>2, <2>2 DEF At, Slots, Clients
    <3>2. IsFiniteSet(At(i))
      BY <1>3, FS_Subset DEF At
    <3>3. Cardinality(At(i)') = Cardinality(At(i)) + 1
      BY <3>1, <3>2, FS_AddElement
    <3>4. clientsByIp'[i] = clientsByIp[i] + 1 /\ clientsByIp[i] < PerIp
      BY <2>2 DEF Opened, Admitted, Slots
    <3>5. PerIp \in Nat
      BY SseAssumption
    <3> QED
      BY <2>1, <3>3, <3>4, <3>5
  <2>3. CASE i # ip
    <3>1. At(i)' = At(i)
      BY <1>1, <1>2, <2>3 DEF At, Slots, Clients
    <3>2. clientsByIp'[i] = clientsByIp[i]
      BY <2>3 DEF Opened, Slots
    <3> QED
      BY <2>1, <3>1, <3>2
  <2> QED
    BY <2>2, <2>3
<1>7. clientsByIp' \in [Ips -> Nat]
  BY <1>6 DEF Opened, Slots
<1>8. \A j \in Clients' : conn'[j].full < MaxBackpressure
  BY <1>1, <1>2, SseAssumption DEF Slots, Clients
<1> QED
  BY <1>2, <1>5, <1>6, <1>7, <1>8 DEF Slots, SlotsMatchConnections, At

LEMMA BroadcastSlots ==
  ASSUME Slots, NEW frames, Broadcast(frames)
  PROVE  Slots'
<1>1. PICK r \in Answers :
        LET Full(k) == IF r[k] = "full" THEN conn[k].full + 1 ELSE 0
            evicted == {k \in Clients : r[k] = "throws" \/ Full(k) >= MaxBackpressure}
        IN  /\ conn' = [k \in Conns |->
                 IF k \in evicted THEN Cleaned
                 ELSE IF k \in Clients THEN [conn[k] EXCEPT !.full = Full(k)] ELSE conn[k]]
            /\ clientsByIp' = Freed(evicted)
  BY DEF Broadcast
<1> DEFINE Full(k) == IF r[k] = "full" THEN conn[k].full + 1 ELSE 0
           evicted == {k \in Clients : r[k] = "throws" \/ Full(k) >= MaxBackpressure}
<1>2. \A k \in Clients : Full(k) \in Nat /\ conn[k] \in Conn
  BY DEF Slots, Conn, Clients
<1>3. \A k \in Conns :
        conn'[k] = IF k \in evicted THEN Cleaned
                   ELSE IF k \in Clients THEN [conn[k] EXCEPT !.full = Full(k)] ELSE conn[k]
  BY <1>1
<1>4. evicted \in SUBSET Clients /\ clientsByIp' = Freed(evicted)
  BY <1>1
<1>5. \A k \in Clients \ evicted : Full(k) < MaxBackpressure
  BY <1>2, SseAssumption
<1>6. DOMAIN conn' = Conns /\ conn' = [k \in Conns |-> conn'[k]]
  BY <1>1
<1>7. \A k \in Clients : /\ [conn[k] EXCEPT !.full = Full(k)] \in Conn
                         /\ [conn[k] EXCEPT !.full = Full(k)].stage = conn[k].stage
                         /\ [conn[k] EXCEPT !.full = Full(k)].ip = conn[k].ip
                         /\ [conn[k] EXCEPT !.full = Full(k)].full = Full(k)
  BY <1>2 DEF Conn
<1> HIDE DEF Full, evicted
<1>8. conn' \in [Conns -> Conn]
  BY <1>3, <1>6, <1>7, FreeIsTyped DEF Slots
<1>9. /\ \A k \in Conns : conn'[k].stage = "open" <=> k \in Clients \ evicted
      /\ \A k \in Clients \ evicted : conn'[k].ip = conn[k].ip
      /\ \A k \in Clients \ evicted : conn'[k].full < MaxBackpressure
  <2>1. \A k \in Clients \ evicted : conn'[k] = [conn[k] EXCEPT !.full = Full(k)]
    BY <1>3 DEF Clients
  <2>2. \A k \in evicted : conn'[k].stage = "cleaned"
    BY <1>3, <1>4, FreeIsTyped DEF Clients
  <2>3. \A k \in Conns \ Clients : conn'[k] = conn[k] /\ conn[k].stage # "open"
    BY <1>3, <1>4 DEF Clients
  <2>4. \A k \in Clients \ evicted : conn'[k].stage = "open"
    BY <2>1, <1>7 DEF Clients
  <2>5. \A k \in Conns : conn'[k].stage = "open" <=> k \in Clients \ evicted
    BY <1>4, <2>2, <2>3, <2>4
  <2>6. \A k \in Clients \ evicted :
          conn'[k].ip = conn[k].ip /\ conn'[k].full < MaxBackpressure
    BY <2>1, <1>5, <1>7
  <2> QED
    BY <2>5, <2>6
<1> QED
  BY <1>4, <1>8, <1>9, FreedSlots

LEMMA EnqueueSlots ==
  ASSUME Slots, NEW f, Enqueue(f)
  PROVE  Slots'
<1>1. CASE Flush(Append(queue, f))
  BY <1>1, BroadcastSlots DEF Flush
<1>2. CASE UNCHANGED <<conn, clientsByIp>>
  BY <1>2 DEF Slots, SlotsMatchConnections, Clients
<1> QED
  BY <1>1, <1>2 DEF Enqueue

LEMMA ConnectionSlots ==
  ASSUME Slots, NEW k \in Conns, Heartbeat(k) \/ CloseFires(k) \/ GoesSilent(k)
  PROVE  Slots'
<1>1. conn[k] \in Conn /\ conn \in [Conns -> Conn]
  BY DEF Slots
<1>2. CASE /\ conn' = [conn EXCEPT ![k] = Cleaned] /\ clientsByIp' = Freed({k}) /\ k \in Clients
  <2>1. conn' \in [Conns -> Conn] /\ {k} \in SUBSET Clients
    BY <1>1, <1>2, FreeIsTyped
  <2>2. \A j \in Conns : conn'[j] = IF j = k THEN Cleaned ELSE conn[j]
    BY <1>1, <1>2
  <2>3. \A j \in Conns : conn'[j].stage = "open" <=> j \in Clients \ {k}
    BY <2>2, FreeIsTyped DEF Clients
  <2>4. \A j \in Clients \ {k} : conn'[j].ip = conn[j].ip /\ conn'[j].full < MaxBackpressure
    BY <2>2 DEF Clients, Slots
  <2> QED
    BY <1>2, <2>1, <2>3, <2>4, FreedSlots
<1>3. ASSUME NEW new \in Conn, conn' = [conn EXCEPT ![k] = new], UNCHANGED clientsByIp,
             new.stage = "open" <=> k \in Clients,
             k \in Clients => new.ip = conn[k].ip /\ new.full < MaxBackpressure
      PROVE  Slots'
  <2>1. conn' \in [Conns -> Conn]
    BY <1>1, <1>3
  <2>2. \A j \in Conns : conn'[j] = IF j = k THEN new ELSE conn[j]
    BY <1>1, <1>3
  <2>3. /\ \A j \in Conns : conn'[j].stage = "open" <=> j \in Clients
        /\ \A j \in Clients : conn'[j].ip = conn[j].ip /\ conn'[j].full < MaxBackpressure
    BY <1>3, <2>2 DEF Clients, Slots
  <2> QED
    BY <1>3, <2>1, <2>3, KeptSlots
<1>4. CASE GoesSilent(k)
  <2>1. conn' = [conn EXCEPT ![k] = [conn[k] EXCEPT !.gone = TRUE]] /\ UNCHANGED clientsByIp
    BY <1>1, <1>4 DEF GoesSilent
  <2>2. k \in Clients /\ [conn[k] EXCEPT !.gone = TRUE] \in Conn
    BY <1>1, <1>4 DEF GoesSilent, Conn
  <2> QED
    BY <1>1, <1>3, <2>1, <2>2 DEF Slots, Clients, Conn
<1>5. CASE CloseFires(k)
  <2>1. CASE conn[k].stage = "cleaned" /\ conn' = [conn EXCEPT ![k] = Free] /\ UNCHANGED clientsByIp
    <3>1. k \notin Clients
      BY <2>1 DEF Clients
    <3> QED
      BY <1>3, <2>1, <3>1, FreeIsTyped
  <2> QED
    BY <1>2, <1>5, <2>1 DEF CloseFires
<1>6. CASE Heartbeat(k)
  <2>1. k \in Clients /\ conn[k].full \in Nat /\ conn[k].full < MaxBackpressure
    BY <1>6 DEF Heartbeat, Slots, Clients, Conn
  <2>2. CASE conn' = [conn EXCEPT ![k].full = 0] /\ UNCHANGED clientsByIp
    <3>1. conn' = [conn EXCEPT ![k] = [conn[k] EXCEPT !.full = 0]]
      BY <1>1, <2>2
    <3>2. /\ [conn[k] EXCEPT !.full = 0] \in Conn
          /\ [conn[k] EXCEPT !.full = 0].ip = conn[k].ip
          /\ [conn[k] EXCEPT !.full = 0].stage = "open"
          /\ [conn[k] EXCEPT !.full = 0].full < MaxBackpressure
      BY <1>1, <2>1, SseAssumption DEF Conn, Clients
    <3> QED
      BY <1>3, <2>1, <2>2, <3>1, <3>2
  <2>3. CASE /\ conn[k].full + 1 < MaxBackpressure
             /\ conn' = [conn EXCEPT ![k].full = @ + 1] /\ UNCHANGED clientsByIp
    <3>1. conn' = [conn EXCEPT ![k] = [conn[k] EXCEPT !.full = conn[k].full + 1]]
      BY <1>1, <2>3
    <3>2. /\ [conn[k] EXCEPT !.full = conn[k].full + 1] \in Conn
          /\ [conn[k] EXCEPT !.full = conn[k].full + 1].ip = conn[k].ip
          /\ [conn[k] EXCEPT !.full = conn[k].full + 1].stage = "open"
          /\ [conn[k] EXCEPT !.full = conn[k].full + 1].full < MaxBackpressure
      BY <1>1, <2>1, <2>3 DEF Conn, Clients
    <3> QED
      BY <1>3, <2>1, <2>3, <3>1, <3>2
  <2>4. CASE conn' = [conn EXCEPT ![k].beats = FALSE] /\ UNCHANGED clientsByIp
    <3>1. conn' = [conn EXCEPT ![k] = [conn[k] EXCEPT !.beats = FALSE]]
      BY <1>1, <2>4
    <3>2. /\ [conn[k] EXCEPT !.beats = FALSE] \in Conn
          /\ [conn[k] EXCEPT !.beats = FALSE].ip = conn[k].ip
          /\ [conn[k] EXCEPT !.beats = FALSE].stage = "open"
          /\ [conn[k] EXCEPT !.beats = FALSE].full < MaxBackpressure
      BY <1>1, <2>1 DEF Conn, Clients
    <3> QED
      BY <1>3, <2>1, <2>4, <3>1, <3>2
  <2> QED
    BY <1>2, <1>6, <2>1, <2>2, <2>3, <2>4 DEF Heartbeat
<1> QED
  BY <1>4, <1>5, <1>6

LEMMA HangsSlots ==
  ASSUME Slots, NEW p \in Pages, Hangs(p), UNCHANGED clientsByIp
  PROVE  Slots'
<1>1. \A k \in Conns : conn[k] \in Conn
  BY DEF Slots
<1>2. \A k \in Conns : [conn[k] EXCEPT !.gone = TRUE] \in Conn
  BY <1>1 DEF Conn
<1>3. conn' \in [Conns -> Conn]
  BY <1>1, <1>2 DEF Hangs
<1>4. \A k \in Conns : conn'[k].stage = conn[k].stage /\ conn'[k].ip = conn[k].ip
                      /\ conn'[k].full = conn[k].full
  BY <1>1 DEF Hangs, Conn
<1> QED
  BY <1>3, <1>4, KeptSlots DEF Clients, Slots

LEMMA SlotsStart ==
  ASSUME Init
  PROVE  Slots
<1>1. conn \in [Conns -> Conn] /\ Clients = {}
  BY FreeIsTyped DEF Init, Clients
<1>2. Cardinality({}) = 0
  BY FS_EmptySet
<1>3. \A i \in Ips : {k \in Clients : conn[k].ip = i} = {}
  BY <1>1
<1>4. SlotsMatchConnections
  BY <1>1, <1>2, <1>3, SseAssumption DEF Init, SlotsMatchConnections
<1> QED
  BY <1>1, <1>4 DEF Slots, Init

LEMMA SlotsStep ==
  ASSUME Slots, [Next]_vars
  PROVE  Slots'
<1>1. CASE UNCHANGED hub
  BY <1>1 DEF hub, Slots, SlotsMatchConnections, Clients
<1>2. CASE EmitMintStatus \/ BatchTimerFires
  BY <1>2, EnqueueSlots, BroadcastSlots DEF EmitMintStatus, BatchTimerFires, Flush
<1>3. ASSUME NEW s \in Sales,
             \/ EmitSale(s) \/ CountResolves(s) \/ Enriches(s) \/ RetryResolves(s)
      PROVE  Slots'
  BY <1>3, EnqueueSlots DEF EmitSale, CountResolves, Enriches, RetryResolves, Patched
<1>4. ASSUME NEW p \in Pages, Connect(p)
      PROVE  Slots'
  BY <1>4, OpenedSlots DEF Connect
<1>5. ASSUME NEW p \in Pages, StreamErrors(p) \/ Recover(p)
      PROVE  Slots'
  BY <1>5, HangsSlots DEF StreamErrors, Recover
<1>6. ASSUME NEW p \in Pages, Receives(p)
      PROVE  Slots'
  BY <1>6 DEF Receives, Slots, SlotsMatchConnections, Clients
<1> QED
  BY <1>1, <1>2, <1>3, <1>4, <1>5, <1>6, ConnectionSlots
     DEF Next, vars, InsertSale, CountIsStored, FetchAnswers

\* sseClients and clientsByIp of sse.ts stay within their caps and never drift
\* apart, whatever evictions, close events and reconnects come in between.
THEOREM SlotsAreConnections == Spec => []SlotsMatchConnections
<1>1. Init => Slots
  BY SlotsStart
<1>2. Slots /\ [Next]_vars => Slots'
  BY SlotsStep
<1>3. Slots => SlotsMatchConnections
  BY DEF Slots
<1> QED
  BY <1>1, <1>2, <1>3, PTL DEF Spec

----------------------------------------------------------------------------
(* What the frames on their way will make of a page.  q is what was written *)
(* to its connection and then the queue, v the row, R the sales and M the   *)
(* patches that the rings remember.                                         *)

SaleFrame(s) == [type |-> "sale", sale |-> s]
CountFrame(s) == [type |-> "seller_count", sale |-> s]

Says(q, f) == \E i \in DOMAIN q : q[i] = f
Follows(q, f, g) == \A j \in DOMAIN q : q[j] = f => \E i \in DOMAIN q : j < i /\ q[i] = g
LastStatusIs(q, v) ==
  \E i \in Statuses(q) : q[i].version = v /\ \A j \in Statuses(q) : j <= i

\* The frames end with the row as it is, and after a card comes what is
\* remembered of it.
Promised(q, v, R, M) ==
  /\ Statuses(q) = {} \/ LastStatusIs(q, v)
  /\ \A s \in R : Follows(q, SaleFrame(s), CountFrame(s))
  /\ \A m \in M : Follows(q, SaleFrame(m.sale), m)

\* What the page does not show yet is on its way.
Served(pg, q, v, R, M) ==
  /\ Promised(q, v, R, M)
  /\ Statuses(q) = {} => pg.version = v
  /\ \A s \in R \cap pg.cards : s \in pg.badges \/ Says(q, CountFrame(s))
  /\ \A m \in M : m.sale \in pg.cards => m.fields \subseteq pg.fields[m.sale] \/ Says(q, m)

\* A frame is one of four kinds, and its kind tells its fields.
LEMMA FrameTypes ==
  ASSUME NEW f \in Frame
  PROVE  /\ f.type \in {"mint_status", "sale", "seller_count", "meta"}
         /\ f.type = "mint_status" => f.version \in Nat
         /\ f.type # "mint_status" => f.sale \in Sales
         /\ f.type = "sale" => f = SaleFrame(f.sale)
         /\ f.type = "seller_count" => f = CountFrame(f.sale)
         /\ f.type = "meta" => f \in Meta /\ f.fields \in SUBSET Field
<1>1. CASE f \in [type : {"mint_status"}, version : Nat]
  BY <1>1
<1>2. CASE f \in [type : {"sale", "seller_count"}, sale : Sales]
  BY <1>2 DEF SaleFrame, CountFrame
<1>3. CASE f \in Meta
  BY <1>3 DEF Meta
<1> QED BY <1>1, <1>2, <1>3 DEF Frame

\* The reducer, field by field.
LEMMA ReducedFields ==
  ASSUME NEW pg \in Page, NEW f \in Frame
  PROVE  LET r == Reduce(pg, f)
         IN  /\ r \in Page /\ r.phase = pg.phase /\ r.on = pg.on
             /\ r.version = IF f.type = "mint_status" THEN f.version ELSE pg.version
             /\ r.cards = IF f.type = "sale" THEN pg.cards \cup {f.sale} ELSE pg.cards
             /\ pg.badges \subseteq r.badges
             /\ f.type = "seller_count" /\ f.sale \in pg.cards => f.sale \in r.badges
             /\ \A s \in Sales : pg.fields[s] \subseteq r.fields[s]
             /\ f.type = "meta" /\ f.sale \in pg.cards => f.fields \subseteq r.fields[f.sale]
<1> DEFINE r == Reduce(pg, f)
<1>1. /\ f.type \in {"mint_status", "sale", "seller_count", "meta"}
      /\ f.type = "mint_status" => f.version \in Nat
      /\ f.type # "mint_status" => f.sale \in Sales
      /\ f.type = "meta" => f.fields \in SUBSET Field
  BY FrameTypes
<1>2. CASE f.type = "mint_status"
  <2>1. r = [pg EXCEPT !.version = f.version]
    BY <1>2 DEF Reduce
  <2> QED
    BY <1>1, <1>2, <2>1 DEF Page
<1>3. CASE f.type = "sale"
  <2>1. r = [pg EXCEPT !.cards = @ \cup {f.sale}]
    BY <1>3 DEF Reduce
  <2> QED
    BY <1>1, <1>3, <2>1 DEF Page
<1>4. CASE f.type = "seller_count" /\ f.sale \in pg.cards
  <2>1. r = [pg EXCEPT !.badges = @ \cup {f.sale}]
    BY <1>4 DEF Reduce
  <2> QED
    BY <1>1, <1>4, <2>1 DEF Page
<1>5. CASE f.type = "meta" /\ f.sale \in pg.cards
  <2>1. r = [pg EXCEPT !.fields[f.sale] = @ \cup f.fields]
    BY <1>5 DEF Reduce
  <2>2. /\ pg.fields \in [Sales -> SUBSET Field] /\ f.sale \in Sales
        /\ f.fields \in SUBSET Field
    BY <1>1, <1>5 DEF Page
  <2>3. r = [pg EXCEPT !.fields = [pg.fields EXCEPT ![f.sale] = @ \cup f.fields]]
    BY <2>1 DEF Page
  <2> DEFINE fie == [pg.fields EXCEPT ![f.sale] = @ \cup f.fields]
  <2>4. /\ fie \in [Sales -> SUBSET Field]
        /\ \A s \in Sales : pg.fields[s] \subseteq fie[s]
        /\ f.fields \subseteq fie[f.sale]
    BY <2>2
  <2>5. r = [pg EXCEPT !.fields = fie]
    BY <2>3
  <2> HIDE DEF fie
  <2>6. /\ r \in Page /\ r.fields = fie /\ r.phase = pg.phase /\ r.on = pg.on
        /\ r.version = pg.version /\ r.cards = pg.cards /\ r.badges = pg.badges
    BY <2>4, <2>5 DEF Page
  <2> HIDE DEF r
  <2> QED
    BY <1>5, <2>4, <2>6 DEF r
<1>6. CASE /\ f.type \in {"seller_count", "meta"} /\ f.sale \notin pg.cards
  <2>1. r = pg
    BY <1>6 DEF Reduce
  <2> QED
    BY <1>6, <2>1
<1> QED
  BY <1>1, <1>2, <1>3, <1>4, <1>5, <1>6

\* The first frame and the others.
LEMMA FirstFrame ==
  ASSUME NEW q \in Seq(Frame), q # <<>>
  PROVE  /\ Head(q) \in Frame /\ Tail(q) \in Seq(Frame) /\ 1 \in DOMAIN q /\ Head(q) = q[1]
         /\ \A i \in DOMAIN Tail(q) : i \in Nat /\ i + 1 \in DOMAIN q /\ Tail(q)[i] = q[i + 1]
         /\ \A i \in DOMAIN q : i # 1 => /\ i \in Nat /\ i - 1 \in DOMAIN Tail(q)
                                        /\ Tail(q)[i - 1] = q[i]
<1>1. /\ Len(q) \in Nat /\ Len(q) # 0 /\ DOMAIN q = 1 .. Len(q)
      /\ Head(q) \in Frame /\ Tail(q) \in Seq(Frame) /\ Head(q) = q[1]
      /\ Len(Tail(q)) = Len(q) - 1 /\ DOMAIN Tail(q) = 1 .. Len(q) - 1
      /\ \A i \in 1 .. Len(q) - 1 : Tail(q)[i] = q[i + 1]
  BY HeadTailProperties, EmptySeq, LenProperties
<1>2. \A i \in 1 .. Len(q) : i # 1 => i - 1 \in 1 .. Len(q) - 1 /\ (i - 1) + 1 = i
  BY <1>1
<1> QED
  BY <1>1, <1>2

LEMMA StatusOfTail ==
  ASSUME NEW q \in Seq(Frame), q # <<>>
  PROVE  /\ Head(q).type = "mint_status" => Statuses(q) # {}
         /\ Head(q).type # "mint_status" => (Statuses(Tail(q)) = {} <=> Statuses(q) = {})
         /\ \A v : LastStatusIs(q, v) =>
              IF Statuses(Tail(q)) = {}
              THEN Head(q).type = "mint_status" /\ Head(q).version = v
              ELSE LastStatusIs(Tail(q), v)
<1> DEFINE t == Tail(q)
<1>1. /\ 1 \in DOMAIN q /\ Head(q) = q[1]
      /\ \A i \in DOMAIN t : i \in Nat /\ i + 1 \in DOMAIN q /\ t[i] = q[i + 1]
      /\ \A i \in DOMAIN q : i # 1 => i \in Nat /\ i - 1 \in DOMAIN t /\ t[i - 1] = q[i]
  BY FirstFrame
<1> HIDE DEF t
<1>2. /\ \A i \in Statuses(t) : i \in Nat /\ i + 1 \in Statuses(q) /\ t[i] = q[i + 1]
      /\ \A i \in Statuses(q) : i # 1 => i \in Nat /\ i - 1 \in Statuses(t) /\ t[i - 1] = q[i]
      /\ 1 \in Statuses(q) <=> Head(q).type = "mint_status"
  BY <1>1 DEF Statuses
<1>3. ASSUME NEW v, LastStatusIs(q, v)
      PROVE  IF Statuses(t) = {} THEN Head(q).type = "mint_status" /\ Head(q).version = v
             ELSE LastStatusIs(t, v)
  <2>1. PICK i \in Statuses(q) : q[i].version = v /\ \A j \in Statuses(q) : j <= i
    BY <1>3 DEF LastStatusIs
  <2>2. CASE i = 1
    <3>1. Statuses(t) = {}
      <4> SUFFICES ASSUME NEW j \in Statuses(t) PROVE FALSE
        OBVIOUS
      <4>1. j \in Nat /\ j + 1 <= 1 /\ j \in DOMAIN t
        BY <1>2, <2>1, <2>2 DEF Statuses
      <4>2. t \in Seq(Frame) /\ DOMAIN t = 1 .. Len(t)
        BY FirstFrame DEF t
      <4> QED
        BY <4>1, <4>2
    <3> QED
      BY <1>1, <1>2, <2>1, <2>2, <3>1
  <2>3. CASE i # 1
    <3>1. i \in Nat /\ i - 1 \in Statuses(t) /\ t[i - 1].version = v
      BY <1>2, <2>1, <2>3
    <3>2. \A j \in Statuses(t) : j <= i - 1
      <4> SUFFICES ASSUME NEW j \in Statuses(t) PROVE j <= i - 1
        OBVIOUS
      <4>1. j \in Nat /\ j + 1 <= i
        BY <1>2, <2>1
      <4> QED
        BY <3>1, <4>1
    <3> QED
      BY <3>1, <3>2 DEF LastStatusIs
  <2> QED
    BY <2>2, <2>3
<1> QED
  BY <1>2, <1>3 DEF t

\* A page that takes a frame needs the others only.
LEMMA TakenIsServed ==
  ASSUME NEW pg \in Page, NEW q \in Seq(Frame), q # <<>>, NEW v \in Nat,
         NEW R \in SUBSET Sales, NEW M \in SUBSET Meta, Served(pg, q, v, R, M)
  PROVE  Served(Reduce(pg, Head(q)), Tail(q), v, R, M)
<1> DEFINE t == Tail(q)  h == Head(q)  r == Reduce(pg, h)
<1>1. /\ h \in Frame /\ t \in Seq(Frame) /\ 1 \in DOMAIN q /\ h = q[1]
      /\ \A i \in DOMAIN t : i \in Nat /\ i + 1 \in DOMAIN q /\ t[i] = q[i + 1]
      /\ \A i \in DOMAIN q : i # 1 => i \in Nat /\ i - 1 \in DOMAIN t /\ t[i - 1] = q[i]
  BY FirstFrame
<1>2. /\ r.version = IF h.type = "mint_status" THEN h.version ELSE pg.version
      /\ r.cards = IF h.type = "sale" THEN pg.cards \cup {h.sale} ELSE pg.cards
      /\ pg.badges \subseteq r.badges
      /\ h.type = "seller_count" /\ h.sale \in pg.cards => h.sale \in r.badges
      /\ \A s \in Sales : pg.fields[s] \subseteq r.fields[s]
      /\ h.type = "meta" /\ h.sale \in pg.cards => h.fields \subseteq r.fields[h.sale]
  BY <1>1, ReducedFields
<1>3. /\ Statuses(t) = {} \/ LastStatusIs(t, v)
      /\ Statuses(t) = {} => r.version = v
  BY <1>2, StatusOfTail DEF Served, Promised
<1>4. h.type = "sale" => h = SaleFrame(h.sale)
  BY <1>1, FrameTypes
<1> HIDE DEF t, h, r
<1>5. \A g : Says(q, g) => g = h \/ Says(t, g)
  BY <1>1 DEF Says
<1>6. ASSUME NEW f, NEW g, Follows(q, f, g)
      PROVE  Follows(t, f, g) /\ (f = h => Says(t, g))
  <2>1. ASSUME NEW j \in DOMAIN q, q[j] = f
        PROVE  \E i \in DOMAIN t : j - 1 < i /\ t[i] = g
    <3>1. PICK i \in DOMAIN q : j < i /\ q[i] = g
      BY <1>6, <2>1 DEF Follows
    <3>2. i \in Nat /\ j \in Nat /\ j >= 1
      BY <1>1, <2>1
    <3>3. i # 1
      BY <3>1, <3>2
    <3> QED
      BY <1>1, <3>1, <3>2, <3>3
  <2>2. Follows(t, f, g)
    <3> SUFFICES ASSUME NEW j \in DOMAIN t, t[j] = f
                 PROVE  \E i \in DOMAIN t : j < i /\ t[i] = g
      BY DEF Follows
    <3>1. j + 1 \in DOMAIN q /\ q[j + 1] = f /\ (j + 1) - 1 = j
      BY <1>1
    <3> QED
      BY <2>1, <3>1
  <2> QED
    BY <1>1, <2>1, <2>2 DEF Says
<1>7. ASSUME NEW s \in R, s \in r.cards
      PROVE  s \in r.badges \/ Says(t, CountFrame(s))
  <2>1. CASE s \in pg.cards
    <3>1. s \in pg.badges \/ h = CountFrame(s) \/ Says(t, CountFrame(s))
      BY <1>5, <2>1 DEF Served
    <3> QED
      BY <1>2, <2>1, <3>1 DEF CountFrame
  <2>2. CASE h = SaleFrame(s)
    BY <1>6, <2>2 DEF Served, Promised
  <2> QED
    BY <1>2, <1>4, <1>7, <2>1, <2>2
<1>8. ASSUME NEW m \in M, m.sale \in r.cards
      PROVE  m.fields \subseteq r.fields[m.sale] \/ Says(t, m)
  <2>0. m.sale \in Sales /\ m.type = "meta"
    BY DEF Meta
  <2>1. CASE m.sale \in pg.cards
    <3>1. m.fields \subseteq pg.fields[m.sale] \/ h = m \/ Says(t, m)
      BY <1>5, <2>1 DEF Served
    <3> QED
      BY <1>2, <2>0, <2>1, <3>1
  <2>2. CASE h = SaleFrame(m.sale)
    BY <1>6, <2>2 DEF Served, Promised
  <2> QED
    BY <1>2, <1>4, <1>8, <2>1, <2>2
<1>9. Promised(t, v, R, M)
  BY <1>3, <1>6 DEF Served, Promised
<1> QED
  BY <1>3, <1>7, <1>8, <1>9 DEF Served, t, h, r

LEMMA NothingIsPromised ==
  ASSUME NEW v, NEW R, NEW M
  PROVE  Promised(<<>>, v, R, M)
BY DEF Promised, Follows, Statuses

\* What is written to the connection first, and what comes after it.
LEMMA JoinedFrames ==
  ASSUME NEW b \in Seq(Frame), NEW q \in Seq(Frame)
  PROVE  /\ b \o q \in Seq(Frame)
         /\ \A i \in DOMAIN b : /\ i \in Nat /\ i <= Len(b) /\ i \in DOMAIN (b \o q)
                               /\ (b \o q)[i] = b[i]
         /\ \A i \in DOMAIN q : /\ i \in Nat /\ i >= 1 /\ Len(b) + i \in DOMAIN (b \o q)
                               /\ (b \o q)[Len(b) + i] = q[i]
         /\ \A i \in DOMAIN (b \o q) :
              i \in DOMAIN b \/ \E j \in DOMAIN q : i = Len(b) + j
         /\ Len(b) \in Nat
<1> DEFINE a == b \o q
<1>1. /\ a \in Seq(Frame) /\ Len(a) = Len(b) + Len(q)
      /\ \A i \in 1 .. Len(b) + Len(q) : a[i] = IF i <= Len(b) THEN b[i] ELSE q[i - Len(b)]
  BY ConcatProperties
<1> HIDE DEF a
<1>2. /\ Len(b) \in Nat /\ Len(q) \in Nat /\ DOMAIN b = 1 .. Len(b) /\ DOMAIN q = 1 .. Len(q)
      /\ DOMAIN a = 1 .. Len(b) + Len(q)
  BY <1>1, LenProperties
<1>3. \A i \in DOMAIN b : i \in Nat /\ i <= Len(b) /\ i \in DOMAIN a /\ a[i] = b[i]
  BY <1>1, <1>2
<1>4. ASSUME NEW i \in DOMAIN q
      PROVE  /\ i \in Nat /\ i >= 1 /\ Len(b) + i \in DOMAIN a /\ a[Len(b) + i] = q[i]
  <2>1. /\ Len(b) + i \in 1 .. Len(b) + Len(q) /\ ~ (Len(b) + i <= Len(b))
        /\ (Len(b) + i) - Len(b) = i /\ i \in Nat /\ i >= 1
    BY <1>2
  <2> QED
    BY <1>1, <1>2, <2>1
<1>5. ASSUME NEW i \in DOMAIN a
      PROVE  i \in DOMAIN b \/ \E j \in DOMAIN q : i = Len(b) + j
  <2>1. CASE i > Len(b)
    <3>1. i - Len(b) \in DOMAIN q /\ i = Len(b) + (i - Len(b))
      BY <1>2, <2>1
    <3> QED
      BY <3>1
  <2> QED
    BY <1>2, <2>1
<1> QED
  BY <1>1, <1>2, <1>3, <1>4, <1>5 DEF a

LEMMA StatusOfJoined ==
  ASSUME NEW b \in Seq(Frame), NEW q \in Seq(Frame)
  PROVE  /\ Statuses(b \o q) = {} <=> Statuses(b) = {} /\ Statuses(q) = {}
         /\ \A v : LastStatusIs(q, v) => LastStatusIs(b \o q, v)
         /\ \A v : Statuses(q) = {} /\ LastStatusIs(b, v) => LastStatusIs(b \o q, v)
         /\ \A i \in Statuses(b \o q) :
              \/ i \in Statuses(b) /\ (b \o q)[i] = b[i]
              \/ \E j \in Statuses(q) : (b \o q)[i] = q[j]
<1> DEFINE a == b \o q
<1>1. /\ \A i \in DOMAIN b : i \in Nat /\ i <= Len(b) /\ i \in DOMAIN a /\ a[i] = b[i]
      /\ \A i \in DOMAIN q : /\ i \in Nat /\ i >= 1 /\ Len(b) + i \in DOMAIN a
                            /\ a[Len(b) + i] = q[i]
      /\ \A i \in DOMAIN a : i \in DOMAIN b \/ \E j \in DOMAIN q : i = Len(b) + j
      /\ Len(b) \in Nat
  BY JoinedFrames
<1> HIDE DEF a
<1>2. /\ \A i \in Statuses(b) : i \in Nat /\ i <= Len(b) /\ i \in Statuses(a) /\ a[i] = b[i]
      /\ \A i \in Statuses(q) : /\ i \in Nat /\ i >= 1 /\ Len(b) + i \in Statuses(a)
                             /\ a[Len(b) + i] = q[i]
  BY <1>1 DEF Statuses
<1>3. \A i \in Statuses(a) : i \in Statuses(b) \/ \E j \in Statuses(q) : i = Len(b) + j
  BY <1>1 DEF Statuses
<1>4. ASSUME NEW v, LastStatusIs(q, v)
      PROVE  LastStatusIs(a, v)
  <2>1. PICK i \in Statuses(q) : q[i].version = v /\ \A j \in Statuses(q) : j <= i
    BY <1>4 DEF LastStatusIs
  <2>2. Len(b) + i \in Statuses(a) /\ a[Len(b) + i].version = v /\ i \in Nat
    BY <1>2, <2>1
  <2>3. \A k \in Statuses(a) : k <= Len(b) + i
    <3> SUFFICES ASSUME NEW k \in Statuses(a) PROVE k <= Len(b) + i
      OBVIOUS
    <3>1. CASE k \in Statuses(b)
      BY <1>1, <1>2, <2>2, <3>1
    <3>2. CASE \E j \in Statuses(q) : k = Len(b) + j
      <4>1. PICK j \in Statuses(q) : k = Len(b) + j
        BY <3>2
      <4>2. j \in Nat /\ j <= i
        BY <1>2, <2>1
      <4> QED
        BY <1>1, <2>2, <4>1, <4>2
    <3> QED
      BY <1>3, <3>1, <3>2
  <2> QED
    BY <2>2, <2>3 DEF LastStatusIs
<1>5. ASSUME NEW v, Statuses(q) = {}, LastStatusIs(b, v)
      PROVE  LastStatusIs(a, v)
  BY <1>2, <1>3, <1>5 DEF LastStatusIs
<1> QED
  BY <1>2, <1>3, <1>4, <1>5 DEF a

\* A page that is served by what was written first is served by both.
LEMMA JoinedIsServed ==
  ASSUME NEW pg, NEW b \in Seq(Frame), NEW q \in Seq(Frame), NEW v, NEW R, NEW M,
         Served(pg, b, v, R, M), Promised(q, v, R, M)
  PROVE  Served(pg, b \o q, v, R, M)
<1> DEFINE a == b \o q
<1>1. /\ Statuses(a) = {} <=> Statuses(b) = {} /\ Statuses(q) = {}
      /\ LastStatusIs(q, v) => LastStatusIs(a, v)
      /\ Statuses(q) = {} /\ LastStatusIs(b, v) => LastStatusIs(a, v)
  BY StatusOfJoined
<1>2. /\ \A i \in DOMAIN b : i \in Nat /\ i <= Len(b) /\ i \in DOMAIN a /\ a[i] = b[i]
      /\ \A i \in DOMAIN q : /\ i \in Nat /\ i >= 1 /\ Len(b) + i \in DOMAIN a
                            /\ a[Len(b) + i] = q[i]
      /\ \A i \in DOMAIN a : i \in DOMAIN b \/ \E j \in DOMAIN q : i = Len(b) + j
      /\ Len(b) \in Nat
  BY JoinedFrames
<1> HIDE DEF a
<1>3. Statuses(a) = {} \/ LastStatusIs(a, v)
  BY <1>1 DEF Served, Promised
<1>4. \A f : Says(b, f) => Says(a, f)
  BY <1>2 DEF Says
<1>5. ASSUME NEW f, NEW g, Follows(b, f, g), Follows(q, f, g)
      PROVE  Follows(a, f, g)
  <2> SUFFICES ASSUME NEW j \in DOMAIN a, a[j] = f
               PROVE  \E i \in DOMAIN a : j < i /\ a[i] = g
    BY DEF Follows
  <2>1. CASE j \in DOMAIN b
    BY <1>2, <1>5, <2>1 DEF Follows
  <2>2. CASE \E k \in DOMAIN q : j = Len(b) + k
    <3>1. PICK k \in DOMAIN q : j = Len(b) + k
      BY <2>2
    <3>2. PICK i \in DOMAIN q : k < i /\ q[i] = g
      BY <1>2, <1>5, <3>1 DEF Follows
    <3>3. Len(b) + i \in DOMAIN a /\ a[Len(b) + i] = g /\ j < Len(b) + i
      BY <1>2, <3>1, <3>2
    <3> QED
      BY <3>3
  <2> QED
    BY <1>2, <2>1, <2>2
<1>6. Promised(a, v, R, M)
  BY <1>3, <1>5 DEF Served, Promised
<1> QED
  BY <1>1, <1>4, <1>6 DEF Served, a

\* The last announcement of the row, with one more frame.
LEMMA StatusOfAppended ==
  ASSUME NEW q \in Seq(Frame), NEW f \in Frame, NEW v, NEW w,
         Statuses(q) = {} \/ LastStatusIs(q, v),
         IF f.type = "mint_status" THEN f.version = w ELSE w = v
  PROVE  /\ Statuses(Append(q, f)) = {} \/ LastStatusIs(Append(q, f), w)
         /\ Statuses(Append(q, f)) = {} <=> Statuses(q) = {} /\ f.type # "mint_status"
<1> DEFINE a == Append(q, f)
<1>1. /\ Len(q) \in Nat /\ DOMAIN q = 1 .. Len(q)
      /\ DOMAIN a = 1 .. Len(q) + 1 /\ a[Len(q) + 1] = f
      /\ \A i \in DOMAIN q : a[i] = q[i]
  OBVIOUS
<1> HIDE DEF a
<1>2. /\ \A i \in DOMAIN a : i \in DOMAIN q \/ i = Len(q) + 1
      /\ \A i \in DOMAIN q : i \in DOMAIN a /\ i < Len(q) + 1
      /\ Len(q) + 1 \in DOMAIN a
  BY <1>1
<1>3. CASE f.type = "mint_status"
  <2>1. Len(q) + 1 \in Statuses(a) /\ a[Len(q) + 1].version = w
    BY <1>1, <1>2, <1>3 DEF Statuses
  <2>2. \A j \in Statuses(a) : j <= Len(q) + 1
    BY <1>1, <1>2 DEF Statuses
  <2> QED
    BY <1>3, <2>1, <2>2 DEF LastStatusIs, a
<1>4. CASE f.type # "mint_status"
  <2>1. Statuses(a) = Statuses(q) /\ w = v
    BY <1>1, <1>2, <1>4 DEF Statuses
  <2>2. \A i \in Statuses(q) : a[i] = q[i]
    BY <1>1 DEF Statuses
  <2> QED
    BY <1>4, <2>1, <2>2 DEF LastStatusIs, a
<1> QED
  BY <1>3, <1>4

\* One more frame: a change of the row, a sale nobody knows of yet, or what
\* was found out about a sale.
LEMMA Appended ==
  ASSUME NEW q \in Seq(Frame), NEW f \in Frame, NEW v, NEW w,
         NEW R, NEW M, NEW Q, NEW N,
         Promised(q, v, R, M),
         IF f.type = "mint_status" THEN f.version = w ELSE w = v,
         \A s \in Q : s \in R \/ f = CountFrame(s),
         \A m \in N : m \in M \/ f = m,
         f.type = "sale" => f.sale \notin Q /\ \A m \in N : m.sale # f.sale
  PROVE  /\ Promised(Append(q, f), w, Q, N)
         /\ \A pg : Served(pg, q, v, R, M) => Served(pg, Append(q, f), w, Q, N)
<1> DEFINE a == Append(q, f)
<1>1. /\ Len(q) \in Nat /\ Len(a) = Len(q) + 1 /\ DOMAIN q = 1 .. Len(q)
      /\ DOMAIN a = 1 .. Len(q) + 1 /\ a[Len(q) + 1] = f
      /\ \A i \in DOMAIN q : a[i] = q[i]
  OBVIOUS
<1> HIDE DEF a
<1>2. /\ \A i \in DOMAIN a : i \in DOMAIN q \/ i = Len(q) + 1
      /\ \A i \in DOMAIN q : i \in DOMAIN a /\ i < Len(q) + 1
      /\ Len(q) + 1 \in DOMAIN a
  BY <1>1
<1>3. \A g : Says(a, g) <=> Says(q, g) \/ g = f
  BY <1>1, <1>2 DEF Says
<1>4. Statuses(a) = {} \/ LastStatusIs(a, w)
  BY StatusOfAppended DEF Promised, a
<1>5. ASSUME NEW s, NEW g, Follows(q, SaleFrame(s), g) \/ g = f, f # SaleFrame(s)
      PROVE  Follows(a, SaleFrame(s), g)
  <2> SUFFICES ASSUME NEW j \in DOMAIN a, a[j] = SaleFrame(s)
               PROVE  \E i \in DOMAIN a : j < i /\ a[i] = g
    BY DEF Follows
  <2>1. j \in DOMAIN q /\ q[j] = SaleFrame(s)
    BY <1>1, <1>2, <1>5
  <2>2. CASE g = f
    BY <1>1, <1>2, <2>1, <2>2
  <2>3. CASE Follows(q, SaleFrame(s), g)
    <3>1. PICK i \in DOMAIN q : j < i /\ q[i] = g
      BY <2>1, <2>3 DEF Follows
    <3> QED
      BY <1>1, <1>2, <3>1
  <2> QED
    BY <1>5, <2>2, <2>3
<1>6. ASSUME NEW s \in Q
      PROVE  /\ Follows(a, SaleFrame(s), CountFrame(s))
             /\ s \notin R => Says(a, CountFrame(s))
  BY <1>3, <1>5 DEF Promised, SaleFrame
<1>7. ASSUME NEW m \in N
      PROVE  /\ Follows(a, SaleFrame(m.sale), m)
             /\ m \notin M => Says(a, m)
  BY <1>3, <1>5 DEF Promised, SaleFrame
<1>8. Promised(a, w, Q, N)
  BY <1>4, <1>6, <1>7 DEF Promised
<1>9. ASSUME NEW pg, Served(pg, q, v, R, M)
      PROVE  Served(pg, a, w, Q, N)
  <2>1. Statuses(a) = {} => pg.version = w
    <3>1. Statuses(a) = {} <=> Statuses(q) = {} /\ f.type # "mint_status"
      BY StatusOfAppended DEF Promised, a
    <3> QED
      BY <1>9, <3>1 DEF Served
  <2>2. \A s \in Q \cap pg.cards : s \in pg.badges \/ Says(a, CountFrame(s))
    BY <1>3, <1>6, <1>9 DEF Served
  <2>3. \A m \in N : m.sale \in pg.cards => m.fields \subseteq pg.fields[m.sale] \/ Says(a, m)
    BY <1>3, <1>7, <1>9 DEF Served
  <2> QED
    BY <1>8, <2>1, <2>2, <2>3 DEF Served
<1> QED
  BY <1>8, <1>9 DEF a

LEMMA AppendedToJoined ==
  ASSUME NEW b \in Seq(Frame), NEW q \in Seq(Frame), NEW f \in Frame
  PROVE  b \o Append(q, f) = Append(b \o q, f)
<1>1. <<f>> \in Seq(Frame) /\ b \o q \in Seq(Frame)
  BY ConcatProperties
<1>2. Append(q, f) = q \o <<f>> /\ Append(b \o q, f) = (b \o q) \o <<f>>
  BY <1>1, AppendIsConcat
<1> QED
  BY <1>1, <1>2, ConcatAssociative

LEMMA TailOfJoined ==
  ASSUME NEW b \in Seq(Frame), NEW q \in Seq(Frame), b # <<>>
  PROVE  /\ b \o q # <<>> /\ b \o q \in Seq(Frame)
         /\ Head(b \o q) = Head(b) /\ Tail(b \o q) = Tail(b) \o q
<1>1. Head(b) \in Frame /\ Tail(b) \in Seq(Frame) /\ <<Head(b)>> \in Seq(Frame)
  BY HeadTailProperties
<1>2. b = <<Head(b)>> \o Tail(b)
  OBVIOUS
<1>3. b \o q = <<Head(b)>> \o (Tail(b) \o q) /\ Tail(b) \o q \in Seq(Frame)
  BY <1>1, <1>2, ConcatAssociative, ConcatProperties
<1> DEFINE h == Head(b)  u == Tail(b) \o q
<1>4. h \in Frame /\ u \in Seq(Frame) /\ b \o q = <<h>> \o u
  BY <1>1, <1>3
<1> HIDE DEF h, u
<1>5. <<h>> \o u # <<>> /\ Head(<<h>> \o u) = h /\ Tail(<<h>> \o u) = u
  BY <1>4
<1> QED
  BY <1>4, <1>5, ConcatProperties DEF h, u

----------------------------------------------------------------------------
(* The hub and its pages.                                                  *)

Emitted == {s \in Sales : sale[s] \in {"emitted", "counted"}}

SourcesTyped ==
  /\ version \in 0 .. MaxVersion
  /\ sale \in [Sales -> {"none", "inserted", "emitted", "counted"}]
  /\ stored \subseteq Sales
  /\ ring \in Seq(Sales) /\ Len(ring) <= ReplayMax
  /\ enriched \in [Sales -> [step : {"none", "enriched", "retried"}, fields : SUBSET StoredField,
                              sent : SUBSET Field]]
  /\ metaRing \in Seq(Meta) /\ Len(metaRing) <= ReplayMax

QueueTyped == queue \in Seq(Frame) /\ Len(queue) < MaxBatch /\ timer \in BOOLEAN

\* Nobody speaks of a sale before its own frame, and the ring has the last
\* patch.
OnlyEmitted ==
  /\ \A s \in ToSet(ring) : s \in Emitted
  /\ \A m \in ToSet(metaRing) : m.sale \in Emitted /\ m.fields = enriched[m.sale].sent
  /\ \A s \in Sales : enriched[s].step # "none" => s \in Emitted

\* A response object is not reused while a page reads from it.
OwnConnection ==
  \A p \in Pages : /\ page[p].phase = "live" <=> page[p].on # NoConn
                   /\ page[p].phase = "live" => conn[page[p].on].stage # "free"

AllServed(q, v, R, M) ==
  /\ Promised(q, v, R, M)
  /\ \A p \in Pages : Hears(p) => Served(page[p], inbox[p] \o q, v, R, M)

PagesInv ==
  /\ Slots /\ QueueTyped /\ SourcesTyped
  /\ page \in [Pages -> Page] /\ inbox \in [Pages -> Seq(Frame)]
  /\ OnlyEmitted /\ OwnConnection
  /\ AllServed(queue, version, ToSet(ring), ToSet(metaRing))

LEMMA SetsOfRings ==
  ASSUME SourcesTyped
  PROVE  ToSet(ring) \in SUBSET Sales /\ ToSet(metaRing) \in SUBSET Meta
BY DEF SourcesTyped, ToSet

\* The pages that hear them have them on their way, the others nothing new.
Reaches(frames) ==
  \A p \in Pages : /\ Hears(p)' => Hears(p) /\ inbox'[p] = inbox[p] \o frames
                   /\ ~ Hears(p)' => inbox'[p] = inbox[p]

\* A flush reaches the pages that hear it, whoever is evicted by it.
LEMMA FlushReaches ==
  ASSUME Slots, page \in [Pages -> Page], inbox \in [Pages -> Seq(Frame)], OwnConnection,
         NEW q \in Seq(Frame), Flush(q), UNCHANGED page
  PROVE  /\ inbox' \in [Pages -> Seq(Frame)] /\ OwnConnection' /\ queue' = <<>>
         /\ timer' = FALSE /\ Reaches(q)
<1>1. PICK r \in Answers :
        LET Full(k) == IF r[k] = "full" THEN conn[k].full + 1 ELSE 0
            evicted == {k \in Clients : r[k] = "throws" \/ Full(k) >= MaxBackpressure}
        IN  /\ conn' = [k \in Conns |->
                 IF k \in evicted THEN Cleaned
                 ELSE IF k \in Clients THEN [conn[k] EXCEPT !.full = Full(k)] ELSE conn[k]]
            /\ inbox' = [p \in Pages |->
                 IF page[p].on \in Clients \ evicted /\ ~ conn[page[p].on].gone
                 THEN inbox[p] \o q ELSE inbox[p]]
  BY DEF Flush, Broadcast
<1> DEFINE Full(k) == IF r[k] = "full" THEN conn[k].full + 1 ELSE 0
           evicted == {k \in Clients : r[k] = "throws" \/ Full(k) >= MaxBackpressure}
<1>2. \A k \in Clients : [conn[k] EXCEPT !.full = Full(k)].stage = "open"
                        /\ [conn[k] EXCEPT !.full = Full(k)].gone = conn[k].gone
  BY DEF Slots, Conn, Clients
<1>3. /\ \A k \in Conns : conn'[k] = IF k \in evicted THEN Cleaned
                 ELSE IF k \in Clients THEN [conn[k] EXCEPT !.full = Full(k)] ELSE conn[k]
      /\ inbox' = [p \in Pages |->
                 IF page[p].on \in Clients \ evicted /\ ~ conn[page[p].on].gone
                 THEN inbox[p] \o q ELSE inbox[p]]
      /\ evicted \subseteq Clients
  BY <1>1
<1>c. Clients' = {k \in Conns : conn'[k].stage = "open"}
  BY DEF Clients
<1> HIDE DEF evicted, Full
<1>4. \A k \in Conns : /\ conn'[k].stage = "open" <=> k \in Clients \ evicted
                       /\ k \in Clients \ evicted => conn'[k].gone = conn[k].gone
                       /\ conn[k].stage # "free" => conn'[k].stage # "free"
  <2> TAKE k \in Conns
  <2>1. CASE k \in evicted
    BY <1>3, <2>1, FreeIsTyped
  <2>2. CASE k \in Clients \ evicted
    BY <1>2, <1>3, <2>2
  <2>3. CASE k \notin Clients
    BY <1>3, <2>3 DEF Clients
  <2> QED
    BY <2>1, <2>2, <2>3
<1>5. ASSUME NEW p \in Pages
      PROVE  /\ Hears(p)' => (Hears(p) /\ inbox'[p] = inbox[p] \o q)
             /\ ~ Hears(p)' => inbox'[p] = inbox[p]
  <2>1. ASSUME Hears(p)' PROVE Hears(p) /\ inbox'[p] = inbox[p] \o q
    <3>1. page[p].on \in Conns /\ page[p].on \in Clients \ evicted /\ ~ conn[page[p].on].gone
      <4>1. page[p].on \in Clients' /\ ~ conn'[page[p].on].gone
        BY <2>1 DEF Hears
      <4> QED
        BY <1>c, <1>4, <4>1
    <3> QED
      BY <1>3, <2>1, <3>1 DEF Hears
  <2>2. ASSUME ~ Hears(p)' PROVE inbox'[p] = inbox[p]
    <3> SUFFICES ASSUME page[p].on \in Clients \ evicted, ~ conn[page[p].on].gone
                 PROVE  FALSE
      BY <1>3
    <3>1. page[p].on \in Conns /\ page[p].phase = "live"
      BY SseAssumption DEF OwnConnection, Clients
    <3>2. page'[p].on \in Clients' /\ ~ conn'[page'[p].on].gone /\ page'[p].phase = "live"
      BY <1>c, <1>4, <3>1
    <3> QED
      BY <2>2, <3>2 DEF Hears
  <2> QED
    BY <2>1, <2>2
<1>6. inbox' \in [Pages -> Seq(Frame)]
  <2>1. \A p \in Pages : inbox[p] \in Seq(Frame) /\ inbox[p] \o q \in Seq(Frame)
    BY ConcatProperties
  <2> QED
    BY <1>3, <2>1
<1>7. OwnConnection'
  <2> SUFFICES ASSUME NEW p \in Pages
               PROVE  /\ page'[p].phase = "live" <=> page'[p].on # NoConn
                      /\ page'[p].phase = "live" => conn'[page'[p].on].stage # "free"
    BY DEF OwnConnection
  <2>1. page[p] \in Page
    OBVIOUS
  <2>2. page[p].on \in Conns \cup {NoConn}
    BY <2>1 DEF Page
  <2>3. /\ page[p].phase = "live" <=> page[p].on # NoConn
        /\ page[p].phase = "live" => conn[page[p].on].stage # "free"
    BY DEF OwnConnection
  <2> QED
    BY <1>4, <2>2, <2>3
<1>8. queue' = <<>> /\ timer' = FALSE
  BY DEF Flush
<1> QED
  BY <1>5, <1>6, <1>7, <1>8 DEF Reaches

\* A flush: who hears it has everything on its way.
LEMMA FlushServes ==
  ASSUME Slots, page \in [Pages -> Page], inbox \in [Pages -> Seq(Frame)], OwnConnection,
         NEW q \in Seq(Frame), NEW v \in Nat, NEW R \in SUBSET Sales, NEW M \in SUBSET Meta,
         AllServed(q, v, R, M), Flush(q), UNCHANGED page
  PROVE  /\ inbox' \in [Pages -> Seq(Frame)] /\ OwnConnection' /\ QueueTyped' /\ queue' = <<>>
         /\ AllServed(<<>>, v, R, M)'
<1>1. /\ inbox' \in [Pages -> Seq(Frame)] /\ OwnConnection' /\ queue' = <<>> /\ timer' = FALSE
      /\ Reaches(q)
  BY FlushReaches
<1>2. QueueTyped'
  <2>1. Len(<<>>) = 0 /\ <<>> \in Seq(Frame) /\ 0 < MaxBatch
    BY SseAssumption
  <2> QED
    BY <1>1, <2>1 DEF QueueTyped
<1>3. ASSUME NEW p \in Pages, Hears(p)'
      PROVE  Served(page'[p], inbox'[p] \o <<>>, v, R, M)
  <2>1. Hears(p) /\ inbox'[p] = inbox[p] \o q /\ inbox'[p] \in Seq(Frame)
    BY <1>1, <1>3 DEF Reaches
  <2>2. inbox'[p] \o <<>> = inbox'[p]
    BY <2>1, ConcatEmptySeq
  <2> QED
    BY <2>1, <2>2 DEF AllServed
<1>4. AllServed(<<>>, v, R, M)'
  <2>1. \A p \in Pages : Hears(p)' => Served(page'[p], inbox'[p] \o <<>>, v, R, M)
    BY <1>3
  <2> QED
    BY <2>1, NothingIsPromised DEF AllServed
<1> QED
  BY <1>1, <1>2, <1>4

LEMMA EnqueueServes ==
  ASSUME Slots, QueueTyped, page \in [Pages -> Page],
         inbox \in [Pages -> Seq(Frame)], OwnConnection,
         NEW f \in Frame, NEW v \in Nat, NEW R \in SUBSET Sales, NEW M \in SUBSET Meta,
         AllServed(Append(queue, f), v, R, M), Enqueue(f), UNCHANGED page
  PROVE  /\ inbox' \in [Pages -> Seq(Frame)] /\ OwnConnection' /\ QueueTyped'
         /\ queue' \in {Append(queue, f), <<>>}
         /\ AllServed(queue, v, R, M)'
<1>1. Append(queue, f) \in Seq(Frame) /\ Len(Append(queue, f)) = Len(queue) + 1
  BY DEF QueueTyped
<1>2. CASE Flush(Append(queue, f))
  BY <1>1, <1>2, FlushServes
<1>3. CASE /\ ~ (Len(queue) + 1 >= MaxBatch) /\ queue' = Append(queue, f) /\ timer' = TRUE
           /\ UNCHANGED <<conn, clientsByIp, inbox>>
  <2>1. QueueTyped'
    BY <1>1, <1>3, SseAssumption DEF QueueTyped
  <2> QED
    BY <1>3, <2>1 DEF AllServed, OwnConnection, Hears, Clients
<1> QED
  BY <1>2, <1>3 DEF Enqueue

\* Whatever is emitted is remembered and queued in one step.
LEMMA EmitKeeps ==
  ASSUME PagesInv, NEW f \in Frame, Enqueue(f), UNCHANGED page, SourcesTyped',
         Emitted \subseteq Emitted',
         IF f.type = "mint_status" THEN f.version = version' ELSE version' = version,
         \A s \in ToSet(ring') : s \in ToSet(ring) \/ f = CountFrame(s),
         \A m \in ToSet(metaRing') : m \in ToSet(metaRing) \/ f = m,
         f.type = "sale" => f.sale \notin Emitted,
         f.type # "mint_status" => f.sale \in Emitted',
         \A m \in ToSet(metaRing') : m.fields = enriched'[m.sale].sent,
         \A s \in Sales : enriched'[s].step # "none" => s \in Emitted'
  PROVE  PagesInv'
<1> DEFINE q == Append(queue, f)
<1>v. PICK v \in Nat : v = version'
  BY DEF SourcesTyped
<1>0. ToSet(ring') \in SUBSET Sales /\ ToSet(metaRing') \in SUBSET Meta
  BY DEF SourcesTyped, ToSet
<1>r. PICK R \in SUBSET Sales : R = ToSet(ring')
  BY <1>0
<1>m. PICK M \in SUBSET Meta : M = ToSet(metaRing')
  BY <1>0
<1>1. queue \in Seq(Frame)
  BY DEF PagesInv, QueueTyped
<1>2. f.type = "sale" => f.sale \notin R /\ \A m \in M : m.sale # f.sale
  <2> SUFFICES ASSUME f.type = "sale"
               PROVE  f.sale \notin R /\ \A m \in M : m.sale # f.sale
    OBVIOUS
  <2>1. (\A s : f # CountFrame(s)) /\ (\A m \in Meta : f # m)
    BY DEF CountFrame, Meta
  <2>2. R \subseteq ToSet(ring) /\ M \subseteq ToSet(metaRing)
    BY <2>1, <1>r, <1>m
  <2> QED
    BY <2>2 DEF PagesInv, OnlyEmitted
<1>3. AllServed(queue, version, ToSet(ring), ToSet(metaRing))
  BY DEF PagesInv
<1>4. Promised(q, v, R, M)
  <2>1. Promised(queue, version, ToSet(ring), ToSet(metaRing))
    BY <1>3 DEF AllServed
  <2> QED
    BY <1>1, <1>2, <2>1, <1>v, <1>r, <1>m, Appended
<1>5. ASSUME NEW p \in Pages, Hears(p)
      PROVE  Served(page[p], inbox[p] \o q, v, R, M)
  <2>1. PICK b \in Seq(Frame) : b = inbox[p]
    BY DEF PagesInv
  <2>2. Served(page[p], b \o queue, version, ToSet(ring), ToSet(metaRing))
    BY <1>3, <1>5, <2>1 DEF AllServed
  <2>3. b \o queue \in Seq(Frame) /\ b \o q = Append(b \o queue, f)
    BY <1>1, AppendedToJoined, ConcatProperties
  <2>4. PICK z \in Seq(Frame) : z = b \o queue
    BY <2>3
  <2>5. Served(page[p], z, version, ToSet(ring), ToSet(metaRing))
    BY <2>2, <2>4
  <2>6. Promised(z, version, ToSet(ring), ToSet(metaRing))
    BY <2>5 DEF Served
  <2>7. Served(page[p], Append(z, f), v, R, M)
    BY <1>2, <2>5, <2>6, <1>v, <1>r, <1>m, Appended
  <2> QED
    BY <2>1, <2>3, <2>4, <2>7
<1>6. AllServed(q, v, R, M)
  BY <1>4, <1>5 DEF AllServed
<1>7. /\ inbox' \in [Pages -> Seq(Frame)] /\ OwnConnection' /\ QueueTyped'
      /\ AllServed(queue, v, R, M)'
  BY <1>6, EnqueueServes DEF PagesInv
<1>8. OnlyEmitted'
  <2>1. \A s \in R : s \in Emitted'
    <3> SUFFICES ASSUME NEW s \in R PROVE s \in Emitted'
      OBVIOUS
    <3>1. CASE s \in ToSet(ring)
      BY <3>1 DEF PagesInv, OnlyEmitted
    <3>2. CASE f = CountFrame(s)
      BY <3>2 DEF CountFrame
    <3> QED
      BY <1>r, <3>1, <3>2
  <2>2. \A m \in M : m.sale \in Emitted'
    <3> SUFFICES ASSUME NEW m \in M PROVE m.sale \in Emitted'
      OBVIOUS
    <3>1. CASE m \in ToSet(metaRing)
      BY <3>1 DEF PagesInv, OnlyEmitted
    <3>2. CASE f = m
      BY <3>2 DEF Meta
    <3> QED
      BY <1>m, <3>1, <3>2
  <2>3. R = ToSet(ring)' /\ M = ToSet(metaRing)'
    BY <1>r, <1>m DEF ToSet
  <2> QED
    BY <1>m, <2>1, <2>2, <2>3 DEF OnlyEmitted
<1>9. Slots'
  BY EnqueueSlots DEF PagesInv
<1>10. AllServed(queue, version, ToSet(ring), ToSet(metaRing))'
  BY <1>7, <1>v, <1>r, <1>m DEF ToSet
<1> QED
  BY <1>7, <1>8, <1>9, <1>10 DEF PagesInv

LEMMA StatusKeeps ==
  ASSUME PagesInv, EmitMintStatus
  PROVE  PagesInv'
<1> DEFINE f == [type |-> "mint_status", version |-> version']
<1>1. version \in 0 .. MaxVersion /\ MaxVersion \in Nat
  BY SseAssumption DEF PagesInv, SourcesTyped
<1>2. version' \in 0 .. MaxVersion /\ version' \in Nat
  BY <1>1 DEF EmitMintStatus
<1>3. f \in Frame /\ f.type = "mint_status" /\ f.version = version'
  BY <1>2 DEF Frame
<1>4. Enqueue(f) /\ UNCHANGED <<sale, stored, ring, enriched, metaRing, page>>
  BY DEF EmitMintStatus
<1> HIDE DEF f
<1>5. SourcesTyped'
  BY <1>2, <1>4 DEF PagesInv, SourcesTyped
<1>6. /\ \A m \in ToSet(metaRing') : m \in ToSet(metaRing) /\ m.fields = enriched'[m.sale].sent
      /\ \A s \in ToSet(ring') : s \in ToSet(ring)
      /\ \A s \in Sales : enriched'[s].step # "none" => s \in Emitted'
      /\ Emitted' = Emitted
  BY <1>4 DEF PagesInv, OnlyEmitted, Emitted, ToSet
<1> QED
  BY <1>3, <1>4, <1>5, <1>6, EmitKeeps

LEMMA SaleKeeps ==
  ASSUME PagesInv, NEW s \in Sales, EmitSale(s)
  PROVE  PagesInv'
<1> DEFINE f == SaleFrame(s)
<1>1. f \in Frame /\ f.type = "sale" /\ f.sale = s
  BY DEF SaleFrame, Frame
<1>2. /\ Enqueue(f) /\ UNCHANGED <<version, stored, ring, enriched, metaRing, page>>
      /\ sale[s] = "inserted" /\ sale' = [sale EXCEPT ![s] = "emitted"]
  BY DEF EmitSale, SaleFrame
<1> HIDE DEF f
<1>3. SourcesTyped'
  BY <1>2 DEF PagesInv, SourcesTyped
<1>4. s \notin Emitted /\ s \in Emitted' /\ Emitted \subseteq Emitted'
  BY <1>2 DEF PagesInv, SourcesTyped, Emitted
<1>5. /\ \A m \in ToSet(metaRing') : m \in ToSet(metaRing) /\ m.fields = enriched'[m.sale].sent
      /\ \A x \in ToSet(ring') : x \in ToSet(ring)
      /\ \A x \in Sales : enriched'[x].step # "none" => x \in Emitted'
  BY <1>2, <1>4 DEF PagesInv, OnlyEmitted, ToSet
<1> QED
  BY <1>1, <1>2, <1>3, <1>4, <1>5, EmitKeeps

LEMMA RememberedRing ==
  ASSUME SourcesTyped, NEW s \in Sales
  PROVE  /\ Remembered(s) \in Seq(Sales) /\ Len(Remembered(s)) <= ReplayMax
         /\ \A x \in ToSet(Remembered(s)) : x \in ToSet(ring) \/ x = s
<1> DEFINE r == Append(ring, s)
<1>1. r \in Seq(Sales) /\ Len(r) = Len(ring) + 1 /\ Len(ring) \in Nat
      /\ ReplayMax \in Nat /\ Len(ring) <= ReplayMax
  BY SseAssumption DEF SourcesTyped
<1>2. \A x \in ToSet(r) : x \in ToSet(ring) \/ x = s
  BY DEF SourcesTyped, ToSet
<1>3. r # <<>> /\ Tail(r) \in Seq(Sales) /\ Len(Tail(r)) = Len(ring)
      /\ \A x \in ToSet(Tail(r)) : x \in ToSet(r)
  BY <1>1 DEF ToSet
<1> HIDE DEF r
<1> QED
  BY <1>1, <1>2, <1>3 DEF Remembered, r

LEMMA CountKeeps ==
  ASSUME PagesInv, NEW s \in Sales, CountResolves(s)
  PROVE  PagesInv'
<1> DEFINE f == CountFrame(s)
<1>1. f \in Frame /\ f.type = "seller_count" /\ f.sale = s
  BY DEF CountFrame, Frame
<1>2. /\ Enqueue(f) /\ UNCHANGED <<version, stored, enriched, metaRing, page>>
      /\ sale[s] = "emitted" /\ sale' = [sale EXCEPT ![s] = "counted"]
      /\ ring' = Remembered(s)
  BY DEF CountResolves, CountFrame
<1> HIDE DEF f
<1>3. /\ ring' \in Seq(Sales) /\ Len(ring') <= ReplayMax
      /\ \A x \in ToSet(ring') : x \in ToSet(ring) \/ x = s
  BY <1>2, RememberedRing DEF PagesInv
<1>4. SourcesTyped'
  BY <1>2, <1>3 DEF PagesInv, SourcesTyped
<1>5. s \in Emitted' /\ Emitted \subseteq Emitted'
  BY <1>2 DEF PagesInv, SourcesTyped, Emitted
<1>6. /\ \A m \in ToSet(metaRing') : m \in ToSet(metaRing) /\ m.fields = enriched'[m.sale].sent
      /\ \A x \in Sales : enriched'[x].step # "none" => x \in Emitted'
  BY <1>2, <1>5 DEF PagesInv, OnlyEmitted, ToSet
<1>7. \A x \in ToSet(ring') : x \in ToSet(ring) \/ f = CountFrame(x)
  BY <1>3 DEF f
<1> QED
  BY <1>1, <1>2, <1>4, <1>5, <1>6, <1>7, EmitKeeps

\* The patch takes the place of the sale's last one.
LEMMA RememberedMetaRing ==
  ASSUME SourcesTyped, NEW m \in Meta
  PROVE  /\ RememberedMeta(m) \in Seq(Meta) /\ Len(RememberedMeta(m)) <= ReplayMax
         /\ \A x \in ToSet(RememberedMeta(m)) :
              x = m \/ (x \in ToSet(metaRing) /\ x.sale # m.sale)
<1>0. metaRing \in Seq(Meta) /\ Len(metaRing) \in Nat /\ Len(metaRing) <= ReplayMax
      /\ ReplayMax \in Nat
  BY SseAssumption DEF SourcesTyped
<1>1. CASE \E i \in DOMAIN metaRing : metaRing[i].sale = m.sale
  <2> DEFINE r == [i \in DOMAIN metaRing |-> IF metaRing[i].sale = m.sale THEN m ELSE metaRing[i]]
  <2>1. r \in Seq(Meta) /\ Len(r) = Len(metaRing) /\ DOMAIN r = DOMAIN metaRing
    BY <1>0
  <2>2. \A x \in ToSet(r) : x = m \/ (x \in ToSet(metaRing) /\ x.sale # m.sale)
    BY DEF ToSet
  <2>3. RememberedMeta(m) = r
    BY <1>1 DEF RememberedMeta
  <2> HIDE DEF r
  <2> QED
    BY <1>0, <2>1, <2>2, <2>3
<1>2. CASE ~ \E i \in DOMAIN metaRing : metaRing[i].sale = m.sale
  <2> DEFINE r == Append(metaRing, m)
  <2>1. r \in Seq(Meta) /\ Len(r) = Len(metaRing) + 1
    BY <1>0
  <2>2. \A x \in ToSet(r) : x = m \/ (x \in ToSet(metaRing) /\ x.sale # m.sale)
    BY <1>0, <1>2 DEF ToSet
  <2>3. r # <<>> /\ Tail(r) \in Seq(Meta) /\ Len(Tail(r)) = Len(metaRing)
        /\ \A x \in ToSet(Tail(r)) : x \in ToSet(r)
    BY <1>0, <2>1 DEF ToSet
  <2>4. RememberedMeta(m) = IF Len(r) > ReplayMax THEN Tail(r) ELSE r
    BY <1>2 DEF RememberedMeta
  <2> HIDE DEF r
  <2> QED
    BY <1>0, <2>1, <2>2, <2>3, <2>4
<1> QED
  BY <1>1, <1>2

LEMMA PatchKeeps ==
  ASSUME PagesInv, NEW s \in Sales, Enriches(s) \/ RetryResolves(s)
  PROVE  PagesInv'
<1>1. /\ s \in Emitted
      /\ \E step \in {"enriched", "retried"} : \E found \in SUBSET Field : Patched(s, step, found)
  <2>1. CASE Enriches(s)
    BY <2>1 DEF Enriches, Emitted, PagesInv, SourcesTyped
  <2>2. CASE RetryResolves(s)
    <3>1. s \in Emitted
      BY <2>2 DEF RetryResolves, PagesInv, OnlyEmitted
    <3>2. StoredField \subseteq Field
      BY DEF Field
    <3> QED
      BY <2>2, <3>1, <3>2 DEF RetryResolves
  <2> QED
    BY <2>1, <2>2
<1>2. PICK step \in {"enriched", "retried"}, found \in SUBSET Field : Patched(s, step, found)
  BY <1>1
<1> DEFINE m == [type |-> "meta", sale |-> s, fields |-> found]
<1>3. /\ m \in Meta /\ m \in Frame /\ m.type = "meta" /\ m.sale = s /\ m.fields = found
  BY DEF Meta, Frame
<1>4. /\ enriched' = [enriched EXCEPT ![s] =
           [step |-> step, fields |-> @.fields \cup (found \cap StoredField), sent |-> found]]
      /\ metaRing' = RememberedMeta(m) /\ Enqueue(m)
      /\ UNCHANGED <<version, sale, stored, ring, page>>
  BY <1>2 DEF Patched
<1> HIDE DEF m
<1>5. /\ metaRing' \in Seq(Meta) /\ Len(metaRing') <= ReplayMax
      /\ \A x \in ToSet(metaRing') : x = m \/ (x \in ToSet(metaRing) /\ x.sale # s)
  BY <1>3, <1>4, RememberedMetaRing DEF PagesInv
<1>6. enriched' \in [Sales -> [step : {"none", "enriched", "retried"}, fields : SUBSET StoredField,
                              sent : SUBSET Field]]
  BY <1>4 DEF PagesInv, SourcesTyped
<1>7. SourcesTyped'
  BY <1>4, <1>5, <1>6 DEF PagesInv, SourcesTyped
<1>8. Emitted' = Emitted
  BY <1>4 DEF Emitted
<1>9. /\ enriched'[s].sent = found
      /\ \A x \in Sales : x # s => enriched'[x] = enriched[x]
  BY <1>4 DEF PagesInv, SourcesTyped
<1>10. \A x \in ToSet(metaRing') : x.fields = enriched'[x.sale].sent
  <2> SUFFICES ASSUME NEW x \in ToSet(metaRing')
               PROVE  x.fields = enriched'[x.sale].sent
    OBVIOUS
  <2>1. CASE x = m
    BY <1>3, <1>9, <2>1
  <2>2. CASE x \in ToSet(metaRing) /\ x.sale # s
    <3>1. x.sale \in Sales /\ x.fields = enriched[x.sale].sent
      BY <2>2 DEF PagesInv, OnlyEmitted, Emitted
    <3> QED
      BY <1>9, <2>2, <3>1
  <2> QED
    BY <1>5, <2>1, <2>2
<1>11. \A x \in Sales : enriched'[x].step # "none" => x \in Emitted'
  BY <1>1, <1>8, <1>9 DEF PagesInv, OnlyEmitted
<1>12. \A x \in ToSet(ring') : x \in ToSet(ring)
  BY <1>4
<1> QED
  BY <1>1, <1>3, <1>4, <1>5, <1>7, <1>8, <1>10, <1>11, <1>12, EmitKeeps

\* Nobody hears more than before, and no page shows another row or has
\* something new on its way.
Quieter ==
  \A p \in Pages : /\ Hears(p)' => Hears(p)
                   /\ page'[p].version = page[p].version
                   /\ inbox'[p] = inbox[p] \/ (inbox'[p] = <<>> /\ ~ Hears(p)')

\* Connections and pages change, nothing is emitted.
LEMMA QuietKeeps ==
  ASSUME PagesInv, Slots', UNCHANGED <<queue, timer, sources>>,
         page' \in [Pages -> Page], inbox' \in [Pages -> Seq(Frame)], OwnConnection',
         \A p \in Pages :
           Hears(p)' => Served(page'[p], inbox'[p] \o queue, version, ToSet(ring), ToSet(metaRing))
  PROVE  PagesInv'
<1>1. QueueTyped' /\ SourcesTyped'
  BY DEF PagesInv, QueueTyped, SourcesTyped, sources
<1>2. OnlyEmitted'
  BY DEF PagesInv, OnlyEmitted, Emitted, sources
<1>3. AllServed(queue, version, ToSet(ring), ToSet(metaRing))'
  BY DEF PagesInv, AllServed, sources
<1> QED
  BY <1>1, <1>2, <1>3 DEF PagesInv

LEMMA TimerKeeps ==
  ASSUME PagesInv, BatchTimerFires
  PROVE  PagesInv'
<1>1. Flush(queue) /\ UNCHANGED <<sources, page>>
  BY DEF BatchTimerFires
<1>2. queue \in Seq(Frame) /\ version \in Nat
  BY DEF PagesInv, QueueTyped, SourcesTyped
<1>3. PICK q \in Seq(Frame) : q = queue
  BY <1>2
<1>4. PICK v \in Nat : v = version
  BY <1>2
<1>5. PICK R \in SUBSET Sales : R = ToSet(ring)
  BY SetsOfRings DEF PagesInv
<1>6. PICK M \in SUBSET Meta : M = ToSet(metaRing)
  BY SetsOfRings DEF PagesInv
<1>7. /\ inbox' \in [Pages -> Seq(Frame)] /\ OwnConnection' /\ QueueTyped' /\ queue' = <<>>
      /\ AllServed(<<>>, v, R, M)'
  BY <1>1, <1>3, <1>4, <1>5, <1>6, FlushServes DEF PagesInv
<1>8. Slots'
  BY <1>1, BroadcastSlots DEF PagesInv, Flush
<1>9. AllServed(queue, version, ToSet(ring), ToSet(metaRing))'
  BY <1>1, <1>4, <1>5, <1>6, <1>7 DEF sources
<1>10. SourcesTyped' /\ OnlyEmitted'
  BY <1>1, <1>7 DEF PagesInv, SourcesTyped, OnlyEmitted, Emitted, sources
<1> QED
  BY <1>1, <1>7, <1>8, <1>9, <1>10 DEF PagesInv

LEMMA SaleRowKeeps ==
  ASSUME PagesInv, NEW s \in Sales, InsertSale(s) \/ CountIsStored(s)
  PROVE  PagesInv'
<1>1. /\ UNCHANGED <<hub, version, ring, enriched, metaRing, page>>
      /\ sale' \in [Sales -> {"none", "inserted", "emitted", "counted"}]
      /\ stored' \subseteq Sales /\ Emitted' = Emitted
  BY DEF InsertSale, CountIsStored, PagesInv, SourcesTyped, Emitted
<1>2. Slots' /\ QueueTyped' /\ SourcesTyped' /\ OwnConnection'
      /\ page' \in [Pages -> Page] /\ inbox' \in [Pages -> Seq(Frame)]
  BY <1>1 DEF hub, PagesInv, Slots, SlotsMatchConnections, Clients, QueueTyped, SourcesTyped,
     OwnConnection
<1>3. OnlyEmitted'
  BY <1>1 DEF hub, PagesInv, OnlyEmitted
<1>4. AllServed(queue, version, ToSet(ring), ToSet(metaRing))'
  BY <1>1 DEF hub, PagesInv, AllServed, Hears, Clients
<1> QED
  BY <1>2, <1>3, <1>4 DEF PagesInv

\* Connections may die or be torn down under the pages.
LEMMA LessHeard ==
  ASSUME PagesInv, Slots', UNCHANGED <<queue, timer, inbox, sources, page>>,
         \A k \in Conns :
           /\ conn'[k].stage = "open" /\ ~ conn'[k].gone =>
                conn[k].stage = "open" /\ ~ conn[k].gone
           /\ conn[k].stage # "free" =>
                conn'[k].stage # "free" \/ \A p \in Pages : page[p].on # k
  PROVE  PagesInv' /\ Quieter
<1>1. \A p \in Pages : page[p].on \in Conns \cup {NoConn}
  BY DEF PagesInv, Page
<1>2. OwnConnection'
  BY <1>1 DEF PagesInv, OwnConnection
<1>3. \A p \in Pages : Hears(p)' => Hears(p)
  BY <1>1 DEF Hears, Clients
<1>4. page' \in [Pages -> Page] /\ inbox' \in [Pages -> Seq(Frame)]
  BY DEF PagesInv
<1> QED
  BY <1>2, <1>3, <1>4, QuietKeeps DEF PagesInv, AllServed, Quieter

LEMMA ConnectionKeeps ==
  ASSUME PagesInv, NEW k \in Conns, Heartbeat(k) \/ CloseFires(k) \/ GoesSilent(k)
  PROVE  PagesInv' /\ Quieter
<1>1. Slots' /\ conn \in [Conns -> Conn] /\ conn[k] \in Conn
  BY ConnectionSlots DEF PagesInv, Slots
<1>2. UNCHANGED <<queue, timer, inbox, sources, page>>
  BY DEF Heartbeat, CloseFires, GoesSilent
<1>3. \A j \in Conns \ {k} : conn'[j] = conn[j]
  BY <1>1 DEF Heartbeat, CloseFires, GoesSilent
<1>4. /\ conn'[k].stage = "open" /\ ~ conn'[k].gone =>
           conn[k].stage = "open" /\ ~ conn[k].gone
      /\ conn[k].stage # "free" =>
           conn'[k].stage # "free" \/ \A p \in Pages : page[p].on # k
  <2>1. CASE Heartbeat(k)
    BY <1>1, <2>1, FreeIsTyped DEF Heartbeat, Conn, Clients
  <2>2. CASE CloseFires(k)
    BY <1>1, <2>2, FreeIsTyped DEF CloseFires, Conn, Clients
  <2>3. CASE GoesSilent(k)
    BY <1>1, <2>3 DEF GoesSilent, Conn, Clients
  <2> QED
    BY <2>1, <2>2, <2>3
<1> QED
  BY <1>1, <1>2, <1>3, <1>4, LessHeard

\* The page's side goes away: it hears nothing, and nobody else hears more.
LEMMA HangsKeeps ==
  ASSUME PagesInv, NEW p \in Pages, StreamErrors(p) \/ Recover(p)
  PROVE  PagesInv' /\ Quieter
<1>1. /\ Hangs(p) /\ UNCHANGED <<clientsByIp, queue, timer, sources>>
      /\ \E ph \in {"ready", "loading"} :
           page' = [page EXCEPT ![p].phase = ph, ![p].on = NoConn]
  BY DEF StreamErrors, Recover
<1>2. PICK ph \in {"ready", "loading"} : page' = [page EXCEPT ![p].phase = ph, ![p].on = NoConn]
  BY <1>1
<1>3. page \in [Pages -> Page] /\ page[p] \in Page
  BY DEF PagesInv
<1>4. /\ page'[p] \in Page /\ page'[p].phase = ph /\ page'[p].on = NoConn
      /\ \A o \in Pages \ {p} : page'[o] = page[o]
      /\ page' \in [Pages -> Page]
  BY <1>2, <1>3 DEF Page
<1>5. Slots'
  BY <1>1, HangsSlots DEF PagesInv
<1>b. /\ inbox' \in [Pages -> Seq(Frame)] /\ inbox'[p] = <<>>
      /\ \A o \in Pages \ {p} : inbox'[o] = inbox[o]
  <2>1. <<>> \in Seq(Frame) /\ inbox \in [Pages -> Seq(Frame)]
    BY DEF PagesInv
  <2> QED
    BY <1>1, <2>1 DEF Hangs
<1>6. \A k \in Conns : /\ conn'[k].stage = conn[k].stage
                       /\ conn[k].gone => conn'[k].gone
  BY <1>1 DEF Hangs, PagesInv, Slots, Conn
<1>7. OwnConnection'
  <2> SUFFICES ASSUME NEW o \in Pages
               PROVE  /\ page'[o].phase = "live" <=> page'[o].on # NoConn
                      /\ page'[o].phase = "live" => conn'[page'[o].on].stage # "free"
    BY DEF OwnConnection
  <2>1. page[o].on \in Conns \cup {NoConn}
    BY DEF PagesInv, Page
  <2> QED
    BY <1>4, <1>6, <2>1 DEF PagesInv, OwnConnection
<1>8. \A o \in Pages : Hears(o)' => o # p /\ Hears(o) /\ page'[o] = page[o] /\ inbox'[o] = inbox[o]
  <2> SUFFICES ASSUME NEW o \in Pages, Hears(o)'
               PROVE  o # p /\ Hears(o) /\ page'[o] = page[o] /\ inbox'[o] = inbox[o]
    OBVIOUS
  <2>1. page'[o].phase = "live" /\ page'[o].on \in Conns /\ ~ conn'[page'[o].on].gone
        /\ conn'[page'[o].on].stage = "open"
    BY DEF Hears, Clients
  <2>2. o # p
    BY <1>4, <2>1
  <2> QED
    BY <1>4, <1>6, <1>b, <2>1, <2>2 DEF Hears, Clients
<1>9. page'[p].version = page[p].version
  BY <1>2, <1>3 DEF Page
<1>10. PagesInv'
  BY <1>1, <1>4, <1>5, <1>7, <1>8, <1>b, QuietKeeps DEF PagesInv, AllServed
<1>11. Quieter
  BY <1>4, <1>8, <1>9, <1>b DEF Quieter
<1> QED
  BY <1>10, <1>11

LEMMA FetchKeeps ==
  ASSUME PagesInv, NEW p \in Pages, FetchAnswers(p)
  PROVE  PagesInv' /\ Quieter
<1>1. page \in [Pages -> Page] /\ page[p] \in Page /\ page[p].phase = "loading"
      /\ UNCHANGED <<hub, sources>>
  BY DEF PagesInv, FetchAnswers
<1>2. /\ page'[p] \in Page /\ page'[p].phase = "ready" /\ page'[p].on = page[p].on /\ page'[p].version = page[p].version
      /\ \A o \in Pages \ {p} : page'[o] = page[o]
      /\ page' \in [Pages -> Page]
  <2>1. CASE page' = [page EXCEPT ![p].phase = "ready"]
    BY <1>1, <2>1 DEF Page
  <2>2. ASSUME NEW fresh \in SUBSET Sales,
               page' = [page EXCEPT ![p].phase = "ready",
                 ![p].cards = @ \cup fresh, ![p].badges = @ \cup (fresh \cap stored),
                 ![p].fields = [s \in Sales |-> IF s \in fresh THEN enriched[s].fields ELSE @[s]]]
        PROVE  /\ page'[p] \in Page /\ page'[p].phase = "ready" /\ page'[p].on = page[p].on /\ page'[p].version = page[p].version
               /\ \A o \in Pages \ {p} : page'[o] = page[o]
               /\ page' \in [Pages -> Page]
    <3> DEFINE fie == [s \in Sales |-> IF s \in fresh THEN enriched[s].fields ELSE page[p].fields[s]]
               pg == [page[p] EXCEPT !.phase = "ready", !.cards = @ \cup fresh,
                        !.badges = @ \cup (fresh \cap stored), !.fields = fie]
    <3>1. page' = [page EXCEPT ![p] = pg]
      BY <1>1, <2>2
    <3>2. fie \in [Sales -> SUBSET Field]
      BY <1>1 DEF PagesInv, SourcesTyped, Page, Field
    <3> HIDE DEF fie
    <3>3. pg \in Page /\ pg.phase = "ready" /\ pg.on = page[p].on /\ pg.version = page[p].version
      BY <1>1, <3>2 DEF Page
    <3> HIDE DEF pg
    <3> QED
      BY <1>1, <3>1, <3>3
  <2>3. {s \in Sales : sale[s] # "none"} \ page[p].cards \in SUBSET Sales
    OBVIOUS
  <2> QED
    BY <2>1, <2>2, <2>3 DEF FetchAnswers
<1>3. Slots'
  BY <1>1 DEF PagesInv, Slots, SlotsMatchConnections, Clients, hub
<1>4. OwnConnection'
  BY <1>1, <1>2 DEF PagesInv, OwnConnection, hub
<1>5. \A o \in Pages : Hears(o)' => Hears(o) /\ page'[o] = page[o]
  BY <1>1, <1>2 DEF Hears, Clients, hub
<1>6. PagesInv'
  BY <1>1, <1>2, <1>3, <1>4, <1>5, QuietKeeps DEF PagesInv, AllServed, hub
<1>7. Quieter
  <2>1. \A o \in Pages : page'[o].version = page[o].version
    BY <1>2
  <2> QED
    BY <1>1, <1>5, <2>1 DEF hub, Quieter
<1> QED
  BY <1>6, <1>7

\* The replay brings no card, ends with the row as it is, and says everything
\* the rings remember.
LEMMA ReplayIsServed ==
  ASSUME SourcesTyped
  PROVE  /\ Replay \in Seq(Frame) /\ LastStatusIs(Replay, version)
         /\ \A i \in Statuses(Replay) : Replay[i].version = version
         /\ \A pg : Served(pg, Replay, version, ToSet(ring), ToSet(metaRing))
<1>r. PICK r \in Seq(Sales) : r = ring
  BY DEF SourcesTyped
<1>z. PICK z \in Seq(Meta) : z = metaRing
  BY DEF SourcesTyped
<1>v. PICK v \in Nat : v = version
  BY DEF SourcesTyped
<1> DEFINE head == [type |-> "mint_status", version |-> v]
           counts == [i \in DOMAIN r |-> [type |-> "seller_count", sale |-> r[i]]]
           replay == <<head>> \o counts \o z
<1>1. head \in Frame /\ head.type = "mint_status" /\ head.version = v
  BY DEF Frame
<1>2. /\ counts \in Seq(Frame) /\ Len(counts) = Len(r) /\ Len(r) \in Nat /\ DOMAIN r = 1 .. Len(r)
      /\ \A i \in 1 .. Len(r) : counts[i] = CountFrame(r[i]) /\ counts[i].type = "seller_count"
  BY DEF Frame, CountFrame
<1>3. z \in Seq(Frame) /\ Len(z) \in Nat /\ DOMAIN z = 1 .. Len(z)
      /\ \A i \in 1 .. Len(z) : z[i].type = "meta"
  <2>1. Meta \subseteq Frame /\ \A i \in 1 .. Len(z) : z[i] \in Meta
    BY DEF Frame
  <2> QED
    BY <2>1, SeqMonotonic DEF Meta
<1> HIDE DEF head, counts
<1>4. /\ replay \in Seq(Frame) /\ Len(replay) = 1 + Len(r) + Len(z)
      /\ DOMAIN replay = 1 .. 1 + Len(r) + Len(z)
      /\ replay[1] = head
      /\ \A i \in 1 .. Len(r) : replay[1 + i] = counts[i]
      /\ \A i \in 1 .. Len(z) : replay[1 + Len(r) + i] = z[i]
  <2> DEFINE first == <<head>> \o counts
  <2>1. <<head>> \in Seq(Frame) /\ Len(<<head>>) = 1 /\ <<head>>[1] = head
    BY <1>1
  <2>2. /\ first \in Seq(Frame) /\ Len(first) = 1 + Len(r)
        /\ \A i \in 1 .. 1 + Len(r) : first[i] = IF i <= 1 THEN <<head>>[i] ELSE counts[i - 1]
    BY <1>2, <2>1, ConcatProperties
  <2>3. first[1] = head /\ \A i \in 1 .. Len(r) : first[1 + i] = counts[i]
    BY <1>2, <2>1, <2>2
  <2> HIDE DEF first
  <2>4. /\ replay \in Seq(Frame) /\ Len(replay) = 1 + Len(r) + Len(z)
        /\ \A i \in 1 .. 1 + Len(r) + Len(z) :
             replay[i] = IF i <= 1 + Len(r) THEN first[i] ELSE z[i - (1 + Len(r))]
    <3>1. replay = first \o z
      BY DEF first
    <3> HIDE DEF replay
    <3>2. first \in Seq(Frame) /\ z \in Seq(Frame)
      BY <1>3, <2>2
    <3>3. /\ first \o z \in Seq(Frame) /\ Len(first \o z) = Len(first) + Len(z)
          /\ \A i \in 1 .. Len(first) + Len(z) :
               (first \o z)[i] = IF i <= Len(first) THEN first[i] ELSE z[i - Len(first)]
      BY <3>2, ConcatProperties
    <3> QED
      BY <2>2, <3>1, <3>3
  <2> HIDE DEF replay
  <2>5. replay[1] = head /\ \A i \in 1 .. Len(r) : replay[1 + i] = counts[i]
    <3>1. /\ 1 \in 1 .. 1 + Len(r) + Len(z) /\ 1 <= 1 + Len(r)
          /\ \A i \in 1 .. Len(r) : 1 + i \in 1 .. 1 + Len(r) + Len(z) /\ 1 + i <= 1 + Len(r)
      BY <1>2, <1>3
    <3> QED
      BY <2>3, <2>4, <3>1
  <2>6. \A i \in 1 .. Len(z) : replay[1 + Len(r) + i] = z[i]
    <3> TAKE i \in 1 .. Len(z)
    <3>1. /\ 1 + Len(r) + i \in 1 .. 1 + Len(r) + Len(z) /\ ~ (1 + Len(r) + i <= 1 + Len(r))
          /\ (1 + Len(r) + i) - (1 + Len(r)) = i
      BY <1>2, <1>3
    <3> QED
      BY <2>4, <3>1
  <2>7. DOMAIN replay = 1 .. Len(replay)
    BY <2>4
  <2> QED
    BY <2>4, <2>5, <2>6, <2>7
<1> HIDE DEF replay
<1>5. \A i \in DOMAIN replay : i = 1 \/ replay[i].type \in {"seller_count", "meta"}
  <2> SUFFICES ASSUME NEW i \in DOMAIN replay, i # 1
               PROVE  replay[i].type \in {"seller_count", "meta"}
    OBVIOUS
  <2>1. CASE i <= 1 + Len(r)
    <3>1. i - 1 \in 1 .. Len(r) /\ i = 1 + (i - 1)
      BY <1>2, <1>4, <2>1
    <3>2. replay[i] = counts[i - 1]
      BY <1>4, <3>1
    <3> QED
      BY <1>2, <3>1, <3>2
  <2>2. CASE i > 1 + Len(r)
    <3>0. i \in Nat /\ i <= 1 + Len(r) + Len(z)
      BY <1>2, <1>3, <1>4
    <3> DEFINE j == i - (1 + Len(r))
    <3>1. j \in 1 .. Len(z) /\ 1 + Len(r) + j = i
      BY <1>2, <1>3, <2>2, <3>0
    <3> HIDE DEF j
    <3>2. replay[i] = z[j]
      BY <1>4, <3>1
    <3> QED
      BY <1>3, <3>1, <3>2
  <2> QED
    BY <1>2, <1>4, <2>1, <2>2
<1>6. Statuses(replay) = {1}
  <2>1. 1 \in DOMAIN replay
    BY <1>2, <1>3, <1>4
  <2> QED
    BY <1>1, <1>4, <1>5, <2>1 DEF Statuses
<1>7. LastStatusIs(replay, v)
  BY <1>1, <1>4, <1>6 DEF LastStatusIs
<1>8. \A s : ~ Says(replay, SaleFrame(s))
  <2> SUFFICES ASSUME NEW s, NEW i \in DOMAIN replay, replay[i] = SaleFrame(s)
               PROVE  FALSE
    BY DEF Says
  <2>1. replay[i].type = "sale"
    BY DEF SaleFrame
  <2>2. replay[i].type = "mint_status" \/ replay[i].type \in {"seller_count", "meta"}
    BY <1>1, <1>4, <1>5
  <2> QED
    BY <2>1, <2>2
<1>9. \A s, g : Follows(replay, SaleFrame(s), g)
  BY <1>8 DEF Says, Follows
<1>10. \A s \in ToSet(r) : Says(replay, CountFrame(s))
  <2> SUFFICES ASSUME NEW i \in 1 .. Len(r)
               PROVE  Says(replay, CountFrame(r[i]))
    BY <1>2 DEF ToSet
  <2>1. 1 + i \in DOMAIN replay /\ replay[1 + i] = CountFrame(r[i])
    BY <1>2, <1>3, <1>4
  <2> QED
    BY <2>1 DEF Says
<1>11. \A m \in ToSet(z) : Says(replay, m)
  <2> SUFFICES ASSUME NEW i \in 1 .. Len(z)
               PROVE  Says(replay, z[i])
    BY <1>3 DEF ToSet
  <2>1. 1 + Len(r) + i \in DOMAIN replay /\ replay[1 + Len(r) + i] = z[i]
    BY <1>2, <1>3, <1>4
  <2> QED
    BY <2>1 DEF Says
<1>12. \A pg : Served(pg, replay, v, ToSet(r), ToSet(z))
  BY <1>6, <1>7, <1>9, <1>10, <1>11 DEF Served, Promised
<1>13. Replay = replay
  BY <1>r, <1>z, <1>v DEF Replay, replay, counts, head
<1> QED
  BY <1>1, <1>4, <1>6, <1>7, <1>12, <1>13, <1>r, <1>z, <1>v

LEMMA ConnectKeeps ==
  ASSUME PagesInv, NEW p \in Pages, Connect(p)
  PROVE  /\ PagesInv' /\ Hears(p)' /\ page'[p].version = page[p].version /\ inbox'[p] = Replay
         /\ \A o \in Pages \ {p} : page'[o] = page[o] /\ inbox'[o] = inbox[o]
         /\ \A o \in Pages \ {p} : Hears(o)' <=> Hears(o)
<1>1. PICK k \in Conns, ip \in Ips :
        /\ conn[k].stage = "free" /\ Admitted(ip) /\ Opened(k, ip)
        /\ page' = [page EXCEPT ![p].phase = "live", ![p].on = k]
  BY DEF Connect
<1>2. /\ page \in [Pages -> Page] /\ page[p] \in Page /\ queue \in Seq(Frame)
      /\ inbox \in [Pages -> Seq(Frame)] /\ inbox' = [inbox EXCEPT ![p] = Replay]
  BY DEF PagesInv, QueueTyped, Connect
<1>3. /\ Replay \in Seq(Frame)
      /\ \A pg : Served(pg, Replay, version, ToSet(ring), ToSet(metaRing))
  BY ReplayIsServed DEF PagesInv
<1>4. Promised(queue, version, ToSet(ring), ToSet(metaRing))
  BY DEF PagesInv, AllServed
<1>5. \A pg : Served(pg, Replay \o queue, version, ToSet(ring), ToSet(metaRing))
  BY <1>2, <1>3, <1>4, JoinedIsServed
<1>6. /\ inbox' \in [Pages -> Seq(Frame)] /\ inbox'[p] = Replay
      /\ \A o \in Pages \ {p} : inbox'[o] = inbox[o]
  BY <1>2, <1>3
<1> DEFINE pg == [page[p] EXCEPT !.phase = "live", !.on = k]
<1>7. /\ pg \in Page /\ pg.phase = "live" /\ pg.on = k /\ pg.version = page[p].version
  BY <1>2 DEF Page
<1>7a. page' = [page EXCEPT ![p] = pg]
  BY <1>1, <1>2
<1> HIDE DEF pg
<1>8. /\ page'[p] = pg /\ page' \in [Pages -> Page]
      /\ \A o \in Pages \ {p} : page'[o] = page[o]
  BY <1>2, <1>7, <1>7a
<1>10. Slots' /\ conn \in [Conns -> Conn]
  BY <1>1, OpenedSlots DEF PagesInv, Slots
<1>11. conn'[k].stage = "open" /\ \A j \in Conns \ {k} : conn'[j] = conn[j]
  BY <1>1, <1>10 DEF Opened
<1>12. \A o \in Pages \ {p} : page[o].on # k \/ page[o].phase # "live"
  BY <1>1 DEF PagesInv, OwnConnection
<1>13. OwnConnection'
  <2> SUFFICES ASSUME NEW o \in Pages
               PROVE  /\ page'[o].phase = "live" <=> page'[o].on # NoConn
                      /\ page'[o].phase = "live" => conn'[page'[o].on].stage # "free"
    BY DEF OwnConnection
  <2>1. CASE o = p
    BY <1>7, <1>8, <1>11, <2>1, SseAssumption
  <2>2. CASE o # p
    <3>1. page[o].on \in Conns \cup {NoConn} /\ page'[o] = page[o]
      BY <1>2, <1>8, <2>2 DEF Page
    <3> QED
      BY <1>11, <1>12, <2>2, <3>1 DEF PagesInv, OwnConnection
  <2> QED
    BY <2>1, <2>2
<1>14. ASSUME NEW o \in Pages, Hears(o)'
       PROVE  Served(page'[o], inbox'[o] \o queue, version, ToSet(ring), ToSet(metaRing))
  <2>1. CASE o = p
    BY <1>5, <1>6, <2>1
  <2>2. CASE o # p
    <3>1. page'[o] = page[o] /\ page[o].on \in Conns /\ page[o].phase = "live"
          /\ conn'[page[o].on].stage = "open" /\ ~ conn'[page[o].on].gone
      BY <1>8, <1>14, <2>2 DEF Hears, Clients
    <3>2. Hears(o)
      BY <1>11, <1>12, <2>2, <3>1 DEF Hears, Clients
    <3> QED
      BY <1>6, <2>2, <3>1, <3>2 DEF PagesInv, AllServed
  <2> QED
    BY <2>1, <2>2
<1>15. UNCHANGED <<queue, timer, sources>>
  BY DEF Connect
<1>16. PagesInv'
  BY <1>6, <1>8, <1>10, <1>13, <1>14, <1>15, QuietKeeps
<1>17. Hears(p)' /\ page'[p].version = page[p].version
  <2>1. ~ conn'[k].gone
    BY <1>1, <1>10 DEF Opened
  <2> QED
    BY <1>7, <1>8, <1>11, <2>1 DEF Hears, Clients
<1>18. \A o \in Pages \ {p} : Hears(o)' <=> Hears(o)
  <2> TAKE o \in Pages \ {p}
  <2>1. page'[o] = page[o] /\ (page[o].on # k \/ page[o].phase # "live")
    BY <1>8, <1>12
  <2> QED
    BY <1>11, <2>1 DEF Hears, Clients
<1> QED
  BY <1>6, <1>8, <1>16, <1>17, <1>18

\* A page takes the next frame of its connection.
LEMMA ReceivesKeeps ==
  ASSUME PagesInv, NEW p \in Pages, Receives(p)
  PROVE  PagesInv' /\ \A o \in Pages : Hears(o)' <=> Hears(o)
<1>1. /\ inbox[p] # <<>> /\ inbox' = [inbox EXCEPT ![p] = Tail(inbox[p])]
      /\ page' = [page EXCEPT ![p] = Reduce(page[p], Head(inbox[p]))]
      /\ UNCHANGED <<conn, clientsByIp, queue, timer, sources>>
  BY DEF Receives
<1>2. /\ page \in [Pages -> Page] /\ inbox \in [Pages -> Seq(Frame)] /\ queue \in Seq(Frame)
      /\ version \in Nat
  BY DEF PagesInv, QueueTyped, SourcesTyped
<1>3. Head(inbox[p]) \in Frame /\ Tail(inbox[p]) \in Seq(Frame)
  BY <1>1, <1>2, FirstFrame
<1> DEFINE pg == Reduce(page[p], Head(inbox[p]))
<1>4. pg \in Page /\ pg.phase = page[p].phase /\ pg.on = page[p].on
  BY <1>2, <1>3, ReducedFields
<1>5. page' = [page EXCEPT ![p] = pg]
  BY <1>1
<1> HIDE DEF pg
<1>6. /\ page' \in [Pages -> Page] /\ inbox' \in [Pages -> Seq(Frame)]
      /\ page'[p] = pg /\ inbox'[p] = Tail(inbox[p])
      /\ \A o \in Pages \ {p} : page'[o] = page[o] /\ inbox'[o] = inbox[o]
      /\ \A o \in Pages : page'[o].phase = page[o].phase /\ page'[o].on = page[o].on
  BY <1>1, <1>2, <1>3, <1>4, <1>5
<1>7. \A o \in Pages : Hears(o)' <=> Hears(o)
  BY <1>1, <1>6 DEF Hears, Clients
<1>8. Slots' /\ OwnConnection'
  BY <1>1, <1>6 DEF PagesInv, Slots, SlotsMatchConnections, Clients, OwnConnection
<1>9. ASSUME NEW o \in Pages, Hears(o)'
      PROVE  Served(page'[o], inbox'[o] \o queue, version, ToSet(ring), ToSet(metaRing))
  <2>1. Served(page[o], inbox[o] \o queue, version, ToSet(ring), ToSet(metaRing))
    BY <1>7, <1>9 DEF PagesInv, AllServed
  <2>2. CASE o = p
    <3>1. PICK z \in Seq(Frame) : z = inbox[p] \o queue
      BY <1>1, <1>2, TailOfJoined
    <3>2. /\ z # <<>> /\ Head(z) = Head(inbox[p]) /\ Tail(z) = Tail(inbox[p]) \o queue
      BY <1>1, <1>2, <3>1, TailOfJoined
    <3>3. Served(Reduce(page[p], Head(z)), Tail(z), version, ToSet(ring), ToSet(metaRing))
      <4>1. PICK R \in SUBSET Sales : R = ToSet(ring)
        BY SetsOfRings DEF PagesInv
      <4>2. PICK M \in SUBSET Meta : M = ToSet(metaRing)
        BY SetsOfRings DEF PagesInv
      <4>3. Served(page[p], z, version, R, M) /\ page[p] \in Page
        BY <1>2, <2>1, <2>2, <3>1, <4>1, <4>2
      <4> QED
        BY <1>2, <3>2, <4>1, <4>2, <4>3, TakenIsServed
    <3> QED
      BY <1>6, <2>2, <3>2, <3>3 DEF pg
  <2>3. CASE o # p
    BY <1>6, <2>1, <2>3
  <2> QED
    BY <2>2, <2>3
<1>10. PagesInv'
  BY <1>1, <1>6, <1>8, <1>9, QuietKeeps
<1> QED
  BY <1>7, <1>10

LEMMA PagesStart ==
  ASSUME Init
  PROVE  PagesInv
<1> USE DEF Init
<1>1. QueueTyped
  <2>1. Len(<<>>) = 0 /\ <<>> \in Seq(Frame) /\ 0 < MaxBatch
    BY SseAssumption
  <2> QED
    BY <2>1 DEF QueueTyped
<1>2. SourcesTyped
  <2>1. /\ Len(<<>>) = 0 /\ <<>> \in Seq(Sales) /\ <<>> \in Seq(Meta) /\ 0 <= ReplayMax
        /\ 0 \in 0 .. MaxVersion
    BY SseAssumption
  <2> QED
    BY <2>1 DEF SourcesTyped
<1>3. page \in [Pages -> Page] /\ inbox \in [Pages -> Seq(Frame)]
  <2>1. <<>> \in Seq(Frame)
    OBVIOUS
  <2> QED
    BY <2>1 DEF Page
<1>4. ToSet(ring) = {} /\ ToSet(metaRing) = {}
  BY DEF ToSet
<1>5. OnlyEmitted
  BY <1>4 DEF OnlyEmitted
<1>6. OwnConnection
  BY DEF OwnConnection
<1>7. AllServed(queue, version, ToSet(ring), ToSet(metaRing))
  <2>1. \A p \in Pages : ~ Hears(p)
    BY DEF Hears
  <2> QED
    BY <2>1, NothingIsPromised DEF AllServed
<1> QED
  BY <1>1, <1>2, <1>3, <1>5, <1>6, <1>7, SlotsStart DEF PagesInv

LEMMA PagesStep ==
  ASSUME PagesInv, [Next]_vars
  PROVE  PagesInv'
<1>1. CASE UNCHANGED vars
  <2>1. UNCHANGED <<queue, timer, sources>> /\ UNCHANGED <<conn, clientsByIp, inbox, page>>
    BY <1>1 DEF vars, hub
  <2>2. Slots' /\ OwnConnection' /\ page' \in [Pages -> Page] /\ inbox' \in [Pages -> Seq(Frame)]
    BY <2>1 DEF PagesInv, Slots, SlotsMatchConnections, Clients, OwnConnection
  <2>3. \A p \in Pages : Hears(p)' => Hears(p) /\ page'[p] = page[p] /\ inbox'[p] = inbox[p]
    BY <2>1 DEF Hears, Clients
  <2> QED
    BY <2>1, <2>2, <2>3, QuietKeeps DEF PagesInv, AllServed
<1>2. CASE Next
  BY <1>2, StatusKeeps, TimerKeeps, SaleRowKeeps, SaleKeeps, CountKeeps, PatchKeeps,
     ConnectionKeeps, ConnectKeeps, ReceivesKeeps, FetchKeeps, HangsKeeps DEF Next
<1> QED
  BY <1>1, <1>2

LEMMA PagesInvariant == Spec => []PagesInv
<1>1. Init => PagesInv
  BY PagesStart
<1>2. PagesInv /\ [Next]_vars => PagesInv'
  BY PagesStep
<1> QED
  BY <1>1, <1>2, PTL DEF Spec

\* The hub, what it remembers and the pages have the types of their
\* declarations; the queue, the rings and the backpressure stay under their caps.
THEOREM SseTypeCorrect == Spec => []TypeOK
<1>1. PagesInv => TypeOK
  BY DEF PagesInv, TypeOK, Slots, QueueTyped, SourcesTyped
<1> QED
  BY <1>1, PagesInvariant, PTL

\* A page of /feed that loaded its snapshot before a badge or an enrichment was
\* found, and connected after it was sent, has it from the replay rings.
THEOREM LateTabsCatchUp == Spec => []LateTabHasThePatches
<1>1. PagesInv => LateTabHasThePatches
  <2> SUFFICES ASSUME PagesInv, queue = <<>>, NEW p \in Pages, Hears(p), inbox[p] = <<>>
               PROVE  /\ page[p].cards \cap ToSet(ring) \subseteq page[p].badges
                      /\ \A m \in ToSet(metaRing) :
                           m.sale \in page[p].cards =>
                             enriched[m.sale].sent \subseteq page[p].fields[m.sale]
    BY DEF LateTabHasThePatches
  <2>1. Served(page[p], <<>>, version, ToSet(ring), ToSet(metaRing))
    <3>1. <<>> \o <<>> = <<>>
      OBVIOUS
    <3> QED
      BY <3>1 DEF PagesInv, AllServed
  <2>2. \A f : ~ Says(<<>>, f)
    BY DEF Says
  <2>3. \A m \in ToSet(metaRing) : m.fields = enriched[m.sale].sent
    BY DEF PagesInv, OnlyEmitted
  <2> QED
    BY <2>1, <2>2, <2>3 DEF Served
<1> QED
  BY <1>1, PagesInvariant, PTL

----------------------------------------------------------------------------
(* The row feed.                                                           *)

\* Frames tell of versions up to n, one of them last.
Known(q, n) ==
  /\ \A i \in Statuses(q) : q[i].version \in 0 .. n
  /\ Statuses(q) = {} \/ \E v \in Nat : LastStatusIs(q, v)

Shown ==
  /\ Known(queue, version)
  /\ \A p \in Pages : page[p].version \in 0 .. version /\ Known(inbox[p], version)

LEMMA RowIsServed ==
  ASSUME PagesInv
  PROVE  /\ Statuses(queue) = {} \/ LastStatusIs(queue, version)
         /\ version \in Nat /\ queue \in Seq(Frame) /\ inbox \in [Pages -> Seq(Frame)]
         /\ Slots /\ page \in [Pages -> Page] /\ OwnConnection
BY DEF PagesInv, AllServed, Promised, QueueTyped, SourcesTyped

LEMMA KnownMore ==
  ASSUME NEW q, NEW n \in Nat, NEW m \in Nat, n <= m, Known(q, n)
  PROVE  Known(q, m)
BY DEF Known

LEMMA KnownAppended ==
  ASSUME NEW q \in Seq(Frame), NEW f \in Frame, NEW n \in Nat, NEW m \in Nat, n <= m,
         Known(q, n), f.type = "mint_status" => f.version \in 0 .. m
  PROVE  Known(Append(q, f), m)
<1>1. PICK v \in Nat : Statuses(q) = {} \/ LastStatusIs(q, v)
  BY DEF Known
<1>2. PICK w \in Nat : IF f.type = "mint_status" THEN f.version = w ELSE w = v
  BY FrameTypes
<1>4. Statuses(Append(q, f)) = {} \/ LastStatusIs(Append(q, f), w)
  BY <1>1, <1>2, StatusOfAppended
<1>3. \A i \in Statuses(Append(q, f)) : Append(q, f)[i].version \in 0 .. m
  <2> SUFFICES ASSUME NEW i \in Statuses(Append(q, f))
               PROVE  Append(q, f)[i].version \in 0 .. m
    OBVIOUS
  <2>1. (i \in DOMAIN q /\ Append(q, f)[i] = q[i]) \/ Append(q, f)[i] = f
    BY DEF Statuses
  <2>2. Append(q, f)[i].type = "mint_status"
    BY DEF Statuses
  <2>3. CASE i \in DOMAIN q /\ Append(q, f)[i] = q[i]
    <3>1. q[i].version \in 0 .. n
      BY <2>2, <2>3 DEF Known, Statuses
    <3> QED
      BY <2>3, <3>1
  <2> QED
    BY <2>1, <2>2, <2>3
<1> QED
  BY <1>3, <1>4 DEF Known

LEMMA KnownJoined ==
  ASSUME NEW b \in Seq(Frame), NEW q \in Seq(Frame), NEW n, Known(b, n), Known(q, n)
  PROVE  Known(b \o q, n)
<1>1. ASSUME NEW i \in Statuses(b \o q)
      PROVE  (b \o q)[i].version \in 0 .. n
  <2>1. CASE i \in Statuses(b) /\ (b \o q)[i] = b[i]
    BY <2>1 DEF Known
  <2>2. CASE \E j \in Statuses(q) : (b \o q)[i] = q[j]
    <3>1. PICK j \in Statuses(q) : (b \o q)[i] = q[j]
      BY <2>2
    <3>2. q[j].version \in 0 .. n
      BY DEF Known
    <3> QED
      BY <3>1, <3>2
  <2> QED
    BY <2>1, <2>2, StatusOfJoined
<1>2. Statuses(b \o q) = {} \/ \E v \in Nat : LastStatusIs(b \o q, v)
  <2>1. CASE Statuses(q) # {}
    <3>1. PICK v \in Nat : LastStatusIs(q, v)
      BY <2>1 DEF Known
    <3> QED
      BY <3>1, StatusOfJoined
  <2>2. CASE Statuses(q) = {} /\ Statuses(b) # {}
    <3>1. PICK v \in Nat : LastStatusIs(b, v)
      BY <2>2 DEF Known
    <3> QED
      BY <2>2, <3>1, StatusOfJoined
  <2>3. CASE Statuses(q) = {} /\ Statuses(b) = {}
    BY <2>3, StatusOfJoined
  <2> QED
    BY <2>1, <2>2, <2>3
<1> QED
  BY <1>1, <1>2 DEF Known

LEMMA KnownTail ==
  ASSUME NEW q \in Seq(Frame), q # <<>>, NEW n, Known(q, n)
  PROVE  /\ Known(Tail(q), n)
         /\ Head(q).type = "mint_status" => Head(q).version \in 0 .. n
<1>1. \A i \in Statuses(Tail(q)) : i + 1 \in Statuses(q) /\ Tail(q)[i] = q[i + 1]
  BY FirstFrame DEF Statuses
<1>2. Head(q).type = "mint_status" => 1 \in Statuses(q) /\ Head(q) = q[1]
  BY FirstFrame DEF Statuses
<1>3. Statuses(Tail(q)) = {} \/ \E v \in Nat : LastStatusIs(Tail(q), v)
  <2>1. CASE Statuses(q) = {}
    BY <1>1, <2>1
  <2>2. CASE \E v \in Nat : LastStatusIs(q, v)
    BY <2>2, StatusOfTail
  <2> QED
    BY <2>1, <2>2 DEF Known
<1> QED
  BY <1>1, <1>2, <1>3 DEF Known

LEMMA FlushShown ==
  ASSUME PagesInv, Shown, NEW q \in Seq(Frame), Flush(q), UNCHANGED page,
         version' \in Nat, version <= version', Known(q, version')
  PROVE  Shown'
<1>1. queue' = <<>> /\ Reaches(q) /\ inbox \in [Pages -> Seq(Frame)]
  BY FlushReaches, RowIsServed
<1>2. Known(queue', version')
  BY <1>1 DEF Known, Statuses
<1>3. ASSUME NEW p \in Pages
      PROVE  page'[p].version \in 0 .. version' /\ Known(inbox'[p], version')
  <2>1. page[p].version \in 0 .. version' /\ Known(inbox[p], version')
    BY RowIsServed, KnownMore DEF Shown
  <2>2. inbox[p] \in Seq(Frame) /\ (inbox'[p] = inbox[p] \o q \/ inbox'[p] = inbox[p])
    BY <1>1 DEF Reaches
  <2> QED
    BY <2>1, <2>2, KnownJoined
<1> QED
  BY <1>2, <1>3 DEF Shown, Known, Statuses, LastStatusIs

LEMMA EnqueueShown ==
  ASSUME PagesInv, Shown, NEW f \in Frame, Enqueue(f), UNCHANGED page,
         version' \in Nat, version <= version',
         f.type = "mint_status" => f.version \in 0 .. version'
  PROVE  Shown'
<1>1. PICK n \in Nat : n = version'
  OBVIOUS
<1>2. PICK q \in Seq(Frame) : q = Append(queue, f)
  <2>1. queue \in Seq(Frame)
    BY RowIsServed
  <2>2. Append(queue, f) \in Seq(Frame)
    BY <2>1
  <2> QED
    BY <2>2
<1>3. Known(q, n)
  BY <1>1, <1>2, RowIsServed, KnownAppended DEF Shown
<1>4. CASE Flush(q)
  BY <1>1, <1>3, <1>4, FlushShown
<1>5. CASE queue' = q /\ UNCHANGED inbox
  <2>1. \A p \in Pages : page[p].version \in 0 .. n /\ Known(inbox[p], n)
    BY <1>1, RowIsServed, KnownMore DEF Shown
  <2> QED
    BY <1>1, <1>3, <1>5, <2>1 DEF Shown, Known, Statuses, LastStatusIs
<1> QED
  BY <1>2, <1>4, <1>5 DEF Enqueue

\* Everything about a sale is a frame that is queued.
LEMMA SaleFrames ==
  ASSUME NEW s \in Sales,
         EmitSale(s) \/ CountResolves(s) \/ Enriches(s) \/ RetryResolves(s)
  PROVE  \E f \in Frame : f.type # "mint_status" /\ Enqueue(f) /\ UNCHANGED <<version, page>>
<1>1. CASE EmitSale(s)
  <2>1. SaleFrame(s) \in Frame /\ SaleFrame(s).type = "sale"
    BY DEF SaleFrame, Frame
  <2>2. Enqueue(SaleFrame(s)) /\ UNCHANGED <<version, page>>
    BY <1>1 DEF EmitSale, SaleFrame
  <2> QED
    BY <2>1, <2>2
<1>2. CASE CountResolves(s)
  <2>1. CountFrame(s) \in Frame /\ CountFrame(s).type = "seller_count"
    BY DEF CountFrame, Frame
  <2>2. Enqueue(CountFrame(s)) /\ UNCHANGED <<version, page>>
    BY <1>2 DEF CountResolves, CountFrame
  <2> QED
    BY <2>1, <2>2
<1>3. CASE Enriches(s) \/ RetryResolves(s)
  <2>1. \E step \in {"enriched", "retried"} : \E found \in SUBSET Field :
          Patched(s, step, found)
    BY <1>3 DEF Enriches, RetryResolves, Field
  <2>2. PICK step \in {"enriched", "retried"}, found \in SUBSET Field :
          Patched(s, step, found)
    BY <2>1
  <2> DEFINE m == [type |-> "meta", sale |-> s, fields |-> found]
  <2>3. m \in Frame /\ m.type = "meta"
    BY DEF Meta, Frame
  <2>4. Enqueue(m) /\ UNCHANGED <<version, page>>
    BY <2>2 DEF Patched
  <2> QED
    BY <2>3, <2>4
<1> QED
  BY <1>1, <1>2, <1>3

\* Nothing is sent and nobody listens anew; who loses what is on its way to it
\* does not listen.
Leaving ==
  \A p \in Pages :
    /\ Hears(p)' => Hears(p)
    /\ page'[p].version = page[p].version
    /\ \/ /\ Statuses(inbox'[p]) = {} <=> Statuses(inbox[p]) = {}
          /\ LastStatus(inbox'[p], page'[p].version) = LastStatus(inbox[p], page[p].version)
       \/ Statuses(inbox'[p]) = {} /\ ~ Hears(p)'

LEMMA QuieterIsLeaving ==
  ASSUME Quieter
  PROVE  Leaving
<1>1. Statuses(<<>>) = {}
  BY DEF Statuses
<1> QED
  BY <1>1 DEF Quieter, Leaving

LEMMA LeavingLeaves ==
  ASSUME Leaving, Statuses(queue') = {} <=> Statuses(queue) = {}, UNCHANGED version
  PROVE  Feed!Leave
<1> DEFINE sent == [p \in Pages |-> LastStatus(inbox[p], page[p].version)]
           coming == {p \in Pages : Statuses(inbox[p]) # {}}
           shown == [p \in Pages |-> page[p].version]
           listening == {p \in Pages : Hears(p)}
<1>1. listening' \subseteq listening /\ UNCHANGED shown
  BY DEF Leaving
<1>2. coming' \subseteq coming /\ (coming \ coming') \cap listening' = {}
  BY DEF Leaving
<1>3. sent' = [p \in Pages |-> IF p \in coming \ coming' THEN shown[p] ELSE sent[p]]
  <2>0. sent' = [p \in Pages |-> LastStatus(inbox'[p], page'[p].version)]
    BY DEF LastStatus, Statuses
  <2> SUFFICES ASSUME NEW p \in Pages
               PROVE  LastStatus(inbox'[p], page'[p].version) =
                        IF p \in coming \ coming' THEN page[p].version
                        ELSE LastStatus(inbox[p], page[p].version)
    BY <2>0
  <2>1. CASE Statuses(inbox'[p]) = {} /\ ~ Hears(p)'
    BY <2>1 DEF Leaving, LastStatus
  <2>2. CASE /\ Statuses(inbox'[p]) = {} <=> Statuses(inbox[p]) = {}
             /\ LastStatus(inbox'[p], page'[p].version) = LastStatus(inbox[p], page[p].version)
    BY <2>2
  <2> QED
    BY <2>1, <2>2 DEF Leaving
<1> QED
  BY <1>1, <1>2, <1>3 DEF Feed!Leave

LEMMA LastStatusIsSent ==
  ASSUME NEW q \in Seq(Frame), NEW v, LastStatusIs(q, v)
  PROVE  Statuses(q) # {} /\ \A d : LastStatus(q, d) = v
<1>1. PICK i \in Statuses(q) : q[i].version = v /\ \A j \in Statuses(q) : j <= i
  BY DEF LastStatusIs
<1> DEFINE last == CHOOSE k \in Statuses(q) : \A j \in Statuses(q) : j <= k
<1>2. last \in Statuses(q) /\ \A j \in Statuses(q) : j <= last
  BY <1>1
<1>3. \A j \in Statuses(q) : j \in Nat
  BY DEF Statuses
<1>4. last = i
  <2> HIDE DEF last
  <2>1. last <= i /\ i <= last /\ last \in Nat /\ i \in Nat
    BY <1>1, <1>2, <1>3
  <2> QED
    BY <2>1
<1> QED
  BY <1>1, <1>4 DEF LastStatus

\* A flush sends the row if it tells of it.
LEMMA FlushDelivers ==
  ASSUME PagesInv, Shown, NEW q \in Seq(Frame), Flush(q), UNCHANGED page,
         Statuses(q) = {} \/ LastStatusIs(q, version')
  PROVE  /\ Statuses(queue') = {}
         /\ IF Statuses(q) # {} THEN Feed!Delivered ELSE Leaving
<1>1. queue' = <<>> /\ Reaches(q) /\ inbox \in [Pages -> Seq(Frame)]
  BY FlushReaches, RowIsServed
<1>2. Statuses(queue') = {}
  BY <1>1 DEF Statuses
<1>3. \A p \in Pages : Hears(p)' => Hears(p)
  BY <1>1 DEF Reaches
<1>4. CASE Statuses(q) # {}
  <2>1. PICK v : v = version' /\ LastStatusIs(q, v)
    BY <1>4
  <2>2. ASSUME NEW p \in Pages
        PROVE  /\ Hears(p)' => /\ Statuses(inbox'[p]) # {}
                               /\ LastStatus(inbox'[p], page'[p].version) = v
               /\ ~ Hears(p)' => inbox'[p] = inbox[p]
    <3>1. ASSUME Hears(p)' PROVE /\ Statuses(inbox'[p]) # {}
                                 /\ LastStatus(inbox'[p], page'[p].version) = v
      <4>1. inbox[p] \in Seq(Frame) /\ inbox'[p] = inbox[p] \o q
        BY <1>1, <3>1 DEF Reaches
      <4>2. LastStatusIs(inbox[p] \o q, v) /\ inbox[p] \o q \in Seq(Frame)
        BY <2>1, <4>1, StatusOfJoined, ConcatProperties
      <4> QED
        BY <4>1, <4>2, LastStatusIsSent
    <3> QED
      BY <1>1, <3>1 DEF Reaches
  <2> DEFINE sent == [p \in Pages |-> LastStatus(inbox[p], page[p].version)]
             coming == {p \in Pages : Statuses(inbox[p]) # {}}
             listening == {p \in Pages : Hears(p)}
  <2>3. coming' = coming \cup listening'
    BY <2>2
  <2>4. sent' = [p \in Pages |-> IF p \in listening' THEN version' ELSE sent[p]]
    <3>1. \A p \in Pages : LastStatus(inbox'[p], page'[p].version) =
              IF Hears(p)' THEN version' ELSE LastStatus(inbox[p], page[p].version)
      BY <2>1, <2>2
    <3>2. sent' = [p \in Pages |-> LastStatus(inbox'[p], page'[p].version)]
      BY DEF LastStatus, Statuses
    <3>3. \A p \in Pages : p \in listening' <=> Hears(p)'
      OBVIOUS
    <3> HIDE DEF listening
    <3> QED
      BY <3>1, <3>2, <3>3
  <2>5. listening' \subseteq listening
    BY <1>3
  <2> QED
    BY <1>2, <1>4, <2>3, <2>4, <2>5 DEF Feed!Delivered
<1>5. CASE Statuses(q) = {}
  <2>1. ASSUME NEW p \in Pages
        PROVE  /\ Statuses(inbox'[p]) = {} <=> Statuses(inbox[p]) = {}
               /\ LastStatus(inbox'[p], page[p].version) = LastStatus(inbox[p], page[p].version)
    <3> SUFFICES ASSUME inbox'[p] = inbox[p] \o q
                 PROVE  /\ Statuses(inbox'[p]) = {} <=> Statuses(inbox[p]) = {}
                        /\ LastStatus(inbox'[p], page[p].version) =
                              LastStatus(inbox[p], page[p].version)
      BY <1>1 DEF Reaches
    <3>1. inbox[p] \in Seq(Frame) /\ inbox[p] \o q \in Seq(Frame)
      BY <1>1, ConcatProperties
    <3>2. Statuses(inbox[p] \o q) = {} <=> Statuses(inbox[p]) = {}
      BY <1>5, <3>1, StatusOfJoined
    <3>3. CASE Statuses(inbox[p]) = {}
      BY <3>2, <3>3 DEF LastStatus
    <3>4. CASE Statuses(inbox[p]) # {}
      <4>1. PICK v \in Nat : LastStatusIs(inbox[p], v)
        BY <3>4 DEF Shown, Known
      <4>2. LastStatusIs(inbox[p] \o q, v)
        BY <1>5, <3>1, <4>1, StatusOfJoined
      <4> QED
        BY <3>1, <3>2, <4>1, <4>2, LastStatusIsSent
    <3> QED
      BY <3>3, <3>4
  <2>2. Leaving
    BY <1>3, <2>1 DEF Leaving
  <2> QED
    BY <1>2, <1>5, <2>2
<1> QED
  BY <1>4, <1>5

\* A frame is queued, or it goes out with all the others.
LEMMA EnqueueDelivers ==
  ASSUME PagesInv, Shown, NEW f \in Frame, Enqueue(f), UNCHANGED page, version' \in Nat,
         IF f.type = "mint_status" THEN f.version = version' ELSE version' = version
  PROVE  \/ Feed!Delivered
         \/ /\ Statuses(queue) = {} /\ f.type # "mint_status"
            /\ Statuses(queue') = {} /\ Leaving
         \/ /\ UNCHANGED <<conn, inbox>>
            /\ Statuses(queue') = {} <=> Statuses(queue) = {} /\ f.type # "mint_status"
<1>1. PICK v \in Nat : v = version'
  OBVIOUS
<1>2. PICK q \in Seq(Frame) : q = Append(queue, f)
  <2>1. queue \in Seq(Frame)
    BY RowIsServed
  <2>2. Append(queue, f) \in Seq(Frame)
    BY <2>1
  <2> QED
    BY <2>2
<1>3. /\ Statuses(q) = {} \/ LastStatusIs(q, v)
      /\ Statuses(q) = {} <=> Statuses(queue) = {} /\ f.type # "mint_status"
  BY <1>1, <1>2, RowIsServed, StatusOfAppended
<1>4. CASE Flush(q)
  BY <1>1, <1>3, <1>4, FlushDelivers
<1>5. CASE queue' = q /\ UNCHANGED <<conn, inbox>>
  BY <1>3, <1>5
<1> QED
  BY <1>2, <1>4, <1>5 DEF Enqueue

\* What leaves the connections and the pages alone leaves those of the feed
\* alone.
LEMMA SamePages ==
  ASSUME UNCHANGED <<conn, inbox, page>>
  PROVE  /\ UNCHANGED [p \in Pages |-> LastStatus(inbox[p], page[p].version)]
         /\ UNCHANGED {p \in Pages : Statuses(inbox[p]) # {}}
         /\ UNCHANGED [p \in Pages |-> page[p].version]
         /\ UNCHANGED {p \in Pages : Hears(p)}
BY DEF Hears, Clients, LastStatus, Statuses

\* A change of the row is announced.
LEMMA StatusChanges ==
  ASSUME PagesInv, Shown, EmitMintStatus
  PROVE  Feed!Change /\ Shown'
<1> DEFINE f == [type |-> "mint_status", version |-> version']
<1>1. /\ version \in Nat /\ version < MaxVersion /\ version' = version + 1 /\ Enqueue(f)
      /\ UNCHANGED page
  BY RowIsServed DEF EmitMintStatus
<1>2. f \in Frame /\ f.type = "mint_status" /\ f.version = version'
  BY <1>1 DEF Frame
<1> HIDE DEF f
<1>3. Shown'
  BY <1>1, <1>2, EnqueueShown
<1>4. Feed!Delivered \/ (UNCHANGED <<conn, inbox>> /\ Statuses(queue') # {})
  BY <1>1, <1>2, EnqueueDelivers
<1>5. CASE Feed!Delivered
  BY <1>1, <1>3, <1>5 DEF Feed!Change
<1>6. CASE UNCHANGED <<conn, inbox>> /\ Statuses(queue') # {}
  BY <1>1, <1>3, <1>6, SamePages DEF Feed!Change
<1> QED
  BY <1>4, <1>5, <1>6

\* Any other frame may take the announcements along.
LEMMA SaleDelivers ==
  ASSUME PagesInv, Shown, NEW s \in Sales,
         EmitSale(s) \/ CountResolves(s) \/ Enriches(s) \/ RetryResolves(s)
  PROVE  (Feed!Deliver \/ Feed!Leave \/ UNCHANGED Feed!feedVars) /\ Shown'
<1>1. PICK f \in Frame : f.type # "mint_status" /\ Enqueue(f) /\ UNCHANGED <<version, page>>
  BY SaleFrames
<1>2. version' \in Nat /\ version <= version'
  BY <1>1, RowIsServed
<1>3. Shown'
  BY <1>1, <1>2, EnqueueShown
<1>4. CASE Feed!Delivered
  BY <1>1, <1>3, <1>4 DEF Feed!Deliver
<1>5. CASE Statuses(queue) = {} /\ Statuses(queue') = {} /\ Leaving
  BY <1>1, <1>3, <1>5, LeavingLeaves
<1>6. CASE UNCHANGED <<conn, inbox>> /\ (Statuses(queue') = {} <=> Statuses(queue) = {})
  BY <1>1, <1>3, <1>6, SamePages DEF Feed!feedVars
<1>7. \/ Feed!Delivered
      \/ Statuses(queue) = {} /\ Statuses(queue') = {} /\ Leaving
      \/ UNCHANGED <<conn, inbox>> /\ (Statuses(queue') = {} <=> Statuses(queue) = {})
  BY <1>1, <1>2, EnqueueDelivers
<1> QED
  BY <1>4, <1>5, <1>6, <1>7

LEMMA TimerDelivers ==
  ASSUME PagesInv, Shown, BatchTimerFires
  PROVE  (Feed!Deliver \/ Feed!Leave) /\ Shown'
<1>1. Flush(queue) /\ UNCHANGED <<version, page>>
  BY DEF BatchTimerFires, sources
<1>2. PICK q \in Seq(Frame) : q = queue
  BY RowIsServed
<1>3. /\ Statuses(q) = {} \/ LastStatusIs(q, version')
      /\ Known(q, version') /\ version' \in Nat /\ version <= version'
  BY <1>1, <1>2, RowIsServed DEF Shown
<1>4. Shown'
  BY <1>1, <1>2, <1>3, FlushShown
<1>5. Statuses(queue') = {} /\ IF Statuses(q) # {} THEN Feed!Delivered ELSE Leaving
  BY <1>1, <1>2, <1>3, FlushDelivers
<1>6. CASE Statuses(q) # {}
  BY <1>1, <1>4, <1>5, <1>6 DEF Feed!Deliver
<1>7. CASE Statuses(q) = {}
  BY <1>1, <1>2, <1>4, <1>5, <1>7, LeavingLeaves
<1> QED
  BY <1>6, <1>7

\* Whoever dies or is torn down listens no more.
LEMMA QuieterLeaves ==
  ASSUME Shown, Quieter, UNCHANGED <<queue, version>>
  PROVE  Feed!Leave /\ Shown'
<1>1. Feed!Leave
  BY QuieterIsLeaving, LeavingLeaves
<1>2. Known(<<>>, version)
  BY DEF Known, Statuses
<1>3. \A p \in Pages : page'[p].version \in 0 .. version /\ Known(inbox'[p], version)
  BY <1>2 DEF Quieter, Shown
<1>4. Known(queue, version)
  BY DEF Shown
<1> QED
  BY <1>1, <1>3, <1>4 DEF Shown, Known, Statuses, LastStatusIs

\* A new client is sent the row with its replay.
LEMMA ConnectJoins ==
  ASSUME PagesInv, Shown, NEW p \in Pages, Connect(p)
  PROVE  Feed!Join(p) /\ Shown'
<1>1. /\ Hears(p)' /\ page'[p].version = page[p].version /\ inbox'[p] = Replay
      /\ \A o \in Pages \ {p} : page'[o] = page[o] /\ inbox'[o] = inbox[o]
      /\ \A o \in Pages \ {p} : Hears(o)' <=> Hears(o)
  BY ConnectKeeps
<1>2. ~ Hears(p)
  BY DEF Connect, Hears
<1>3. UNCHANGED <<version, queue>> /\ version \in Nat
  BY RowIsServed DEF Connect, sources
<1>4. /\ Replay \in Seq(Frame) /\ LastStatusIs(Replay, version)
      /\ \A i \in Statuses(Replay) : Replay[i].version = version
  BY ReplayIsServed DEF PagesInv
<1>5. Statuses(Replay) # {} /\ \A d : LastStatus(Replay, d) = version
  BY <1>4, LastStatusIsSent
<1> DEFINE sent == [o \in Pages |-> LastStatus(inbox[o], page[o].version)]
           coming == {o \in Pages : Statuses(inbox[o]) # {}}
           shown == [o \in Pages |-> page[o].version]
           listening == {o \in Pages : Hears(o)}
<1>6. sent' = [sent EXCEPT ![p] = version]
  <2>1. /\ LastStatus(inbox'[p], page'[p].version) = version
        /\ \A o \in Pages \ {p} : LastStatus(inbox'[o], page'[o].version) =
                                  LastStatus(inbox[o], page[o].version)
    BY <1>1, <1>5
  <2>2. sent' = [o \in Pages |-> LastStatus(inbox'[o], page'[o].version)]
    BY DEF LastStatus, Statuses
  <2> QED
    BY <2>1, <2>2
<1>7. coming' = coming \cup {p} /\ listening' = listening \cup {p} /\ UNCHANGED shown
  BY <1>1, <1>5
<1>8. Feed!Join(p)
  BY <1>2, <1>3, <1>6, <1>7 DEF Feed!Join
<1>9. \A o \in Pages : page'[o].version \in 0 .. version /\ Known(inbox'[o], version)
  <2>1. Known(Replay, version)
    BY <1>3, <1>4 DEF Known
  <2> QED
    BY <1>1, <2>1 DEF Shown
<1>10. Known(queue, version)
  BY DEF Shown
<1> QED
  BY <1>3, <1>8, <1>9, <1>10 DEF Shown, Known, Statuses, LastStatusIs

\* A page shows the next thing it was sent about the row.
LEMMA ReceivesShows ==
  ASSUME PagesInv, Shown, NEW p \in Pages, Receives(p)
  PROVE  (Feed!Show(p) \/ UNCHANGED Feed!feedVars) /\ Shown'
<1> DEFINE b == inbox[p]  h == Head(b)
<1>1. /\ b # <<>> /\ inbox' = [inbox EXCEPT ![p] = Tail(b)]
      /\ page' = [page EXCEPT ![p] = Reduce(page[p], h)]
      /\ UNCHANGED <<queue, version>>
  BY DEF Receives, sources
<1>2. /\ page \in [Pages -> Page] /\ inbox \in [Pages -> Seq(Frame)] /\ b \in Seq(Frame)
      /\ page[p] \in Page
  BY RowIsServed
<1>3. h \in Frame /\ Tail(b) \in Seq(Frame)
  BY <1>1, <1>2, FirstFrame
<1>4. /\ inbox'[p] = Tail(b)
      /\ page'[p].version = IF h.type = "mint_status" THEN h.version ELSE page[p].version
      /\ \A o \in Pages \ {p} : page'[o] = page[o] /\ inbox'[o] = inbox[o]
  BY <1>1, <1>2, <1>3, ReducedFields
<1>5. \A o \in Pages : Hears(o)' <=> Hears(o)
  BY ReceivesKeeps
<1>6. /\ Known(b, version) /\ Known(Tail(b), version)
      /\ h.type = "mint_status" => h.version \in 0 .. version
  BY <1>1, <1>2, KnownTail DEF Shown
<1>7. Shown'
  <2>1. \A o \in Pages : page'[o].version \in 0 .. version /\ Known(inbox'[o], version)
    BY <1>4, <1>6 DEF Shown
  <2>2. Known(queue, version)
    BY DEF Shown
  <2> QED
    BY <1>1, <2>1, <2>2 DEF Shown, Known, Statuses, LastStatusIs
<1> HIDE DEF b, h
<1> DEFINE sent == [o \in Pages |-> LastStatus(inbox[o], page[o].version)]
           coming == {o \in Pages : Statuses(inbox[o]) # {}}
           shown == [o \in Pages |-> page[o].version]
           listening == {o \in Pages : Hears(o)}
<1>8. UNCHANGED listening
  BY <1>5
<1>9. ASSUME LastStatus(Tail(b), page'[p].version) = LastStatus(b, page[p].version)
      PROVE  UNCHANGED sent
  <2>1. \A o \in Pages : LastStatus(inbox'[o], page'[o].version) =
                          LastStatus(inbox[o], page[o].version)
    BY <1>4, <1>9 DEF b
  <2>2. sent' = [o \in Pages |-> LastStatus(inbox'[o], page'[o].version)]
    BY DEF LastStatus, Statuses
  <2> QED
    BY <2>1, <2>2
<1>10. CASE h.type # "mint_status"
  <2>1. Statuses(Tail(b)) = {} <=> Statuses(b) = {}
    BY <1>1, <1>2, <1>10, StatusOfTail DEF b, h
  <2>2. LastStatus(Tail(b), page'[p].version) = LastStatus(b, page[p].version)
    <3>1. CASE Statuses(b) = {}
      BY <1>4, <1>10, <2>1, <3>1 DEF LastStatus
    <3>2. CASE Statuses(b) # {}
      <4>1. PICK v \in Nat : LastStatusIs(b, v)
        BY <1>6, <3>2 DEF Known
      <4>2. LastStatusIs(Tail(b), v)
        BY <1>1, <1>2, <2>1, <3>2, <4>1, StatusOfTail DEF b
      <4> QED
        BY <1>2, <1>3, <4>1, <4>2, LastStatusIsSent
    <3> QED
      BY <3>1, <3>2
  <2>3. UNCHANGED shown
    BY <1>4, <1>10
  <2>4. UNCHANGED coming
    BY <1>4, <2>1 DEF b
  <2> QED
    BY <1>1, <1>7, <1>8, <1>9, <2>2, <2>3, <2>4 DEF Feed!feedVars
<1>11. CASE h.type = "mint_status"
  <2>1. PICK v \in Nat : LastStatusIs(b, v)
    BY <1>1, <1>2, <1>6, <1>11, StatusOfTail DEF Known, b, h
  <2>2. /\ Statuses(b) # {} /\ LastStatus(b, page[p].version) = v
    BY <1>2, <2>1, LastStatusIsSent
  <2>3. IF Statuses(Tail(b)) = {} THEN h.version = v ELSE LastStatusIs(Tail(b), v)
    BY <1>1, <1>2, <2>1, StatusOfTail DEF b, h
  <2>4. LastStatus(Tail(b), page'[p].version) = v
    <3>1. CASE Statuses(Tail(b)) = {}
      BY <1>4, <1>11, <2>3, <3>1 DEF LastStatus
    <3>2. CASE Statuses(Tail(b)) # {}
      BY <1>3, <2>3, <3>2, LastStatusIsSent
    <3> QED
      BY <3>1, <3>2
  <2>5. UNCHANGED sent /\ sent[p] = v
    BY <1>9, <2>2, <2>4 DEF b
  <2>6. p \in coming
    BY <2>2 DEF b
  <2>7. shown' = [shown EXCEPT ![p] = h.version] /\ h.version \in 0 .. version
    BY <1>4, <1>6, <1>11
  <2>8. UNCHANGED coming \/ (coming' = coming \ {p} /\ shown'[p] = sent[p])
    <3>1. CASE Statuses(Tail(b)) = {}
      <4>1. coming' = coming \ {p}
        BY <1>4, <3>1
      <4>2. shown'[p] = sent[p]
        BY <1>4, <1>11, <2>3, <2>5, <3>1
      <4> QED
        BY <4>1, <4>2
    <3>2. CASE Statuses(Tail(b)) # {}
      BY <1>4, <2>2, <3>2 DEF b
    <3> QED
      BY <3>1, <3>2
  <2>9. Feed!Show(p)
    BY <1>1, <1>8, <2>5, <2>6, <2>7, <2>8 DEF Feed!Show
  <2> QED
    BY <1>7, <2>9
<1> QED
  BY <1>10, <1>11

LEMMA FeedStep ==
  ASSUME PagesInv, Shown, [Next]_vars
  PROVE  [Feed!Next]_(Feed!feedVars) /\ Shown'
<1>0. ASSUME UNCHANGED <<conn, inbox, page, queue, version>>
      PROVE  UNCHANGED Feed!feedVars /\ Shown'
  BY <1>0, SamePages DEF Feed!feedVars, Shown, Known, Statuses, LastStatusIs
<1>1. CASE UNCHANGED vars
  BY <1>0, <1>1 DEF vars, hub, sources
<1>2. CASE \E s \in Sales : InsertSale(s) \/ CountIsStored(s)
  BY <1>0, <1>2 DEF InsertSale, CountIsStored, hub
<1>3. CASE \/ \E k \in Conns : Heartbeat(k) \/ CloseFires(k) \/ GoesSilent(k)
           \/ \E p \in Pages : FetchAnswers(p) \/ StreamErrors(p) \/ Recover(p)
  <2>1. UNCHANGED <<queue, version>>
    BY <1>3 DEF Heartbeat, CloseFires, GoesSilent, FetchAnswers, StreamErrors, Recover,
       hub, sources
  <2>2. Quieter
    BY <1>3, ConnectionKeeps, FetchKeeps, HangsKeeps
  <2> QED
    BY <2>1, <2>2, QuieterLeaves DEF Feed!Next
<1>4. CASE EmitMintStatus
  BY <1>4, StatusChanges DEF Feed!Next
<1>5. CASE BatchTimerFires
  BY <1>5, TimerDelivers DEF Feed!Next
<1>6. CASE \E s \in Sales : EmitSale(s) \/ CountResolves(s) \/ Enriches(s) \/ RetryResolves(s)
  BY <1>6, SaleDelivers DEF Feed!Next
<1>7. CASE \E p \in Pages : Connect(p)
  BY <1>7, ConnectJoins DEF Feed!Next
<1>8. CASE \E p \in Pages : Receives(p)
  BY <1>8, ReceivesShows DEF Feed!Next
<1> QED
  BY <1>1, <1>2, <1>3, <1>4, <1>5, <1>6, <1>7, <1>8 DEF Next

LEMMA ShownInvariant == Spec => []Shown
<1>1. Init => Shown
  <2> SUFFICES ASSUME Init PROVE Shown
    OBVIOUS
  <2>1. Known(<<>>, 0)
    BY DEF Known, Statuses
  <2> QED
    BY <2>1 DEF Init, Shown
<1>2. PagesInv /\ Shown /\ [Next]_vars => Shown'
  BY FeedStep
<1> QED
  BY <1>1, <1>2, PagesInvariant, PTL DEF Spec

\* Replay, batches, caps, evictions, sockets that die unnoticed and pages that
\* take one frame after the other amount to a feed of the row: who joins is
\* sent the row, every delivery sends it to all who still listen, a page comes
\* to show what it was sent last, and nothing else changes what it shows.
THEOREM HubImplementsRowFeed == Spec => ImplementsRowFeed
<1>1. Init => Feed!Init
  <2> SUFFICES ASSUME Init
               PROVE  Feed!Init
    OBVIOUS
  <2>1. Statuses(<<>>) = {} /\ \A p \in Pages : ~ Hears(p) /\ page[p].version = 0
    BY DEF Init, Statuses, Hears
  <2>2. \A p \in Pages : LastStatus(inbox[p], page[p].version) = 0 /\ Statuses(inbox[p]) = {}
    BY <2>1 DEF Init, LastStatus
  <2> QED
    BY <2>1, <2>2 DEF Init, Feed!Init
<1>2. PagesInv /\ Shown /\ [Next]_vars => [Feed!Next]_(Feed!feedVars)
  BY FeedStep
<1> QED
  BY <1>1, <1>2, PagesInvariant, ShownInvariant, PTL DEF Spec, ImplementsRowFeed, Feed!Spec

\* A page of /mints shows a version the row had, and once nothing about the row
\* is queued or on its way to it the row as the accumulator has it, if it can
\* be reached.
THEOREM PagesShowTheRow == Spec => []Feed!OnlyTheRow
<1>1. PagesInv /\ Shown => Feed!OnlyTheRow
  <2> SUFFICES ASSUME PagesInv, Shown PROVE Feed!OnlyTheRow
    OBVIOUS
  <2>1. ASSUME NEW p \in Pages, Hears(p), Statuses(queue) = {}, Statuses(inbox[p]) = {}
        PROVE  page[p].version = version
    <3>1. Statuses(inbox[p] \o queue) = {}
      BY <2>1, RowIsServed, StatusOfJoined
    <3> QED
      BY <2>1, <3>1 DEF PagesInv, AllServed, Served
  <2> QED
    BY <2>1 DEF Shown, Feed!OnlyTheRow
<1> QED
  BY <1>1, PagesInvariant, ShownInvariant, PTL

=============================================================================
