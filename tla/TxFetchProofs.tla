--------------------------- MODULE TxFetchProofs ---------------------------
(* The transaction fetch, for every set of callers and all thresholds: what *)
(* the dedupe, the caches and the cooldown refuse is never the sale itself. *)
EXTENDS TxFetch, TLAPS

Steps == {"idle", "awaiting", "inserting", "accurate", "guessed", "done"}

\* What a request or a caller on its way into fetchRawTx may disturb.
FetchTypes ==
  /\ pc \in [Callers -> Steps]
  /\ rpc \in Requests \cup {NoRpc}
  /\ inFlight \in [Scopes -> BOOLEAN] /\ recent \in [Scopes -> BOOLEAN]
  /\ cached \in BOOLEAN /\ neg \in BOOLEAN /\ nulls \in 0 .. NegMinNulls - 1
  /\ delivered \subseteq Scopes

OtherTypes ==
  /\ active \in BOOLEAN /\ cool \in BOOLEAN /\ noted \in BOOLEAN
  /\ row \in BOOLEAN /\ crashed \in BOOLEAN
  /\ strikes \in 0 .. CooldownThresh - 1 /\ events \in 0 .. MaxEvents

\* The four invariants lean on one another: a settled request is known to
\* have waiters, a best-effort one to have a row.
Core ==
  /\ FetchTypes /\ InFlightIsHonest /\ RecentMeansDelivered
  /\ BestEffortMeansStored /\ TerminalMeansStored

Inv == Core /\ OtherTypes

LEMMA SplitTypes == TypeOK <=> FetchTypes /\ OtherTypes
BY DEF TypeOK, FetchTypes, OtherTypes, Steps

LEMMA ScopesAreTwo == \A c \in Callers : ScopeOf(c) \in Scopes
BY DEF ScopeOf, Scopes

LEMMA Thresholds ==
  /\ 0 \in 0 .. NegMinNulls - 1 /\ NegMinNulls \in Nat
  /\ 0 \in 0 .. CooldownThresh - 1 /\ CooldownThresh \in Nat
  /\ 0 \in 0 .. MaxEvents /\ MaxEvents \in Nat
<1>1. NegMinNulls \in Nat \ {0} /\ CooldownThresh \in Nat \ {0} /\ MaxEvents \in Nat
  BY FetchAssumption
<1> QED BY <1>1

LEMMA InitInv == Init => Inv
<1> SUFFICES ASSUME Init PROVE Inv
  OBVIOUS
<1>1. FetchTypes
  BY Thresholds DEF Init, FetchTypes, Steps, Unmarked
<1>2. OtherTypes
  BY Thresholds DEF Init, OtherTypes
<1>3. Waiting = {}
  BY DEF Init, Waiting
<1>4. InFlightIsHonest
  BY <1>3 DEF Init, InFlightIsHonest, Unmarked
<1>5. RecentMeansDelivered /\ BestEffortMeansStored /\ TerminalMeansStored
  BY DEF Init, RecentMeansDelivered, BestEffortMeansStored, TerminalMeansStored, Unmarked, Callers
<1> QED BY <1>1, <1>2, <1>4, <1>5 DEF Inv, Core

----------------------------------------------------------------------------
(* A request that settles.                                                 *)

LEMMA SettleKeeps ==
  ASSUME Core, NEW tx \in BOOLEAN, Settle(tx), UNCHANGED row, UNCHANGED noted
  PROVE  Core'
<1> DEFINE S == {ScopeOf(c) : c \in Waiting}
<1>1. S \subseteq Scopes
  BY ScopesAreTwo DEF Waiting
<1>2. pc' = [c \in Callers |-> IF c \notin Waiting THEN pc[c]
                               ELSE IF tx THEN WithTx(c) ELSE "idle"]
  BY DEF Settle
<1>3. \A c \in Callers : pc'[c] # "awaiting"
  BY <1>2 DEF Waiting, WithTx
<1>4. Waiting' = {}
  BY <1>3 DEF Waiting
<1>5. FetchTypes'
  <2>1. pc' \in [Callers -> Steps]
    BY <1>2 DEF Core, FetchTypes, WithTx, Steps
  <2>2. rpc' \in Requests \cup {NoRpc}
    BY DEF Settle
  <2>3. inFlight' \in [Scopes -> BOOLEAN]
    <3>1. inFlight' = [s \in Scopes |-> inFlight[s] /\ s \notin S]
      BY DEF Settle
    <3> QED BY <3>1
  <2>4. CASE tx
    <3>1. recent' \in [Scopes -> BOOLEAN]
      BY <2>4 DEF Settle, Mark
    <3>2. delivered' \subseteq Scopes
      BY <1>1, <2>4 DEF Settle, Core, FetchTypes
    <3>3. nulls' \in 0 .. NegMinNulls - 1
      BY <2>4, Thresholds DEF Settle
    <3>4. cached' \in BOOLEAN /\ neg' \in BOOLEAN
      BY <2>4 DEF Settle
    <3> QED BY <2>1, <2>2, <2>3, <3>1, <3>2, <3>3, <3>4 DEF FetchTypes
  <2>5. CASE ~tx
    <3>1. nulls' \in 0 .. NegMinNulls - 1
      BY <2>5, Thresholds DEF Settle, Core, FetchTypes
    <3>2. neg' \in BOOLEAN
      BY <2>5 DEF Settle
    <3> QED BY <2>1, <2>2, <2>3, <2>5, <3>1, <3>2 DEF Settle, Core, FetchTypes
  <2> QED BY <2>4, <2>5
<1>6. InFlightIsHonest'
  <2>1. \A s \in Scopes : ~inFlight'[s]
    BY DEF Settle, Core, InFlightIsHonest
  <2> QED BY <1>4, <2>1 DEF InFlightIsHonest, Settle
<1>7. RecentMeansDelivered'
  <2>1. CASE tx
    BY <2>1 DEF Settle, Mark, Core, RecentMeansDelivered
  <2>2. CASE ~tx
    BY <2>2 DEF Settle, Core, RecentMeansDelivered
  <2> QED BY <2>1, <2>2
<1>8. BestEffortMeansStored'
  BY DEF Settle, BestEffortMeansStored
<1>9. TerminalMeansStored'
  <2>1. \A c \in Pollers : pc'[c] = "done" => pc[c] = "done"
    BY <1>2 DEF WithTx, Callers
  <2> QED BY <2>1 DEF Core, TerminalMeansStored
<1> QED BY <1>5, <1>6, <1>7, <1>8, <1>9 DEF Core

----------------------------------------------------------------------------
(* A caller that enters fetchRawTx.                                        *)

LEMMA FetchKeeps ==
  ASSUME Core, NEW c \in Callers, pc[c] \in {"idle", "guessed"},
         NEW best \in BOOLEAN, Fetch(c, best), best => row', row => row'
  PROVE  Core'
<1> DEFINE s == ScopeOf(c)
<1>1. s \in Scopes
  BY ScopesAreTwo
<1>2. UNCHANGED <<cached, neg, nulls, noted>>
  BY DEF Fetch
<1>3. CASE /\ pc' = [pc EXCEPT ![c] = "idle"]
           /\ UNCHANGED <<rpc, inFlight, recent, delivered>>
  <2>1. Waiting' = Waiting
    BY <1>3 DEF Waiting, Core, FetchTypes
  <2> QED BY <1>2, <1>3, <2>1 DEF Core, FetchTypes, Steps, InFlightIsHonest,
             RecentMeansDelivered, BestEffortMeansStored, TerminalMeansStored, Callers
<1>4. CASE /\ pc' = [pc EXCEPT ![c] = WithTx(c)]
           /\ recent' = Mark({s}) /\ delivered' = delivered \cup {s}
           /\ UNCHANGED <<rpc, inFlight>>
  <2>1. Waiting' = Waiting
    BY <1>4 DEF Waiting, Core, FetchTypes, WithTx
  <2>2. recent' \in [Scopes -> BOOLEAN]
    BY <1>4 DEF Mark
  <2>3. FetchTypes'
    BY <1>1, <1>2, <1>4, <2>2 DEF Core, FetchTypes, Steps, WithTx
  <2>4. InFlightIsHonest'
    BY <1>4, <2>1 DEF Core, InFlightIsHonest
  <2>5. RecentMeansDelivered'
    BY <1>4 DEF Core, RecentMeansDelivered, Mark
  <2>6. BestEffortMeansStored' /\ TerminalMeansStored'
    BY <1>2, <1>4 DEF Core, FetchTypes, BestEffortMeansStored, TerminalMeansStored, WithTx, Callers
  <2> QED BY <2>3, <2>4, <2>5, <2>6 DEF Core
<1>5. CASE /\ pc' = [pc EXCEPT ![c] = "awaiting"]
           /\ inFlight' = [inFlight EXCEPT ![s] = TRUE]
           /\ rpc' = IF rpc # NoRpc THEN rpc
                     ELSE [at |-> "queued", by |-> c, best |-> best, tries |-> 0]
           /\ UNCHANGED <<recent, delivered>>
  <2>1. Waiting' = Waiting \cup {c}
    BY <1>5 DEF Waiting, Core, FetchTypes
  <2>2. rpc' \in Requests /\ rpc' # NoRpc
    BY <1>5 DEF Core, FetchTypes, Requests, NoRpc
  <2>3. FetchTypes'
    BY <1>1, <1>2, <1>5, <2>2 DEF Core, FetchTypes, Steps
  <2>4. InFlightIsHonest'
    BY <1>1, <1>5, <2>1, <2>2 DEF Core, FetchTypes, InFlightIsHonest
  <2>5. RecentMeansDelivered' /\ TerminalMeansStored'
    BY <1>2, <1>5 DEF Core, FetchTypes, RecentMeansDelivered, TerminalMeansStored, Callers
  <2>6. BestEffortMeansStored'
    BY <1>5 DEF Core, BestEffortMeansStored
  <2> QED BY <2>3, <2>4, <2>5, <2>6 DEF Core
<1> QED BY <1>3, <1>4, <1>5 DEF Fetch

\* Steps that touch neither the waiting callers nor the request.
LEMMA QuietKeeps ==
  ASSUME Core, FetchTypes', UNCHANGED <<rpc, inFlight>>, Waiting' = Waiting,
         row => row', RecentMeansDelivered', TerminalMeansStored'
  PROVE  Core'
BY DEF Core, InFlightIsHonest, BestEffortMeansStored

LEMMA AgainKeeps == ASSUME Core, rpc # NoRpc, Again, UNCHANGED <<row, noted>> PROVE Core'
<1>1. rpc \in Requests
  BY DEF Core, FetchTypes
<1>2. rpc' \in Requests /\ rpc'.best = rpc.best
  <2>1. rpc.by \in Callers /\ rpc.best \in BOOLEAN /\ rpc.tries + 1 \in Nat
    BY <1>1 DEF Requests
  <2>2. rpc' = [at |-> "wait", by |-> rpc.by, best |-> rpc.best, tries |-> rpc.tries + 1]
    BY <1>1 DEF Again, Requests
  <2> QED BY <2>1, <2>2 DEF Requests
<1>3. rpc' # NoRpc
  BY <1>1 DEF Again, Requests, NoRpc
<1> QED BY <1>2, <1>3 DEF Again, caches, Core, FetchTypes, InFlightIsHonest, Waiting,
           RecentMeansDelivered, BestEffortMeansStored, TerminalMeansStored

LEMMA CallKeeps ==
  ASSUME Core, rpc # NoRpc, rpc' = [rpc EXCEPT !.at = "call"],
         UNCHANGED <<pc, caches, row, noted>>
  PROVE  Core'
<1>1. rpc' \in Requests /\ rpc' # NoRpc /\ rpc'.best = rpc.best
  BY DEF Core, FetchTypes, Requests, NoRpc
<1> QED BY <1>1 DEF caches, Core, FetchTypes, InFlightIsHonest, Waiting,
           RecentMeansDelivered, BestEffortMeansStored, TerminalMeansStored

----------------------------------------------------------------------------
(* The steps of the request.                                               *)

LEMMA HasRequest == ASSUME rpc.at \in {"queued", "call", "wait"} PROVE rpc # NoRpc
BY DEF NoRpc

LEMMA RequestKeeps ==
  ASSUME Core, \/ Slot \/ ShedLow \/ Answer \/ NoResult \/ NotJson
               \/ RateLimited \/ TimesOut \/ Retry
  PROVE  Core'
<1>1. TRUE \in BOOLEAN /\ FALSE \in BOOLEAN
  OBVIOUS
<1>2. CASE Slot
  <2>1. rpc # NoRpc /\ UNCHANGED <<row, noted>>
    BY <1>2, HasRequest DEF Slot, Others
  <2>2. CASE active /\ ~(rpc.best /\ cool)
    BY <1>2, <2>1, <2>2, CallKeeps DEF Slot
  <2>3. CASE ~(active /\ ~(rpc.best /\ cool))
    BY <1>1, <1>2, <2>1, <2>3, SettleKeeps DEF Slot
  <2> QED BY <2>2, <2>3
<1>3. CASE ShedLow
  BY <1>1, <1>3, SettleKeeps DEF ShedLow, Others
<1>4. CASE Answer
  BY <1>1, <1>4, SettleKeeps DEF Answer
<1>5. CASE NoResult
  <2>1. rpc # NoRpc /\ UNCHANGED <<row, noted>>
    BY <1>5, HasRequest DEF NoResult, Others
  <2>2. CASE rpc.by \in Patient /\ rpc.tries = 0
    BY <1>5, <2>1, <2>2, AgainKeeps DEF NoResult
  <2>3. CASE ~(rpc.by \in Patient /\ rpc.tries = 0)
    BY <1>1, <1>5, <2>1, <2>3, SettleKeeps DEF NoResult
  <2> QED BY <2>2, <2>3
<1>6. CASE NotJson
  BY <1>1, <1>6, SettleKeeps DEF NotJson, Others
<1>7. CASE RateLimited
  BY <1>1, <1>7, SettleKeeps DEF RateLimited
<1>8. CASE TimesOut
  <2>1. rpc # NoRpc /\ UNCHANGED <<row, noted>>
    BY <1>8, HasRequest DEF TimesOut, Others
  <2> QED BY <1>8, <2>1, AgainKeeps DEF TimesOut
<1>9. CASE Retry
  <2>1. rpc # NoRpc /\ UNCHANGED <<row, noted>>
    BY <1>9, HasRequest DEF Retry, Others
  <2>2. CASE active
    BY <1>9, <2>1, <2>2, CallKeeps DEF Retry
  <2>3. CASE ~active
    BY <1>1, <1>9, <2>1, <2>3, SettleKeeps DEF Retry
  <2> QED BY <2>2, <2>3
<1> QED BY <1>2, <1>3, <1>4, <1>5, <1>6, <1>7, <1>8, <1>9

LEMMA ThrowKeeps == ASSUME Core, Throws PROVE Core'
<1>1. UNCHANGED row
  BY DEF Throws, Restart
<1>2. PICK stored \in SUBSET Pollers :
        pc' = [c \in Callers |-> IF c \in stored /\ pc[c] = "done" THEN "done" ELSE "idle"]
  BY DEF Throws, Restart
<1>3. FetchTypes'
  BY <1>2, Thresholds DEF Throws, Restart, FetchTypes, Steps, Unmarked
<1>4. Waiting' = {}
  BY <1>2 DEF Waiting
<1>5. InFlightIsHonest'
  BY <1>4 DEF Throws, Restart, InFlightIsHonest, Unmarked
<1>6. RecentMeansDelivered'
  BY DEF Throws, Restart, RecentMeansDelivered, Unmarked
<1>7. BestEffortMeansStored'
  BY DEF Throws, Restart, BestEffortMeansStored
<1>8. TerminalMeansStored'
  <2>1. \A c \in Pollers : pc'[c] = "done" => pc[c] = "done"
    BY <1>2 DEF Callers
  <2> QED BY <1>1, <2>1 DEF Throws, Restart, Core, TerminalMeansStored
<1> QED BY <1>3, <1>5, <1>6, <1>7, <1>8 DEF Core

----------------------------------------------------------------------------
(* The steps of the callers and of the clock.                              *)

LEMMA PollKeeps == ASSUME Core, NEW c \in Pollers, Poll(c) PROVE Core'
<1>1. c \in Callers /\ pc[c] = "idle" /\ UNCHANGED row
  BY DEF Poll, Callers
<1>2. CASE noted
  <2>1. pc' = [pc EXCEPT ![c] = "done"] /\ UNCHANGED <<rpc, caches, noted>>
    BY <1>2 DEF Poll
  <2>2. Waiting' = Waiting
    BY <1>1, <2>1 DEF Waiting, Core, FetchTypes
  <2>3. FetchTypes'
    BY <2>1 DEF Core, FetchTypes, Steps, caches
  <2>4. RecentMeansDelivered' /\ TerminalMeansStored'
    BY <1>1, <1>2, <2>1 DEF Core, RecentMeansDelivered, TerminalMeansStored, caches
  <2> QED BY <1>1, <2>1, <2>2, <2>3, <2>4, QuietKeeps DEF caches
<1>3. CASE ~noted
  <2>1. Fetch(c, FALSE)
    BY <1>3 DEF Poll
  <2>2. pc[c] \in {"idle", "guessed"} /\ FALSE \in BOOLEAN
    BY <1>1
  <2>3. (FALSE => row') /\ (row => row')
    BY <1>1
  <2> QED BY <1>1, <2>1, <2>2, <2>3, FetchKeeps
<1> QED BY <1>2, <1>3

LEMMA FastKeeps ==
  ASSUME Inv, NEW c \in Hooks, \/ Hook(c) \/ FastDone(c) \/ FastThenFetch(c)
  PROVE  Core'
<1>1. c \in Callers
  BY DEF Callers
<1>2. CASE Hook(c)
  <2>1. PICK kind \in {"accurate", "guessed"} : pc' = [pc EXCEPT ![c] = kind]
    BY <1>2 DEF Hook
  <2>2. pc[c] = "idle" /\ UNCHANGED <<rpc, caches, noted, row>>
    BY <1>2 DEF Hook
  <2>3. Waiting' = Waiting
    BY <2>1, <2>2 DEF Waiting, Inv, Core, FetchTypes
  <2>4. FetchTypes'
    BY <2>1, <2>2 DEF Inv, Core, FetchTypes, Steps, caches
  <2>5. RecentMeansDelivered' /\ TerminalMeansStored'
    BY <2>1, <2>2 DEF Inv, Core, FetchTypes, RecentMeansDelivered, TerminalMeansStored, caches, Callers
  <2> QED BY <2>2, <2>3, <2>4, <2>5, QuietKeeps DEF caches, Inv
<1>3. CASE FastDone(c)
  <2>1. /\ pc[c] = "accurate" /\ pc' = [pc EXCEPT ![c] = "idle"]
        /\ UNCHANGED <<rpc, inFlight, cached, neg, nulls, delivered>>
    BY <1>3 DEF FastDone
  <2>2. Waiting' = Waiting
    BY <2>1 DEF Waiting, Inv, Core, FetchTypes
  <2>3. \/ row' = TRUE /\ recent' \in {recent, Mark({"sale"})}
        \/ UNCHANGED <<row, noted, recent>>
    BY <1>3 DEF FastDone
  <2>4. recent' \in [Scopes -> BOOLEAN]
    BY <2>3 DEF Mark, Inv, Core, FetchTypes
  <2>5. FetchTypes'
    BY <2>1, <2>4 DEF Inv, Core, FetchTypes, Steps
  <2>6. RecentMeansDelivered'
    <3>1. CASE row' = TRUE /\ recent' = recent
      BY <2>1, <3>1 DEF Inv, Core, RecentMeansDelivered
    <3>2. CASE row' = TRUE /\ recent' = Mark({"sale"})
      <4>1. \A s \in Scopes : recent'[s] => recent[s] \/ s = "sale"
        BY <3>2 DEF Mark
      <4> QED BY <2>1, <3>2, <4>1 DEF Inv, Core, RecentMeansDelivered
    <3>3. CASE UNCHANGED <<row, noted, recent>>
      BY <2>1, <3>3 DEF Inv, Core, RecentMeansDelivered
    <3> QED BY <2>3, <3>1, <3>2, <3>3
  <2>7. TerminalMeansStored'
    BY <2>1, <2>3 DEF Inv, Core, FetchTypes, TerminalMeansStored, Callers
  <2>8. row => row'
    BY <2>3
  <2> QED BY <2>1, <2>2, <2>5, <2>6, <2>7, <2>8, QuietKeeps DEF Inv
<1>4. CASE FastThenFetch(c)
  <2>1. pc[c] = "guessed" /\ (~row) \in BOOLEAN
    BY <1>4 DEF FastThenFetch, Inv, OtherTypes
  <2>2. CASE row' = TRUE /\ Fetch(c, ~row)
    BY <1>1, <2>1, <2>2, FetchKeeps DEF Inv
  <2>3. CASE UNCHANGED row /\ Fetch(c, FALSE)
    BY <1>1, <2>1, <2>3, FetchKeeps DEF Inv
  <2> QED BY <1>4, <2>2, <2>3 DEF FastThenFetch
<1> QED BY <1>2, <1>3, <1>4

LEMMA InsertKeeps ==
  ASSUME Core, NEW c \in Callers, Stored(c) \/ NotStored(c)
  PROVE  Core'
<1>1. pc[c] = "inserting" /\ UNCHANGED <<rpc, caches>>
  BY DEF Stored, NotStored
<1>2. PICK to \in {"idle", "done"} : pc' = [pc EXCEPT ![c] = to]
  BY DEF Stored, NotStored, Finish
<1>3. Waiting' = Waiting
  BY <1>1, <1>2 DEF Waiting, Core, FetchTypes
<1>4. FetchTypes'
  BY <1>1, <1>2 DEF Core, FetchTypes, Steps, caches
<1>5. row => row'
  BY DEF Stored, NotStored
<1>6. RecentMeansDelivered'
  BY <1>1, <1>5 DEF Core, RecentMeansDelivered, caches
<1>7. TerminalMeansStored'
  BY DEF Stored, NotStored, Core, FetchTypes, TerminalMeansStored, Callers
<1> QED BY <1>1, <1>3, <1>4, <1>5, <1>6, <1>7, QuietKeeps DEF caches

LEMMA ClockKeeps == ASSUME Core, Expiry \/ Resume PROVE Core'
<1>1. UNCHANGED <<rpc, pc, inFlight, delivered, nulls, row>>
  BY DEF Expiry, Resume, CooldownEnds, CacheExpires, NegExpires, OutcomeExpires,
         RecentExpires, caches, Others
<1>2. Waiting' = Waiting
  BY <1>1 DEF Waiting
<1>3. /\ recent' \in [Scopes -> BOOLEAN] /\ \A s \in Scopes : recent'[s] => recent[s]
      /\ cached' \in BOOLEAN /\ neg' \in BOOLEAN /\ (noted' => noted)
  <2>1. CASE \E s \in Scopes : RecentExpires(s)
    <3>1. PICK s \in Scopes : RecentExpires(s)
      BY <2>1
    <3>2. recent' = [recent EXCEPT ![s] = FALSE] /\ UNCHANGED <<cached, neg, noted>>
      BY <3>1 DEF RecentExpires, Others
    <3> QED BY <3>2 DEF Core, FetchTypes
  <2>2. CASE CacheExpires
    <3>1. cached' = FALSE /\ UNCHANGED <<recent, neg, noted>>
      BY <2>2 DEF CacheExpires, Others
    <3> QED BY <3>1 DEF Core, FetchTypes
  <2>3. CASE NegExpires
    <3>1. neg' = FALSE /\ UNCHANGED <<recent, cached, noted>>
      BY <2>3 DEF NegExpires, Others
    <3> QED BY <3>1 DEF Core, FetchTypes
  <2>4. CASE OutcomeExpires
    <3>1. noted' = FALSE /\ UNCHANGED <<recent, cached, neg>>
      BY <2>4 DEF OutcomeExpires, caches
    <3> QED BY <3>1 DEF Core, FetchTypes
  <2>5. CASE CooldownEnds \/ Resume
    <3>1. UNCHANGED <<recent, cached, neg, noted>>
      BY <2>5 DEF CooldownEnds, Resume, caches
    <3> QED BY <3>1 DEF Core, FetchTypes
  <2> QED BY <2>1, <2>2, <2>3, <2>4, <2>5 DEF Expiry
<1>4. FetchTypes'
  BY <1>1, <1>3 DEF Core, FetchTypes
<1>5. RecentMeansDelivered' /\ TerminalMeansStored'
  BY <1>1, <1>3 DEF Core, RecentMeansDelivered, TerminalMeansStored
<1> QED BY <1>1, <1>2, <1>4, <1>5, QuietKeeps

----------------------------------------------------------------------------
LEMMA OthersStep == ASSUME Inv, Next PROVE OtherTypes'
<1> USE DEF Inv, OtherTypes
<1>1. CASE Request
  <2>1. CASE RateLimited
    <3>1. strikes' \in 0 .. CooldownThresh - 1
      BY <2>1, Thresholds DEF RateLimited
    <3> QED BY <2>1, <3>1 DEF RateLimited
  <2>2. CASE Throws
    BY <2>2, Thresholds DEF Throws, Restart
  <2>3. CASE Answer
    BY <2>3, Thresholds DEF Answer
  <2>4. CASE Slot \/ ShedLow \/ NoResult \/ NotJson \/ TimesOut \/ Retry
    <3>1. UNCHANGED Others
      BY <2>4 DEF Slot, ShedLow, NoResult, NotJson, TimesOut, Retry
    <3> QED BY <3>1 DEF Others
  <2> QED BY <1>1, <2>1, <2>2, <2>3, <2>4 DEF Request
<1>2. CASE Ingest
  <2>1. CASE \E c \in Ws \cup Mints : Notice(c)
    BY <2>1, Thresholds DEF Notice, Fetch, Event
  <2>2. CASE \E c \in Pollers : Poll(c)
    BY <2>2 DEF Poll, Fetch
  <2>3. CASE \E c \in Hooks : Hook(c) \/ FastDone(c) \/ FastThenFetch(c)
    <3>1. PICK c \in Hooks : Hook(c) \/ FastDone(c) \/ FastThenFetch(c)
      BY <2>3
    <3>2. CASE Hook(c)
      <4>1. events' \in 0 .. MaxEvents
        BY <3>2, Thresholds DEF Hook, Event
      <4> QED BY <3>2, <4>1 DEF Hook
    <3>3. CASE FastDone(c)
      <4>1. row' \in BOOLEAN /\ noted' \in BOOLEAN
        BY <3>3 DEF FastDone
      <4> QED BY <3>3, <4>1 DEF FastDone
    <3>4. CASE FastThenFetch(c)
      <4>1. UNCHANGED <<active, cool, strikes, noted, crashed, events>>
        BY <3>4 DEF FastThenFetch, Fetch
      <4>2. row' \in BOOLEAN
        BY <3>4 DEF FastThenFetch
      <4> QED BY <4>1, <4>2
    <3> QED BY <3>1, <3>2, <3>3, <3>4
  <2>4. CASE \E c \in Callers : Stored(c) \/ NotStored(c)
    BY <2>4 DEF Stored, NotStored
  <2> QED BY <1>2, <2>1, <2>2, <2>3, <2>4 DEF Ingest
<1>3. CASE SetMode
  BY <1>3, Thresholds DEF SetMode, Event
<1>4. CASE Resume \/ Expiry
  <2>1. CASE \E s \in Scopes : RecentExpires(s)
    BY <2>1 DEF RecentExpires, Others
  <2>2. CASE CooldownEnds
    BY <2>2 DEF CooldownEnds
  <2>3. CASE CacheExpires \/ NegExpires
    BY <2>3 DEF CacheExpires, NegExpires, Others
  <2>4. CASE OutcomeExpires
    BY <2>4 DEF OutcomeExpires
  <2>5. CASE Resume
    BY <2>5 DEF Resume
  <2> QED BY <1>4, <2>1, <2>2, <2>3, <2>4, <2>5 DEF Expiry
<1> QED BY <1>1, <1>2, <1>3, <1>4 DEF Next

LEMMA SetModeKeeps == ASSUME Core, SetMode PROVE Core'
<1>1. UNCHANGED <<row, noted>>
  BY DEF SetMode
<1>2. CASE rpc.at = "queued"
  <2>1. FALSE \in BOOLEAN /\ Settle(FALSE)
    BY <1>2 DEF SetMode
  <2> QED BY <1>1, <2>1, SettleKeeps
<1>3. CASE rpc.at # "queued"
  <2>1. UNCHANGED <<rpc, pc, caches>>
    BY <1>3 DEF SetMode
  <2>2. Waiting' = Waiting
    BY <2>1 DEF Waiting
  <2>3. FetchTypes' /\ RecentMeansDelivered' /\ TerminalMeansStored'
    BY <1>1, <2>1 DEF Core, FetchTypes, RecentMeansDelivered, TerminalMeansStored, caches
  <2> QED BY <1>1, <2>1, <2>2, <2>3, QuietKeeps DEF caches
<1> QED BY <1>2, <1>3

LEMMA StepKeeps == Inv /\ [Next]_vars => Inv'
<1> SUFFICES ASSUME Inv, [Next]_vars PROVE Inv'
  OBVIOUS
<1>1. CASE Next
  <2>1. OtherTypes'
    BY <1>1, OthersStep
  <2>2. Core
    BY DEF Inv
  <2>3. CASE Request
    BY <2>1, <2>2, <2>3, RequestKeeps, ThrowKeeps DEF Request, Inv
  <2>4. CASE Ingest
    <3>1. CASE \E c \in Ws \cup Mints : Notice(c)
      <4>1. PICK c \in Ws \cup Mints : Notice(c)
        BY <3>1
      <4>2. c \in Callers /\ pc[c] = "idle" /\ UNCHANGED row /\ Fetch(c, FALSE)
        BY <4>1 DEF Notice, Callers
      <4> QED BY <2>1, <2>2, <4>2, FetchKeeps DEF Inv
    <3>2. CASE \E c \in Pollers : Poll(c)
      BY <2>1, <2>2, <3>2, PollKeeps DEF Inv
    <3>3. CASE \E c \in Hooks : Hook(c) \/ FastDone(c) \/ FastThenFetch(c)
      BY <2>1, <3>3, FastKeeps DEF Inv
    <3>4. CASE \E c \in Callers : Stored(c) \/ NotStored(c)
      BY <2>1, <2>2, <3>4, InsertKeeps DEF Inv
    <3> QED BY <2>4, <3>1, <3>2, <3>3, <3>4 DEF Ingest
  <2>5. CASE SetMode
    BY <2>1, <2>2, <2>5, SetModeKeeps DEF Inv
  <2>6. CASE Resume \/ Expiry
    BY <2>1, <2>2, <2>6, ClockKeeps DEF Inv
  <2> QED BY <1>1, <2>3, <2>4, <2>5, <2>6 DEF Next
<1>2. CASE UNCHANGED vars
  BY <1>2 DEF vars, caches, Inv, Core, FetchTypes, OtherTypes, InFlightIsHonest, Waiting,
             RecentMeansDelivered, BestEffortMeansStored, TerminalMeansStored
<1> QED BY <1>1, <1>2

LEMMA InvHolds == Spec => []Inv
BY InitInv, StepKeeps, PTL DEF Spec

----------------------------------------------------------------------------
\* The fetch keeps its types, and its counters their thresholds.
THEOREM TypeCorrect == Spec => []TypeOK
<1>1. Inv => TypeOK
  BY SplitTypes DEF Inv, Core
<1> QED BY <1>1, InvHolds, PTL

\* No caller waits for nothing, and no scope is shut without a caller in
\* it (the finally blocks of fetchRawTx).
THEOREM NobodyIsLeftWaiting == Spec => []InFlightIsHonest
<1>1. Inv => InFlightIsHonest
  BY DEF Inv, Core
<1> QED BY <1>1, InvHolds, PTL

\* One scope never blocks the other (recentByScope).
THEOREM ScopesAreApart == Spec => []RecentMeansDelivered
<1>1. Inv => RecentMeansDelivered
  BY DEF Inv, Core
<1> QED BY <1>1, InvHolds, PTL

\* What the cooldown silences is a correction of a stored sale.
THEOREM CooldownCostsNoSale == Spec => []BestEffortMeansStored
<1>1. Inv => BestEffortMeansStored
  BY DEF Inv, Core
<1> QED BY <1>1, InvHolds, PTL

\* A terminal outcome stands for a row, across failures and crashes.
THEOREM TerminalIsStored == Spec => []TerminalMeansStored
<1>1. Inv => TerminalMeansStored
  BY DEF Inv, Core
<1> QED BY <1>1, InvHolds, PTL
=============================================================================
