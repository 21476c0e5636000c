------------------------------ MODULE TxFetch ------------------------------
(***************************************************************************)
(* Fetching the transaction of one sale and storing it.  The websocket,    *)
(* the poller, the webhook and the mint trackers learn of the signature    *)
(* on their own; a dedupe per scope, a cache, a negative cache and one     *)
(* shared request keep them from asking the node twice, and a cooldown     *)
(* after rate limits silences the optional corrections.  What may never    *)
(* happen is that these savings, a failed insert or a crash lose the sale. *)
(***************************************************************************)
EXTENDS Naturals

CONSTANTS
  Ws,               \* sale callers without a retry: one per notification
  Pollers,          \* sale callers that retry what is not terminal
  Hooks,            \* webhook callers, which bring a parsed sale along
  Mints,            \* callers of the mint scope, of low priority
  Patient,          \* those whose source is sale_ws or mint_ws
  PrimaryRetries,   \* PRIMARY_RETRY_ATTEMPTS
  RawpatchRetries,  \* RAWPATCH_RETRY_ATTEMPTS
  CooldownThresh,   \* COOLDOWN_THRESH
  NegMinNulls,      \* NEG_TX_MIN_NULLS
  MaxEvents         \* bound on notifications, webhook calls and mode changes

Callers == Ws \cup Pollers \cup Hooks \cup Mints
Scopes == {"sale", "mint"}

ASSUME FetchAssumption ==
  /\ (Ws \cup Pollers \cup Hooks) \cap Mints = {}
  /\ Patient \subseteq Ws \cup Mints
  /\ {RawpatchRetries, MaxEvents} \subseteq Nat
  /\ {PrimaryRetries, CooldownThresh, NegMinNulls} \subseteq Nat \ {0}

VARIABLES
  active,           \* isAnyIngestActive()
  pc,               \* where each caller is in ingestMeRaw
  rpc,              \* the entry of sharedRpcInFlight
  inFlight, recent, \* inFlightByScope, recentByScope
  cached,           \* the transaction is in txCache
  neg, nulls,       \* in negTxCache; negTxNullCount
  cool, strikes,    \* Date.now() < cooldownUntil; consecutive429s
  noted,            \* a terminal outcome is remembered (sig-terminal.ts)
  row,              \* sale_events has the row
  delivered,        \* history: scopes that got the transaction since the boot
  crashed,          \* history: an unhandled rejection ended the process
  events

caches == <<inFlight, recent, cached, neg, nulls, delivered>>
vars == <<active, pc, rpc, caches, cool, strikes, noted, row, crashed, events>>

ScopeOf(c) == IF c \in Mints THEN "mint" ELSE "sale"

NoRpc == [at |-> "none"]
Requests == [at : {"queued", "call", "wait"}, by : Callers, best : BOOLEAN, tries : Nat]

Unmarked == [s \in Scopes |-> FALSE]

Init ==
  /\ rpc = NoRpc /\ inFlight = Unmarked /\ recent = Unmarked /\ cached = FALSE
  /\ neg = FALSE /\ nulls = 0 /\ cool = FALSE /\ strikes = 0
  /\ noted = FALSE /\ delivered = {} /\ active = TRUE /\ row = FALSE
  /\ pc = [c \in Callers |-> "idle"]
  /\ crashed = FALSE /\ events = 0

Event == events < MaxEvents /\ events' = events + 1

----------------------------------------------------------------------------
(* fetchRawTx up to its await.                                             *)

Refused(c, best) ==
  \/ ~active
  \/ best /\ cool
  \/ recent[ScopeOf(c)] \/ inFlight[ScopeOf(c)]
  \/ neg /\ ~cached

\* The scopes without their own marks: whoever fetched, all have it.
Mark_AllScopes(S) == [s \in Scopes |-> recent[s] \/ S # {}]

Mark(S) == [s \in Scopes |-> recent[s] \/ s \in S]

\* Where a caller goes on with its transaction: mints need no row of sales.
WithTx(c) == IF c \in Mints THEN "idle" ELSE "inserting"

Fetch(c, best) ==
  LET s == ScopeOf(c) IN
  /\ \/ /\ Refused(c, best)
        /\ pc' = [pc EXCEPT ![c] = "idle"]
        /\ UNCHANGED <<rpc, inFlight, recent, delivered>>
     \/ /\ ~Refused(c, best) /\ cached
        /\ pc' = [pc EXCEPT ![c] = WithTx(c)]
        /\ recent' = Mark({s}) /\ delivered' = delivered \cup {s}
        /\ UNCHANGED <<rpc, inFlight>>
     \/ /\ ~Refused(c, best) /\ ~cached
        /\ pc' = [pc EXCEPT ![c] = "awaiting"]
        /\ inFlight' = [inFlight EXCEPT ![s] = TRUE]
        /\ rpc' = IF rpc # NoRpc THEN rpc
                  ELSE [at |-> "queued", by |-> c, best |-> best, tries |-> 0]
        /\ UNCHANGED <<recent, delivered>>
  /\ UNCHANGED <<cached, neg, nulls, active, cool, strikes, noted, crashed>>

Waiting == {c \in Callers : pc[c] = "awaiting"}

\* Without the finally of the in-flight entry, a null leaves the scope shut.
Settle_Leaks(tx) ==
  LET S == {ScopeOf(c) : c \in Waiting} IN
  /\ rpc' = NoRpc
  /\ inFlight' = [s \in Scopes |-> inFlight[s] /\ (tx => s \notin S)]
  /\ pc' = [c \in Callers |-> IF c \notin Waiting THEN pc[c]
                              ELSE IF tx THEN WithTx(c) ELSE "idle"]
  /\ IF tx
     THEN /\ cached' = TRUE /\ recent' = Mark(S) /\ delivered' = delivered \cup S
          /\ neg' = FALSE /\ nulls' = 0
     ELSE UNCHANGED <<neg, nulls, cached, recent, delivered>>

\* The shared promise settles with a transaction or null, and every caller
\* that awaits it goes on before anything else happens.
Settle(tx) ==
  LET S == {ScopeOf(c) : c \in Waiting} IN
  /\ rpc' = NoRpc
  /\ inFlight' = [s \in Scopes |-> inFlight[s] /\ s \notin S]
  /\ pc' = [c \in Callers |-> IF c \notin Waiting THEN pc[c]
                              ELSE IF tx THEN WithTx(c) ELSE "idle"]
  /\ IF tx
     THEN /\ cached' = TRUE /\ recent' = Mark(S) /\ delivered' = delivered \cup S
          /\ neg' = FALSE /\ nulls' = 0
     ELSE /\ neg' = (neg \/ nulls + 1 >= NegMinNulls)
          /\ nulls' = IF nulls + 1 >= NegMinNulls THEN 0 ELSE nulls + 1
          /\ UNCHANGED <<cached, recent, delivered>>

Others == <<active, cool, strikes, noted, row, crashed, events>>

----------------------------------------------------------------------------
(* The request: its place in rpcLimiter, the call and its retries.         *)

Slot ==
  /\ rpc.at = "queued"
  /\ IF active /\ ~(rpc.best /\ cool)
     THEN rpc' = [rpc EXCEPT !.at = "call"] /\ UNCHANGED <<pc, caches>>
     ELSE Settle(FALSE)
  /\ UNCHANGED Others

\* The limiter drops a low task that has waited too long.
ShedLow ==
  /\ rpc.at = "queued" /\ rpc.by \in Mints /\ Settle(FALSE)
  /\ UNCHANGED Others

Retries(best) == IF best THEN RawpatchRetries ELSE PrimaryRetries

Again == rpc' = [rpc EXCEPT !.at = "wait", !.tries = @ + 1] /\ UNCHANGED <<pc, caches>>

Answer ==
  /\ rpc.at = "call" /\ Settle(TRUE) /\ strikes' = 0
  /\ UNCHANGED <<active, cool, noted, row, crashed, events>>

\* Not indexed yet: a websocket's caller asks once more.
NoResult ==
  /\ rpc.at = "call"
  /\ IF rpc.by \in Patient /\ rpc.tries = 0
     THEN Again ELSE Settle(FALSE)
  /\ UNCHANGED Others

\* An HTML page of a proxy.
NotJson == rpc.at = "call" /\ Settle(FALSE) /\ UNCHANGED Others

RateLimited ==
  /\ rpc.at = "call" /\ Settle(FALSE)
  /\ cool' = (cool \/ strikes + 1 >= CooldownThresh)
  /\ strikes' = IF strikes + 1 >= CooldownThresh THEN 0 ELSE strikes + 1
  /\ UNCHANGED <<active, noted, row, crashed, events>>

TimesOut ==
  /\ rpc.at = "call" /\ rpc.tries < Retries(rpc.best) /\ Again
  /\ UNCHANGED Others

Retry ==
  /\ rpc.at = "wait"
  /\ IF active THEN rpc' = [rpc EXCEPT !.at = "call"] /\ UNCHANGED <<pc, caches>>
                ELSE Settle(FALSE)
  /\ UNCHANGED Others

\* The process ends and pm2 starts it again.  A poller that was done stays
\* so if its cursor was stored.
Restart ==
  /\ rpc' = NoRpc /\ inFlight' = Unmarked /\ recent' = Unmarked /\ cached' = FALSE
  /\ neg' = FALSE /\ nulls' = 0 /\ cool' = FALSE /\ strikes' = 0
  /\ noted' = FALSE /\ delivered' = {} /\ active' \in BOOLEAN
  /\ \E stored \in SUBSET Pollers :
       pc' = [c \in Callers |-> IF c \in stored /\ pc[c] = "done" THEN "done" ELSE "idle"]
  /\ UNCHANGED <<row, events>>

\* The last timeout, an RPC error or a broken connection throws.  Callers
\* catch it, but pending.finally() makes a promise that nobody catches.
Throws ==
  /\ rpc.at = "call" /\ Restart /\ crashed' = TRUE

----------------------------------------------------------------------------
(* ingestMeRaw.                                                            *)

\* A notification, or a mint tracker's turn.
Notice(c) ==
  /\ pc[c] = "idle" /\ Event /\ Fetch(c, FALSE) /\ UNCHANGED row

\* What dispatchMmmDeferredAwaitable does in the lean modes: a fetch under
\* way or a fresh one passes for a duplicate.
Poll_RecentIsDone(c) ==
  /\ pc[c] = "idle"
  /\ IF noted \/ recent["sale"] \/ inFlight["sale"]
     THEN /\ pc' = [pc EXCEPT ![c] = "done"]
          /\ UNCHANGED <<rpc, caches, active, cool, strikes, noted, crashed>>
     ELSE Fetch(c, FALSE)
  /\ UNCHANGED <<row, events>>

\* The poller comes back until it knows a terminal outcome.
Poll(c) ==
  /\ pc[c] = "idle"
  /\ IF noted
     THEN /\ pc' = [pc EXCEPT ![c] = "done"]
          /\ UNCHANGED <<rpc, caches, active, cool, strikes, noted, crashed>>
     ELSE Fetch(c, FALSE)
  /\ UNCHANGED <<row, events>>

\* The webhook's sale is accurate (events.nft) or guessed from transfers.
Hook(c) ==
  /\ pc[c] = "idle" /\ Event
  /\ \E kind \in {"accurate", "guessed"} : pc' = [pc EXCEPT ![c] = kind]
  /\ UNCHANGED <<rpc, caches, active, cool, strikes, noted, row, crashed>>

\* The fast insert of an accurate sale settles; that is all there is to do.
FastDone(c) ==
  /\ pc[c] = "accurate" /\ pc' = [pc EXCEPT ![c] = "idle"]
  /\ \/ row' = TRUE /\ noted' = TRUE
        /\ recent' = IF row THEN recent ELSE Mark({"sale"})
     \/ UNCHANGED <<row, noted, recent>>
  /\ UNCHANGED <<rpc, inFlight, cached, neg, nulls, delivered, active, cool, strikes,
                 crashed, events>>

\* A correction whenever the webhook brought a sale, stored or not.
FastThenFetch_AlwaysBest(c) ==
  /\ pc[c] = "guessed"
  /\ row' \in {row, TRUE}
  /\ Fetch(c, TRUE)
  /\ UNCHANGED events

\* A guessed sale needs the fetch: a correction if it was inserted now,
\* the ingestion itself if the insert failed.
FastThenFetch(c) ==
  /\ pc[c] = "guessed"
  /\ \/ row' = TRUE /\ Fetch(c, ~row)
     \/ UNCHANGED row /\ Fetch(c, FALSE)
  /\ UNCHANGED events

Finish(c) == pc' = [pc EXCEPT ![c] = IF c \in Pollers THEN "done" ELSE "idle"]

\* An insert that throws taken for a conflict.
Stored_ThrowIsDuplicate(c) ==
  /\ pc[c] = "inserting"
  /\ row' \in {row, TRUE} /\ noted' = TRUE /\ Finish(c)
  /\ UNCHANGED <<rpc, caches, active, cool, strikes, crashed, events>>

\* insertSaleEvent inserts, finds the row (both are terminal) or throws.
Stored(c) ==
  /\ pc[c] = "inserting"
  /\ row' = TRUE /\ noted' = TRUE /\ Finish(c)
  /\ UNCHANGED <<rpc, caches, active, cool, strikes, crashed, events>>

NotStored(c) ==
  /\ pc[c] = "inserting"
  /\ pc' = [pc EXCEPT ![c] = "idle"]
  /\ UNCHANGED <<rpc, caches, active, cool, strikes, noted, row, crashed, events>>

----------------------------------------------------------------------------
(* The mode and the clock.                                                 *)

\* stopAmmPoller drops everything that waits in rpcLimiter.
SetMode ==
  /\ Event /\ active' \in BOOLEAN
  /\ IF rpc.at = "queued" THEN Settle(FALSE) ELSE UNCHANGED <<rpc, pc, caches>>
  /\ UNCHANGED <<cool, strikes, noted, row, crashed>>

Resume ==
  /\ ~active /\ active' = TRUE
  /\ UNCHANGED <<pc, rpc, caches, cool, strikes, noted, row, crashed, events>>

CooldownEnds ==
  /\ cool /\ cool' = FALSE
  /\ UNCHANGED <<active, pc, rpc, caches, strikes, noted, row, crashed, events>>

RecentExpires(s) ==
  /\ recent[s] /\ recent' = [recent EXCEPT ![s] = FALSE]
  /\ UNCHANGED <<inFlight, cached, neg, nulls, delivered, pc, rpc, Others>>

CacheExpires ==
  /\ cached /\ cached' = FALSE
  /\ UNCHANGED <<inFlight, recent, neg, nulls, delivered, pc, rpc, Others>>

NegExpires ==
  /\ neg /\ neg' = FALSE
  /\ UNCHANGED <<inFlight, recent, cached, nulls, delivered, pc, rpc, Others>>

OutcomeExpires ==
  /\ noted /\ noted' = FALSE
  /\ UNCHANGED <<active, pc, rpc, caches, cool, strikes, row, crashed, events>>

Expiry ==
  \/ CooldownEnds \/ CacheExpires \/ NegExpires \/ OutcomeExpires
  \/ \E s \in Scopes : RecentExpires(s)

Request ==
  Slot \/ ShedLow \/ Answer \/ NoResult \/ NotJson \/ RateLimited \/ TimesOut \/ Retry \/ Throws

Ingest ==
  \/ \E c \in Ws \cup Mints : Notice(c)
  \/ \E c \in Pollers : Poll(c)
  \/ \E c \in Hooks : Hook(c) \/ FastDone(c) \/ FastThenFetch(c)
  \/ \E c \in Callers : Stored(c) \/ NotStored(c)

Next == Request \/ Ingest \/ SetMode \/ Resume \/ Expiry

Spec == Init /\ [][Next]_vars

\* The poller sweeps again and again, requests and inserts settle and the
\* time to live of everything runs out.  A request that is made again and
\* again gets a slot and an answer some time, and an insert a database.
Fairness ==
  /\ WF_vars(Request) /\ SF_vars(Slot) /\ SF_vars(Answer) /\ WF_vars(Resume)
  /\ WF_vars(CooldownEnds) /\ WF_vars(NegExpires) /\ WF_vars(RecentExpires("sale"))
  /\ \A c \in Pollers : SF_vars(Poll(c))
  /\ \A c \in Hooks : WF_vars(FastDone(c)) /\ WF_vars(FastThenFetch(c))
  /\ \A c \in Callers : SF_vars(Stored(c))

FairSpec == Spec /\ Fairness

----------------------------------------------------------------------------
\* The state of the fetch and of its callers keeps its shape; the counters
\* stay below the thresholds at which they are reset (onRateLimitExhausted,
\* negTxNullCount).
TypeOK ==
  /\ {active, cached, neg, cool, noted, row, crashed} \subseteq BOOLEAN
  /\ pc \in [Callers -> {"idle", "awaiting", "inserting", "accurate", "guessed", "done"}]
  /\ rpc \in Requests \cup {NoRpc}
  /\ {inFlight, recent} \subseteq [Scopes -> BOOLEAN]
  /\ nulls \in 0 .. NegMinNulls - 1 /\ strikes \in 0 .. CooldownThresh - 1
  /\ delivered \subseteq Scopes /\ events \in 0 .. MaxEvents

\* A scope is shut by an in-flight entry exactly while one of its callers
\* waits, and whoever waits has a request that will settle: no caller is
\* left out of the finally, and no signature is blocked for good.
InFlightIsHonest ==
  /\ \A s \in Scopes : inFlight[s] <=> \E c \in Waiting : ScopeOf(c) = s
  /\ Waiting # {} <=> rpc # NoRpc

\* A scope that calls the signature recent had its transaction in this
\* process, or the webhook stored the sale: a mint tracker's fetch never
\* hides a sale from the sale scope, nor the other way round.
RecentMeansDelivered ==
  \A s \in Scopes : recent[s] => s \in delivered \/ (s = "sale" /\ row)

\* A request that may be skipped in the cooldown, and that is retried less,
\* only corrects a sale that is already stored.
BestEffortMeansStored == rpc # NoRpc /\ rpc.best => row

\* A remembered terminal outcome, and a poller that lets its cursor pass,
\* mean that the row exists, across failed inserts and crashes.
TerminalMeansStored == noted \/ (\E c \in Pollers : pc[c] = "done") => row

\* Whatever the caches refuse and however often the process dies, the
\* poller brings the sale home and lets go of it.
SaleIsStored == <>[](row /\ \A c \in Pollers : pc[c] = "done")

\* "Never throws: all errors are logged and swallowed" (ingest.ts:745): a
\* failed request is not the end of the process.
ErrorsAreSwallowed == ~crashed
=============================================================================
