--------------------------- MODULE ListingsStore ---------------------------
(***************************************************************************)
(* The listings of one collection: the store of server/listings-store.ts,  *)
(* its writers, and one collection page.  The store is replaced by         *)
(* snapshots of three marketplaces, which are read, ranked and written in  *)
(* steps far apart; late answers are merged in; sales and the listing      *)
(* stream change single rows meanwhile.  A mint that sold or was delisted  *)
(* is suppressed for a while, because the marketplaces are behind the      *)
(* chain.  Followed is which listing is there, not its price or picture,   *)
(* in a collection whose listings fit the first answer of a marketplace;   *)
(* the frames reach the page as they are sent.                             *)
(***************************************************************************)
EXTENDS Naturals, FiniteSets

CONSTANTS
  Mints, Owners,
  Pool,           \* the MMM pool, which sells what its owner deposits
  Sources,        \* the marketplaces that list, of "ME", "TENSOR" and "MMM"
  NoListing,
  MaxMeRetries,   \* ME_RETRY_DELAYS_MS.length
  MaxMoves,       \* bound on the listings, cancels and sales of the chain
  MaxFaults       \* bound on failed reads, lost messages, rude evictions

ListingsAssumption ==
  /\ Owners # {} /\ Pool \notin Owners /\ Sources \subseteq {"ME", "TENSOR", "MMM"}
  /\ {MaxMeRetries, MaxMoves, MaxFaults} \subseteq Nat

VARIABLES
  owner, listed,  \* environment: who has a mint, what is listed on the chain
  upstream,       \* environment: what the marketplaces and DAS answer
  news,           \* sale events and stream actions on their way, in any order
  rows,           \* byId
  suppressed,     \* suppressedAt, with the reason
  warm,           \* lastTouch has the slug
  fetched,        \* lastFetch has the slug
  snapshot,       \* the task of inFlight
  tensorLast,     \* the Tensor rows of the last answer
  tensorPending,  \* refreshTensorLate
  late,           \* mergeLateOnchain
  meRetry,        \* meRetryAttempts and its timer
  tab,            \* the page
  moves, faults

chainVars == <<owner, listed, upstream, news, moves>>
storeVars == <<rows, suppressed, warm, fetched>>
lateVars == <<tensorLast, tensorPending, late>>
fetchVars == <<snapshot, lateVars, meRetry>>
vars == <<chainVars, storeVars, fetchVars, tab, faults>>

Listing ==
  [src : Sources \ {"MMM"}, mint : Mints, seller : Owners]
    \cup [src : Sources \cap {"MMM"}, mint : Mints, seller : {Pool}]
Of(S, src) == {l \in S : l.src = src}
About(S, m) == {l \in S : l.mint = m}

NoSnapshot == [pc |-> "none", tensor |-> {}, others |-> {}, failed |-> FALSE]
NoAnswer == [pc |-> "none", got |-> {}]

Init ==
  /\ owner = [m \in Mints |-> CHOOSE o \in Owners : TRUE]
  /\ listed = {l \in Listing : l.src = "ME" /\ l.seller = owner[l.mint]}
  /\ upstream = listed /\ news = {} /\ moves = 0
  /\ rows = {} /\ warm = FALSE /\ fetched = FALSE
  /\ suppressed = [m \in Mints |-> "no"]
  /\ snapshot = NoSnapshot /\ tensorLast = {NoListing}
  /\ tensorPending = NoAnswer /\ late = NoAnswer
  /\ meRetry = [attempts |-> 0, timer |-> FALSE]
  /\ tab = [waits |-> FALSE, shown |-> {}]
  /\ faults = 0

Fault == faults < MaxFaults /\ faults' = faults + 1

----------------------------------------------------------------------------
(* The store and its frames.                                               *)

\* Variant: add() takes everything.
Admitted_All(S) == S

\* add() skips what is suppressed.
Admitted(S) == {l \in S : suppressed[l.mint] = "no"}

\* GET /listings: one row of each mint, ME's before the pool's before Tensor's.
Rank == [ME |-> 0, MMM |-> 1, TENSOR |-> 2]
Responses(S) ==
  {R \in SUBSET S : \A l \in S : \E r \in About(R, l.mint) :
     About(R, l.mint) = {r} /\ Rank[r.src] <= Rank[l.src]}

\* listing_snapshot, listing_remove and listing_upsert, in the order of the
\* bus.
Shows(S) == tab' = [tab EXCEPT !.shown = S]
ShowsChange(gone, new) == Shows((tab.shown \ gone) \cup new)

\* ensureFresh: a young snapshot is enough, and one under way is shared.
Ages == {FALSE, fetched}
EnsureFresh(young) ==
  /\ warm' = TRUE
  /\ snapshot' = IF young \/ snapshot.pc # "none" THEN snapshot
                 ELSE [NoSnapshot EXCEPT !.pc = "queued"]

----------------------------------------------------------------------------
(* The chain.                                                              *)

Moves == moves < MaxMoves /\ moves' = moves + 1

\* A pool deposit or withdrawal is not in the listing stream.
Streamed(kind, l) == IF l.src = "MMM" THEN {} ELSE {[kind |-> kind, listing |-> l]}

ChainLists(l) ==
  /\ Moves /\ About(listed, l.mint) = {} /\ l.seller \in {owner[l.mint], Pool}
  /\ listed' = listed \cup {l}
  /\ news' = news \cup Streamed("list", l)
  /\ UNCHANGED <<owner, upstream>>

\* A Tensor cancel is seen by the stream and by the Tensor ingest.
ChainCancels(l) ==
  /\ Moves /\ l \in listed
  /\ listed' = listed \ {l}
  /\ news' = news \cup Streamed("delist", l)
                  \cup IF l.src = "TENSOR" THEN Streamed("confirmed", l) ELSE {}
  /\ UNCHANGED <<owner, upstream>>

ChainSells(l, buyer) ==
  /\ Moves /\ l \in listed /\ buyer # owner[l.mint]
  /\ listed' = listed \ {l} /\ owner' = [owner EXCEPT ![l.mint] = buyer]
  /\ news' = news \cup {[kind |-> "sold", listing |-> l]}
  /\ UNCHANGED upstream

CatchesUp(src) ==
  /\ Of(upstream, src) # Of(listed, src)
  /\ upstream' = (upstream \ Of(upstream, src)) \cup Of(listed, src)
  /\ UNCHANGED <<owner, listed, news, moves, storeVars, fetchVars, tab, faults>>

Chain ==
  /\ \/ \E l \in Listing : ChainLists(l) \/ ChainCancels(l)
     \/ \E l \in Listing, b \in Owners : ChainSells(l, b)
  /\ UNCHANGED <<storeVars, fetchVars, tab, faults>>

----------------------------------------------------------------------------
(* Sale events and the listing stream.                                     *)

\* onSale and onListingConfirmedDelist: every row of the mint goes.
MintIsGone(l, reason) ==
  /\ suppressed' = [suppressed EXCEPT ![l.mint] = reason]
  /\ rows' = rows \ About(rows, l.mint)
  /\ ShowsChange(About(rows, l.mint), {})

\* A delist of the stream: only this seller's row at this marketplace goes.
Delisted(l) ==
  /\ suppressed' = [suppressed EXCEPT ![l.mint] = "delisted"]
  /\ rows' = rows \ {l}
  /\ ShowsChange(rows \cap {l}, {})

\* A list of the stream, which is right about it: a suppression is lifted, and
\* what another wallet had listed is dead.  A cold slug is left alone.
Listed(l) ==
  IF ~ warm THEN UNCHANGED <<rows, tab, suppressed>>
  ELSE LET dead == {r \in About(rows, l.mint) : r.src # "MMM" /\ r.seller # l.seller} IN
       /\ suppressed' = [suppressed EXCEPT ![l.mint] = "no"]
       /\ rows' = (rows \ dead) \cup {l}
       /\ ShowsChange(dead, {l})

Hears(n) ==
  /\ n \in news /\ news' = news \ {n}
  /\ LET l == n.listing IN
     \/ n.kind = "sold" /\ MintIsGone(l, "sold")
     \/ n.kind = "confirmed" /\ MintIsGone(l, "delisted")
     \/ n.kind = "delist" /\ Delisted(l)
     \/ n.kind = "list" /\ Listed(l)
  /\ UNCHANGED <<owner, listed, upstream, moves, warm, fetched, fetchVars, faults>>

NewsIsLost(n) ==
  /\ Fault /\ n \in news /\ news' = news \ {n}
  /\ UNCHANGED <<owner, listed, upstream, moves, storeVars, fetchVars, tab>>

\* SUPPRESS_TTL_MS.
SuppressionEnds(m) ==
  /\ suppressed[m] # "no" /\ suppressed' = [suppressed EXCEPT ![m] = "no"]
  /\ UNCHANGED <<chainVars, rows, warm, fetched, fetchVars, tab, faults>>

----------------------------------------------------------------------------
(* The snapshot task: fetchSnapshot and what follows it in ensureFresh.    *)

TensorNow == IF tensorLast = {NoListing} THEN Of(rows, "TENSOR") ELSE tensorLast

SlotIsFree ==
  /\ snapshot.pc = "queued"
  /\ snapshot' = [snapshot EXCEPT !.pc = "reading", !.tensor = TensorNow]
  /\ UNCHANGED <<chainVars, storeVars, lateVars, meRetry, tab, faults>>

\* An error status of ME keeps the rows there are and is retried; an ME or an
\* MMM that does not answer counts as empty.  A mint whose seller or time is
\* not known yet comes late, or once more.
Reads(me, mmm, failed, later) ==
  /\ snapshot' = [snapshot EXCEPT !.pc = "ranking", !.others = me \cup mmm,
                                  !.failed = failed]
  /\ late' = IF later /\ late.pc = "none" THEN [NoAnswer EXCEPT !.pc = "asked"] ELSE late

MarketplacesAnswer ==
  /\ snapshot.pc = "reading"
  /\ LET me == Of(upstream, "ME")  mmm == Of(upstream, "MMM") IN
     \/ \E later \in BOOLEAN : Reads(me, mmm, FALSE, later) /\ UNCHANGED faults
     \/ Fault /\ Reads(Of(rows, "ME"), mmm, TRUE, FALSE)
     \/ Fault /\ (Reads({}, mmm, FALSE, FALSE) \/ Reads(me, {}, FALSE, FALSE))
     \/ Fault /\ \E m \in Mints : Reads(me \ About(me, m), mmm, FALSE, TRUE)
  /\ tensorPending' = IF tensorPending.pc = "none" THEN [NoAnswer EXCEPT !.pc = "asked"]
                      ELSE tensorPending
  /\ UNCHANGED <<chainVars, storeVars, tensorLast, meRetry, tab>>

\* replaceCollection; the frame has what was read, not what was admitted.  A
\* waiting load is answered, before or after the frame.
SnapshotLands ==
  /\ snapshot.pc = "ranking"
  /\ LET fresh == snapshot.tensor \cup snapshot.others IN
     /\ rows' = Admitted(fresh)
     /\ \E R \in IF tab.waits THEN Responses(rows') \cup {fresh} ELSE {fresh} :
          tab' = [waits |-> FALSE, shown |-> R]
     /\ warm' = (warm \/ tab.waits)
  /\ IF snapshot.failed /\ meRetry.attempts < MaxMeRetries
     THEN /\ meRetry' = [attempts |-> meRetry.attempts + 1, timer |-> TRUE]
          /\ UNCHANGED fetched
     ELSE meRetry' = [meRetry EXCEPT !.attempts = 0] /\ fetched' = TRUE
  /\ snapshot' = NoSnapshot
  /\ UNCHANGED <<chainVars, suppressed, lateVars, faults>>

----------------------------------------------------------------------------
(* The late answers.                                                       *)

TensorAnswers ==
  /\ tensorPending.pc = "asked"
  /\ \/ tensorPending' = [pc |-> "read", got |-> Of(upstream, "TENSOR")] /\ UNCHANGED faults
     \/ Fault /\ tensorPending' = [pc |-> "read", got |-> {}]
  /\ UNCHANGED <<chainVars, storeVars, snapshot, tensorLast, late, meRetry, tab>>

\* Variant: the mark stays for good when there is nothing to merge into.
TensorLands_Latched ==
  /\ tensorPending.pc = "read"
  /\ tensorLast' = tensorPending.got
  /\ IF ~ fetched
     THEN tensorPending' = [tensorPending EXCEPT !.pc = "left"] /\ UNCHANGED <<rows, tab>>
     ELSE LET merged == (rows \ Of(rows, "TENSOR")) \cup tensorPending.got IN
          /\ rows' = Admitted(merged)
          /\ Shows(merged) /\ tensorPending' = NoAnswer
  /\ UNCHANGED <<chainVars, suppressed, warm, fetched, snapshot, late,
                 meRetry, faults>>

\* refreshTensorLate, merged into a slug that has had a snapshot.
TensorLands ==
  /\ tensorPending.pc = "read"
  /\ tensorLast' = tensorPending.got
  /\ IF ~ fetched THEN UNCHANGED <<rows, tab>>
     ELSE LET merged == (rows \ Of(rows, "TENSOR")) \cup tensorPending.got IN
          /\ rows' = Admitted(merged)
          /\ Shows(merged)
  /\ tensorPending' = NoAnswer
  /\ UNCHANGED <<chainVars, suppressed, warm, fetched, snapshot, late,
                 meRetry, faults>>

\* Some mints are looked up and their listings read, then the ranks.
LateRowsAreRead ==
  /\ late.pc = "asked"
  /\ \E M \in SUBSET Mints :
       LET got == {l \in Of(upstream, "ME") : l.mint \in M} IN
       late' = IF got = {} \/ (~ fetched /\ snapshot.pc = "none") THEN NoAnswer
               ELSE [pc |-> "ranking", got |-> got]
  /\ UNCHANGED <<chainVars, storeVars, snapshot, tensorLast,
                 tensorPending, meRetry, tab, faults>>

LateRowsLand ==
  /\ late.pc = "ranking" /\ late' = NoAnswer
  /\ LET old == {r \in Of(rows, "ME") : \E l \in late.got : l.mint = r.mint} IN
     /\ rows' = (rows \ old) \cup Admitted(late.got)
     /\ Shows((rows \ old) \cup Admitted(late.got))
  /\ UNCHANGED <<chainVars, suppressed, warm, fetched, snapshot, tensorLast,
                 tensorPending, meRetry, faults>>

----------------------------------------------------------------------------
(* Timers, hints and the page.                                             *)

RetryFires ==
  /\ meRetry.timer /\ meRetry' = [meRetry EXCEPT !.timer = FALSE]
  /\ \E young \in Ages : EnsureFresh(young)
  /\ UNCHANGED <<chainVars, rows, suppressed, fetched, lateVars, tab, faults>>

\* onListingRefreshHint, or the timer markDirty has set: some transaction has
\* touched a mint or a pool of a warm slug.
RefreshHint ==
  /\ warm
  /\ \E young \in Ages : EnsureFresh(young)
  /\ UNCHANGED <<chainVars, rows, suppressed, fetched, lateVars,
                 meRetry, tab, faults>>

\* The sweep, when the page's reload is overdue.
EvictSlug ==
  /\ Fault /\ warm /\ warm' = FALSE
  /\ rows' = {} /\ fetched' = FALSE
  /\ UNCHANGED <<chainVars, suppressed, fetchVars, tab>>

\* GET /listings: what is in memory at once, or the first snapshot.
PageLoads(young) ==
  /\ ~ tab.waits
  /\ EnsureFresh(young)
  /\ IF rows # {} \/ young
     THEN \E R \in Responses(rows) : tab' = [tab EXCEPT !.shown = R]
     ELSE tab' = [tab EXCEPT !.waits = TRUE]
  /\ UNCHANGED <<chainVars, rows, suppressed, fetched, lateVars, meRetry, faults>>

SnapshotTask == SlotIsFree \/ MarketplacesAnswer \/ SnapshotLands
TensorTask == TensorAnswers \/ TensorLands
LateTask == LateRowsAreRead \/ LateRowsLand

Next ==
  \/ Chain
  \/ \E src \in Sources : CatchesUp(src)
  \/ \E n \in news : Hears(n) \/ NewsIsLost(n)
  \/ \E m \in Mints : SuppressionEnds(m)
  \/ SnapshotTask \/ TensorTask \/ LateTask
  \/ RetryFires \/ RefreshHint \/ EvictSlug
  \/ \E young \in Ages : PageLoads(young)

Spec == Init /\ [][Next]_vars

\* Requests end, messages arrive, suppressions expire, the marketplaces catch
\* up; an open page reloads every LISTINGS_REFRESH_MS, ten times the age up to
\* which a snapshot is young.
Fairness ==
  /\ WF_vars(SnapshotTask) /\ WF_vars(TensorTask) /\ WF_vars(LateTask)
  /\ WF_vars(PageLoads(FALSE))
  /\ \A src \in Sources : WF_vars(CatchesUp(src))
  /\ WF_vars(\E n \in news : Hears(n))
  /\ \A m \in Mints : WF_vars(SuppressionEnds(m))

FairSpec == Spec /\ Fairness

----------------------------------------------------------------------------
TypeOK ==
  /\ owner \in [Mints -> Owners] /\ {listed, upstream, rows} \subseteq SUBSET Listing
  /\ news \subseteq [kind : {"list", "delist", "confirmed", "sold"}, listing : Listing]
  /\ suppressed \in [Mints -> {"no", "sold", "delisted"}]
  /\ warm \in BOOLEAN /\ fetched \in BOOLEAN
  /\ snapshot \in [pc : {"none", "queued", "reading", "ranking"}, tensor : SUBSET Listing,
                   others : SUBSET Listing, failed : BOOLEAN]
  /\ tensorLast \in {{NoListing}} \cup SUBSET Listing
  /\ tensorPending \in [pc : {"none", "asked", "read"}, got : SUBSET Listing]
  /\ late \in [pc : {"none", "asked", "ranking"}, got : SUBSET Listing]
  /\ meRetry \in [attempts : 0 .. MaxMeRetries, timer : BOOLEAN]
  /\ tab \in [waits : BOOLEAN, shown : SUBSET Listing]
  /\ moves \in 0 .. MaxMoves /\ faults \in 0 .. MaxFaults

\* A mint whose sale was heard has no row while it is suppressed: whichever of
\* the writers comes next, with whatever it read before the sale, only a list
\* seen later brings the mint back.
SoldStaysAway ==
  \A m \in Mints : suppressed[m] = "sold" => About(rows, m) = {}

\* Once the chain is quiet, the store and the open page come to show exactly
\* what is listed, and go on to: nothing a read, a lost message, a suppression
\* or an eviction did is for good.
PageConverges ==
  <>[] (rows = listed /\ tab.shown = listed)
=============================================================================
