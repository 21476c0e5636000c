----------------------------- MODULE SaleInsert -----------------------------
(***************************************************************************)
(* The way of a sale from the parsers to the feed.  A sale may be inserted *)
(* by a fast path (Helius data) and is parsed again from the raw           *)
(* transaction: insert, or patch of what the fast path stored.  The call   *)
(* that wins the INSERT owns the sale's frame and its enrichment, which    *)
(* runs detached, races a budget when the frame is deferred, and may find  *)
(* that the sale is to be taken back.  Every query is sent, executed by    *)
(* the database and answered in three separate steps.                      *)
(***************************************************************************)
EXTENDS Naturals, FiniteSets

CONSTANTS
  Sale, Mint, MintOf,
  Kinds,          \* what may turn out about a sale: a set of Kind
  DeferEnabled,   \* FEED_DEFER_BLACKLIST
  DeferMax,       \* DEFER_MAX_INFLIGHT
  DbFails,        \* queries may throw
  MaxRestarts     \* bound on the restarts

Leg == {"fast", "raw"}

\* identity: when the blacklisted collection is recognised, if it is one;
\* known: its name or slug is cached; belowMin: the raw parse shows a cNFT
\* under the price floor.
Kind == [identity : {"clean", "enrichment", "imageRetry"}, known : BOOLEAN,
         belowMin : BOOLEAN]

ASSUME SaleAssumption ==
  /\ MintOf \in [Sale -> Mint] /\ Kinds \subseteq Kind
  /\ DeferEnabled \in BOOLEAN /\ DbFails \in BOOLEAN
  /\ DeferMax \in Nat \ {0} /\ MaxRestarts \in Nat

VARIABLES
  kind,           \* environment: the kind of each sale
  db,             \* sales with a row in sale_events
  blocked,        \* the blocked-mint cache
  feed,           \* sales whose card the connected clients show
  call,           \* per sale and leg: the insert call and its detached task
  told,           \* alreadyEmitted of that task
  held,           \* the task counts in deferInflight
  patch,          \* patchSaleEventRaw of each sale
  overtaken,      \* history: sales whose remove frame went out before the
                  \* deferred sale frame
  restarts

tasks == <<call, told, held, patch, overtaken>>
vars == <<kind, db, blocked, feed, tasks, restarts>>

Pc == {"idle", "sent", "won", "null", "threw", "deferred", "enriching", "deleting",
       "deleted", "updating", "retrying", "done"}

None == [s \in Sale |-> [l \in Leg |-> "idle"]]
Nobody == [s \in Sale |-> [l \in Leg |-> FALSE]]

Init ==
  /\ kind \in [Sale -> Kinds]
  /\ db = {} /\ blocked = {} /\ feed = {}
  /\ call = None /\ told = Nobody /\ held = Nobody
  /\ patch = [s \in Sale |-> "idle"] /\ overtaken = {}
  /\ restarts = 0

GoTo(s, l, pc) == call' = [call EXCEPT ![s][l] = pc]
Told(s, l, b) == told' = [told EXCEPT ![s][l] = b]
Hold(s, l, b) == held' = [held EXCEPT ![s][l] = b]
DeferInflight == Cardinality({t \in Sale \X Leg : held[t[1]][t[2]]})

----------------------------------------------------------------------------
(* insertSaleEvent up to its return.                                       *)

\* _ingestMeRaw awaits the fast insert before it goes on to the raw one.
MayCall(s, l) ==
  /\ call[s][l] = "idle"
  /\ l = "fast" => call[s]["raw"] = "idle"
  /\ l = "raw" => call[s]["fast"] \notin {"sent", "won"}

\* The gates before any query.  The fast paths label everything legacy, so
\* only the raw parse meets the cNFT floor.
Gated(s, l) ==
  \/ l = "raw" /\ kind[s].belowMin
  \/ MintOf[s] \in blocked
  \/ kind[s].identity # "clean" /\ kind[s].known

CallInsert(s, l) ==
  /\ MayCall(s, l)
  /\ GoTo(s, l, IF Gated(s, l) THEN "null" ELSE "sent")
  /\ blocked' = IF kind[s].identity # "clean" /\ kind[s].known
                   /\ ~(l = "raw" /\ kind[s].belowMin)
                THEN blocked \cup {MintOf[s]} ELSE blocked
  /\ UNCHANGED <<kind, db, feed, told, held, patch, overtaken, restarts>>

\* INSERT ... ON CONFLICT DO NOTHING RETURNING id.
InsertExecutes(s, l) ==
  /\ call[s][l] = "sent"
  /\ \/ s \notin db /\ db' = db \cup {s} /\ GoTo(s, l, "won")
     \/ s \in db /\ UNCHANGED db /\ GoTo(s, l, "null")
     \/ DbFails /\ UNCHANGED db /\ GoTo(s, l, "threw")
  /\ UNCHANGED <<kind, blocked, feed, told, held, patch, overtaken, restarts>>

NeedsDeferral(s) == DeferEnabled /\ ~kind[s].known

InsertReturns(s, l) ==
  /\ call[s][l] = "won"
  /\ IF NeedsDeferral(s) /\ DeferInflight < DeferMax
     THEN /\ GoTo(s, l, "deferred") /\ Hold(s, l, TRUE)
          /\ UNCHANGED <<feed, told>>
     ELSE /\ feed' = feed \cup {s} /\ Told(s, l, TRUE)
          /\ GoTo(s, l, "enriching") /\ UNCHANGED held
  /\ UNCHANGED <<kind, db, blocked, patch, overtaken, restarts>>

----------------------------------------------------------------------------
(* The race of a deferred frame and applyEnrichment.                       *)

\* Variants: at the end of the budget the sale is dropped, not shown; the
\* timeout goes on waiting for the enrichment.
BudgetRunsOut_Drops(s, l) ==
  /\ call[s][l] = "deferred"
  /\ GoTo(s, l, "enriching") /\ Hold(s, l, FALSE)
  /\ UNCHANGED <<kind, db, blocked, feed, told, patch, overtaken, restarts>>

BudgetRunsOut_Waits(s, l) == call[s][l] = "deferred" /\ UNCHANGED vars

BudgetRunsOut(s, l) ==
  /\ call[s][l] = "deferred"
  /\ feed' = feed \cup {s} /\ Told(s, l, TRUE) /\ Hold(s, l, FALSE)
  /\ GoTo(s, l, "enriching")
  /\ UNCHANGED <<kind, db, blocked, patch, overtaken, restarts>>

EnrichResolves(s, l) ==
  /\ call[s][l] \in {"deferred", "enriching"}
  /\ IF kind[s].identity = "enrichment"
     THEN GoTo(s, l, "deleting") /\ UNCHANGED <<feed, told>>
     ELSE /\ GoTo(s, l, "updating")
          /\ feed' = IF call[s][l] = "deferred" THEN feed \cup {s} ELSE feed
          /\ Told(s, l, TRUE)
  /\ UNCHANGED <<kind, db, blocked, held, patch, overtaken, restarts>>

\* Both catch blocks: a deferred sale is shown at once.
EnrichFails(s, l) ==
  /\ call[s][l] \in {"deferred", "enriching"}
  /\ feed' = IF call[s][l] = "deferred" THEN feed \cup {s} ELSE feed
  /\ Told(s, l, TRUE) /\ Hold(s, l, FALSE) /\ GoTo(s, l, "done")
  /\ UNCHANGED <<kind, db, blocked, patch, overtaken, restarts>>

\* A DELETE of applyEnrichment that throws is logged: the row, and the card if
\* there is one, stay, and the mint is not blocked.  In the retry chain nothing
\* catches it and the process ends (Restart).
DeleteExecutes(s, l) ==
  /\ call[s][l] = "deleting"
  /\ \/ db' = db \ {s} /\ GoTo(s, l, "deleted") /\ UNCHANGED held
     \/ /\ DbFails /\ kind[s].identity = "enrichment"
        /\ UNCHANGED db /\ GoTo(s, l, "done") /\ Hold(s, l, FALSE)
  /\ UNCHANGED <<kind, blocked, feed, told, patch, overtaken, restarts>>

\* Variants: no remove frame for a card that was shown; the signature is
\* blocked in place of the mint.
DeleteReturns_Silent(s, l) ==
  /\ call[s][l] = "deleted"
  /\ blocked' = blocked \cup {MintOf[s]}
  /\ Hold(s, l, FALSE) /\ GoTo(s, l, "done")
  /\ UNCHANGED <<kind, db, feed, told, patch, overtaken, restarts>>

DeleteReturns(s, l) ==
  /\ call[s][l] = "deleted"
  /\ feed' = IF told[s][l] THEN feed \ {s} ELSE feed
  /\ blocked' = blocked \cup {MintOf[s]}
  /\ Hold(s, l, FALSE) /\ GoTo(s, l, "done")
  /\ UNCHANGED <<kind, db, told, patch, overtaken, restarts>>

\* The metadata update (of a row that may be gone) and its frame; an image,
\* slug or floor that is still missing starts the retry chain.
UpdateReturns(s, l) ==
  /\ call[s][l] = "updating"
  /\ Hold(s, l, FALSE)
  /\ \/ GoTo(s, l, "retrying")
     \/ DbFails /\ GoTo(s, l, "done")
  /\ UNCHANGED <<kind, db, blocked, feed, told, patch, overtaken, restarts>>

\* The retry chain ends, or finds the collection's name: the mint is blocked
\* before the DELETE is sent.
RetryEnds(s, l) ==
  /\ call[s][l] = "retrying"
  /\ IF kind[s].identity = "imageRetry"
     THEN GoTo(s, l, "deleting") /\ blocked' = blocked \cup {MintOf[s]}
     ELSE GoTo(s, l, "done") /\ UNCHANGED blocked
  /\ UNCHANGED <<kind, db, feed, told, held, patch, overtaken, restarts>>

----------------------------------------------------------------------------
(* patchSaleEventRaw: the raw parse corrects the row of the fast path.     *)

FastPathInserted(s) ==
  call[s]["fast"] \notin {"idle", "sent", "won", "null", "threw"}
PatchIsDue(s) ==
  patch[s] = "idle" /\ FastPathInserted(s) /\ call[s]["raw"] = "null"

PatchIsSent(s) ==
  /\ PatchIsDue(s)
  /\ patch' = [patch EXCEPT ![s] = "sent"]
  /\ UNCHANGED <<kind, db, blocked, feed, call, told, held, overtaken, restarts>>

PatchExecutes(s) ==
  /\ patch[s] = "sent"
  /\ \/ /\ db' = IF kind[s].belowMin THEN db \ {s} ELSE db
        /\ patch' = [patch EXCEPT ![s] = "executed"]
     \/ DbFails /\ UNCHANGED db /\ patch' = [patch EXCEPT ![s] = "done"]
  /\ UNCHANGED <<kind, blocked, feed, call, told, held, overtaken, restarts>>

PatchReturns(s) ==
  /\ patch[s] = "executed"
  /\ feed' = IF kind[s].belowMin THEN feed \ {s} ELSE feed
  /\ patch' = [patch EXCEPT ![s] = "done"]
  /\ overtaken' = IF kind[s].belowMin /\ \E l \in Leg : call[s][l] = "deferred"
                  THEN overtaken \cup {s} ELSE overtaken
  /\ UNCHANGED <<kind, db, blocked, call, told, held, restarts>>

\* Every task is lost; reconnecting clients load the rows of the table.
Restart ==
  /\ restarts < MaxRestarts /\ restarts' = restarts + 1
  /\ call' = [s \in Sale |-> [l \in Leg |-> "done"]]
  /\ patch' = [s \in Sale |-> "done"]
  /\ told' = Nobody /\ held' = Nobody /\ blocked' = {} /\ overtaken' = {}
  /\ feed' = db
  /\ UNCHANGED <<kind, db>>

Query(s, l) ==
  InsertExecutes(s, l) \/ InsertReturns(s, l) \/ DeleteExecutes(s, l)
    \/ DeleteReturns(s, l) \/ UpdateReturns(s, l)
Patch(s) == PatchIsSent(s) \/ PatchExecutes(s) \/ PatchReturns(s)

Next ==
  \/ \E s \in Sale, l \in Leg :
       \/ CallInsert(s, l) \/ InsertExecutes(s, l) \/ InsertReturns(s, l)
       \/ BudgetRunsOut(s, l) \/ EnrichResolves(s, l) \/ EnrichFails(s, l)
       \/ DeleteExecutes(s, l) \/ DeleteReturns(s, l)
       \/ UpdateReturns(s, l) \/ RetryEnds(s, l)
  \/ \E s \in Sale : PatchIsSent(s) \/ PatchExecutes(s) \/ PatchReturns(s)
  \/ Restart

Spec == Init /\ [][Next]_vars

\* Queries are answered and the budget's timer fires.  Nothing is assumed of
\* the enrichment: it may never settle.
FairSpec ==
  /\ Spec
  /\ \A s \in Sale, l \in Leg : WF_vars(Query(s, l)) /\ WF_vars(BudgetRunsOut(s, l))
  /\ \A s \in Sale : WF_vars(Patch(s))

----------------------------------------------------------------------------
TypeOK ==
  /\ kind \in [Sale -> Kinds]
  /\ db \subseteq Sale /\ feed \subseteq Sale /\ blocked \subseteq Mint
  /\ call \in [Sale -> [Leg -> Pc]]
  /\ told \in [Sale -> [Leg -> BOOLEAN]] /\ held \in [Sale -> [Leg -> BOOLEAN]]
  /\ patch \in [Sale -> {"idle", "sent", "executed", "done"}]
  /\ overtaken \subseteq Sale /\ restarts \in Nat

Quiet(s) ==
  /\ \A l \in Leg : call[s][l] \in {"idle", "null", "threw", "done"}
  /\ patch[s] \in {"idle", "done"} /\ ~PatchIsDue(s)

\* When nothing is under way for a sale, a card on the clients' screens has a
\* row in the table.  The race of the patch with the deferral is the only one
\* that leaves a card: a cNFT under the floor that was removed before its
\* deferred frame went out.
CardsHaveRows == \A s \in Sale : Quiet(s) /\ s \in feed => s \in db \cup overtaken

\* ... and a stored sale of a clean collection is on the screens: no frame is
\* lost to the race, the cap, a failing enrichment or a failing query.
StoredIsShown ==
  \A s \in Sale : Quiet(s) /\ s \in db /\ kind[s].identity = "clean" => s \in feed

\* The frame of a stored sale does not wait for the enrichment for ever.
DeferralEnds ==
  \A s \in Sale, l \in Leg : call[s][l] = "deferred" ~> call[s][l] # "deferred"
============================================================================
