---------------------------- MODULE PollerCursor ----------------------------
(***************************************************************************)
(* The AMM poller's persisted cursor.  A sweep reads the cursor and the    *)
(* catch-up marker, pages backward through the signatures newer than the   *)
(* cursor, hands them to ingestion within a budget and queues the rest in  *)
(* memory, and moves the cursor through the contiguous run of signatures   *)
(* with a terminal outcome.  A sweep that runs out of pages walks further  *)
(* back on the next ones.  The runtime mode may change, the process may    *)
(* die and any query may fail between two awaits.                          *)
(*                                                                         *)
(* Signatures are numbered in chain order; 0 stands for none.              *)
(***************************************************************************)
EXTENDS Naturals, SequencesExt, FiniteSetsExt

CONSTANTS
  MaxSig,         \* bound on the signatures of the program
  Failed,         \* those whose transaction failed on chain
  PageLimit,      \* SIG_PAGE_LIMIT
  MaxPages,       \* maxPagesForTarget: the page budget of one sweep
  LowPages,       \* LOW_PAGE_THRESHOLD
  BaseBudget,     \* baseSyncBudgetForTarget
  Sweeps,         \* identities for the sweeps that may overlap
  MaxUpsets       \* bound on crashes, failed queries and mode changes

ASSUME PollerAssumption ==
  /\ {MaxSig, MaxUpsets, LowPages} \subseteq Nat
  /\ {PageLimit, MaxPages, BaseBudget} \subseteq Nat \ {0}
  /\ Failed \subseteq 1 .. MaxSig

VARIABLES
  head,           \* the newest signature on chain
  on, gen,        \* getMode() # 'off', currentGeneration()
  inFlight,       \* sweepInFlight of the target
  sweep,          \* the running sweeps
  seen,           \* localSeen
  safe,           \* signatures with a terminal outcome in signatureOutcomes
  queue,          \* the backlog by enqueuedAt, with the items in dispatch
  cursor, marker, \* poller_state: the target's row and its ":catchup" row
  done,           \* history: signatures that ever had a terminal outcome
  base,           \* history: a sweep that finds no cursor looks at nothing up
                  \* to here
  gap,            \* history: passed by the cursor without having been looked at
  walked,         \* history: rows of the sweeps that ran out of pages
  lost,           \* history: those of them unresolved when a crash came
  upsets

memory == <<inFlight, sweep, seen, safe, queue>>
stored == <<cursor, marker>>
history == <<done, base, gap, walked, lost, upsets>>
vars == <<head, on, gen, memory, stored, history>>

NoMark == [frozen |-> 0, before |-> 0]
Idle == [pc |-> "idle", gen |-> 0, until |-> 0, mark |-> NoMark, before |-> 0,
         pages |-> 0, rows |-> {}, full |-> FALSE, ok |-> {}, todo |-> {}]

Init ==
  /\ head = 0 /\ on = TRUE /\ gen = 0
  /\ inFlight = FALSE /\ sweep = [w \in Sweeps |-> Idle]
  /\ seen = {} /\ safe = {} /\ queue = << >>
  /\ cursor = 0 /\ marker = NoMark
  /\ done = {} /\ base = 0 /\ gap = {} /\ walked = {} /\ lost = {} /\ upsets = 0

----------------------------------------------------------------------------
Newest(S, n) == {s \in S : Cardinality({t \in S : t > s}) < n}
Oldest(S, n) == {s \in S : Cardinality({t \in S : t < s}) < n}
\* The elements of S in chain order: the i-th has i elements up to it.
Ascending(S) ==
  [i \in 1 .. Cardinality(S) |-> CHOOSE s \in S : Cardinality({t \in S : t <= s}) = i]

\* getSignaturesForAddress: the newest page strictly between two signatures.
Page(until, before) ==
  Newest({s \in 1 .. head : s > until /\ (before # 0 => s < before)}, PageLimit)

\* The mode went off or changed since this sweep began.
Stale(w) == ~on \/ sweep[w].gen # gen

End(w) == sweep' = [sweep EXCEPT ![w] = Idle] /\ inFlight' = FALSE

Becomes(w, r) == sweep' = [sweep EXCEPT ![w] = r] /\ UNCHANGED inFlight

----------------------------------------------------------------------------
(* A sweep up to its last page.                                            *)

Begin(w) ==
  /\ on /\ ~inFlight
  /\ sweep[w] = Idle /\ w = CHOOSE v \in Sweeps : sweep[v] = Idle
  /\ sweep' = [sweep EXCEPT ![w] = [Idle EXCEPT !.pc = "cursor", !.gen = gen]]
  /\ inFlight' = TRUE
  /\ UNCHANGED <<head, on, gen, seen, safe, queue, stored, history>>

\* Two queries with a generation check after each.
ReadCursor(w) ==
  /\ sweep[w].pc = "cursor"
  /\ IF Stale(w) THEN End(w)
     ELSE Becomes(w, [sweep[w] EXCEPT !.pc = "marker", !.until = cursor])
  /\ UNCHANGED <<head, on, gen, seen, safe, queue, stored, history>>

ReadMarker(w) ==
  /\ sweep[w].pc = "marker"
  /\ IF Stale(w) THEN End(w)
     ELSE Becomes(w, [sweep[w] EXCEPT
            !.pc = IF sweep[w].until # 0 /\ marker # NoMark THEN "fresh" ELSE "page",
            !.mark = marker,
            !.before = IF sweep[w].until # 0 THEN marker.before ELSE 0])
  /\ UNCHANGED <<head, on, gen, seen, safe, queue, stored, history>>

\* Mid-catch-up the top of the chain is fetched first.
FetchFresh(w) ==
  /\ sweep[w].pc = "fresh"
  /\ IF Stale(w) THEN End(w)
     ELSE Becomes(w, [sweep[w] EXCEPT !.pc = "page", !.rows = Page(sweep[w].until, 0)])
  /\ UNCHANGED <<head, on, gen, seen, safe, queue, stored, history>>

----------------------------------------------------------------------------
(* What a sweep does with its rows, in one step.                           *)

\* The places of the backlog that no sweep has in dispatch.
Waiting == {i \in DOMAIN queue : \A w \in Sweeps : queue[i] \notin sweep[w].todo}

\* syncBudgetForSweep and backlogReserveShare: what a sweep dispatches, and
\* the part of it kept for the oldest of the backlog.  The depth of the
\* backlog and the age of its head raise both, in levels.
Pressures == {"none", "some", "high", "full"}
Pressure(depth) == IF depth = 0 THEN {"none"} ELSE Pressures \ {"none"}

Budget(pressure, rows) ==
  CASE pressure = "full" -> rows
    [] pressure = "high" -> Min({2 * BaseBudget, rows})
    [] OTHER             -> Min({BaseBudget, rows})

\* Mutant: the newest always take the whole budget.
Reserve_None(pressure, depth, budget) == 0

Reserve(pressure, depth, budget) ==
  CASE pressure = "none" -> 0
    [] pressure = "some" -> Min({depth, (3 * budget + 5) \div 10})
    [] pressure = "high" -> Min({depth, (budget + 1) \div 2})
    [] OTHER             -> Min({depth, budget})

\* markLocalSeen: what no earlier sweep of this process has met.
Unseen(rows) == (rows \ Failed) \ seen

\* Classify the rows, dispatch the reserve and the newest, queue the others.
Scanned(w, r, pressure) ==
  LET budget == Budget(pressure, Cardinality(r.rows))
      depth == Cardinality(Waiting)
      kept == Reserve(pressure, depth, budget)
      old == {queue[i] : i \in Oldest(Waiting, kept)}
      unseen == Unseen(r.rows)
      new == Newest(unseen, budget - kept)
  IN /\ pressure \in Pressure(depth)
     /\ Becomes(w, [r EXCEPT !.pc = "ingest", !.ok = r.rows \cap (Failed \cup safe),
                             !.todo = old \cup new])
     /\ seen' = seen \cup unseen
     /\ queue' = queue \o Ascending(unseen \ new) \o Ascending(new)
     /\ UNCHANGED safe

\* Without rows a finished walk is promoted; nothing else happens.
Assess(w, r, pressure) ==
  IF r.rows # {} THEN Scanned(w, r, pressure)
  ELSE /\ IF r.mark = NoMark THEN End(w) ELSE Becomes(w, [r EXCEPT !.pc = "promote"])
       /\ UNCHANGED <<seen, safe, queue>>

\* One page: a short one has reached the cursor, the last of the budget ends
\* the walk, any other is followed by an older one.  The first run of all
\* takes a single page.
FetchPage(w, pressure) ==
  /\ sweep[w].pc = "page"
  /\ LET p == Page(sweep[w].until, sweep[w].before)
         r == [sweep[w] EXCEPT !.pages = @ + 1, !.rows = @ \cup p]
         floor == Cardinality(p) < PageLimit
     IN IF Stale(w) THEN End(w) /\ UNCHANGED <<seen, safe, queue>>
        ELSE IF sweep[w].until = 0 \/ floor THEN Assess(w, r, pressure)
        ELSE IF r.pages < MaxPages
        THEN Becomes(w, [r EXCEPT !.before = Min(p)]) /\ UNCHANGED <<seen, safe, queue>>
        ELSE Assess(w, [r EXCEPT !.full = r.pages > LowPages], pressure)
  /\ UNCHANGED <<head, on, gen, stored, history>>

\* An ingest settles.  A retryable one goes back to its place in the queue.
IngestReturns(w, s, terminal) ==
  /\ s \in sweep[w].todo
  /\ LET r == [sweep[w] EXCEPT !.todo = @ \ {s}] IN
     IF terminal
     THEN /\ Becomes(w, [r EXCEPT !.ok = @ \cup ({s} \cap r.rows)])
          /\ safe' = safe \cup {s} /\ done' = done \cup {s}
          /\ queue' = RemoveFirst(queue, s)
     ELSE Becomes(w, r) /\ UNCHANGED <<safe, done, queue>>
  /\ UNCHANGED <<head, on, gen, seen, stored, base, gap, walked, lost, upsets>>

----------------------------------------------------------------------------
(* The cursor and the marker move.                                         *)

\* Mutant: the newest resolved row, whatever lies before it.
SafeAdvance_OverGaps(rows, ok) ==
  IF rows \cap ok = {} THEN 0 ELSE Max(rows \cap ok)

\* safeAdvanceSigFromPage: the newest row with no unresolved row up to it.
SafeAdvance(rows, ok) ==
  LET run == {s \in rows : \A q \in rows : q <= s => q \in ok}
  IN IF run = {} THEN 0 ELSE Max(run)

\* What lies between the old cursor and the new one, and neither this sweep nor
\* the walk it goes on with has looked at.
Unlooked(r, c) ==
  {s \in 1 .. c : /\ s > r.until /\ s \notin r.rows
                  /\ r.mark # NoMark => ~ (r.mark.before <= s /\ s <= r.mark.frozen)}

MoveCursor(r, c) ==
  /\ cursor' = c
  /\ IF r.until = 0 THEN base' = Max({base, Min(r.rows) - 1}) /\ UNCHANGED gap
     ELSE gap' = gap \cup Unlooked(r, c) /\ UNCHANGED base

\* Out of pages: leave the cursor, remember how far back the walk has been.
KeepWalking(w) ==
  /\ sweep[w].full
  /\ marker' = [frozen |-> IF sweep[w].mark = NoMark THEN Max(sweep[w].rows)
                           ELSE sweep[w].mark.frozen,
                before |-> Min(sweep[w].rows)]
  /\ walked' = walked \cup sweep[w].rows
  /\ End(w) /\ UNCHANGED <<cursor, base, gap>>

\* The walk has reached the cursor: all rows of this sweep must be resolved.
\* (A streak of short sweeps asks for the same and only logs it otherwise.)
FinishWalk(w) ==
  /\ ~sweep[w].full /\ sweep[w].mark # NoMark
  /\ IF SafeAdvance(sweep[w].rows, sweep[w].ok) = Max(sweep[w].rows)
     THEN /\ MoveCursor(sweep[w], sweep[w].mark.frozen)
          /\ Becomes(w, [sweep[w] EXCEPT !.pc = "clear"])
     ELSE UNCHANGED <<cursor, base, gap>> /\ End(w)
  /\ UNCHANGED <<marker, walked>>

Advance(w) ==
  /\ ~sweep[w].full /\ sweep[w].mark = NoMark
  /\ LET s == SafeAdvance(sweep[w].rows, sweep[w].ok) IN
     IF s = 0 THEN UNCHANGED <<cursor, base, gap>> ELSE MoveCursor(sweep[w], s)
  /\ End(w) /\ UNCHANGED <<marker, walked>>

Settle(w) ==
  /\ sweep[w].pc = "ingest" /\ sweep[w].todo = {}
  /\ KeepWalking(w) \/ FinishWalk(w) \/ Advance(w)
  /\ UNCHANGED <<head, on, gen, seen, safe, queue, done, lost, upsets>>

Promote(w) ==
  /\ sweep[w].pc = "promote"
  /\ cursor' = sweep[w].mark.frozen
  /\ Becomes(w, [sweep[w] EXCEPT !.pc = "clear"])
  /\ UNCHANGED <<head, on, gen, seen, safe, queue, marker, history>>

ClearMarker(w) ==
  /\ sweep[w].pc = "clear"
  /\ marker' = NoMark
  /\ End(w)
  /\ UNCHANGED <<head, on, gen, seen, safe, queue, cursor, history>>

----------------------------------------------------------------------------
(* The world around it.                                                    *)

NewSignature ==
  /\ head < MaxSig
  /\ head' = head + 1
  /\ UNCHANGED <<on, gen, memory, stored, history>>

Upset == upsets < MaxUpsets /\ upsets' = upsets + 1

\* A query or a request rejects: the sweep's catch logs it.
SweepFails(w) ==
  /\ Upset
  /\ sweep[w].pc \notin {"idle", "ingest"} \/ (sweep[w].pc = "ingest" /\ sweep[w].todo = {})
  /\ End(w)
  /\ UNCHANGED <<head, on, gen, seen, safe, queue, stored, done, base, gap, walked, lost>>

\* applyTransition: a new generation, and stopAmmPoller frees the guard.
ChangeMode ==
  /\ \/ on /\ Upset /\ on' \in BOOLEAN
     \/ ~on /\ on' = TRUE /\ UNCHANGED upsets
  /\ gen' = gen + 1
  /\ inFlight' = FALSE
  /\ UNCHANGED <<head, sweep, seen, safe, queue, stored, done, base, gap, walked, lost>>

\* The process dies and comes back with what poller_state holds.  Of a
\* catch-up walk that is where it has been, not what it left unresolved.
Crash ==
  /\ Upset
  /\ inFlight' = FALSE /\ sweep' = [w \in Sweeps |-> Idle]
  /\ seen' = {} /\ safe' = {} /\ queue' = << >>
  /\ lost' = lost \cup (walked \cap Range(queue))
  /\ on' = TRUE /\ gen' = 0
  /\ UNCHANGED <<head, stored, done, base, gap, walked>>

Next ==
  \/ \E w \in Sweeps :
       \/ Begin(w) \/ ReadCursor(w) \/ ReadMarker(w) \/ FetchFresh(w)
       \/ \E pressure \in Pressures : FetchPage(w, pressure)
       \/ \E s \in 1 .. MaxSig, terminal \in BOOLEAN : IngestReturns(w, s, terminal)
       \/ Settle(w) \/ Promote(w) \/ ClearMarker(w) \/ SweepFails(w)
  \/ NewSignature \/ ChangeMode \/ Crash

Spec == Init /\ [][Next]_vars

\* The tick fires, queries are answered, an ingest settles, one that is tried
\* for ever is terminal at last, and a backlog left waiting grows old.
Fairness ==
  /\ WF_vars(\E w \in Sweeps : Begin(w))
  /\ \A w \in Sweeps :
       /\ WF_vars(ReadCursor(w) \/ ReadMarker(w) \/ FetchFresh(w)
                    \/ (\E pressure \in Pressures : FetchPage(w, pressure))
                    \/ Settle(w) \/ Promote(w) \/ ClearMarker(w))
       /\ SF_vars(FetchPage(w, "full") /\ sweep'[w].pc = "ingest")
  /\ \A s \in 1 .. MaxSig :
       /\ WF_vars(\E w \in Sweeps, t \in BOOLEAN : IngestReturns(w, s, t))
       /\ SF_vars(\E w \in Sweeps : IngestReturns(w, s, TRUE))

FairSpec == Spec /\ Fairness

----------------------------------------------------------------------------
SweepRecord == [pc : {"idle", "cursor", "marker", "fresh", "page", "ingest", "promote", "clear"},
                gen : Nat, until : Nat, mark : [frozen : Nat, before : Nat],
                before : Nat, pages : Nat, rows : SUBSET (1 .. MaxSig), full : BOOLEAN,
                ok : SUBSET (1 .. MaxSig), todo : SUBSET (1 .. MaxSig)]

TypeOK ==
  /\ head \in 0 .. MaxSig /\ on \in BOOLEAN /\ gen \in Nat
  /\ inFlight \in BOOLEAN /\ sweep \in [Sweeps -> SweepRecord]
  /\ seen \subseteq 1 .. MaxSig /\ safe \subseteq done
  /\ queue \in Seq(1 .. MaxSig)
  /\ cursor \in Nat /\ marker \in [frozen : Nat, before : Nat]
  /\ done \subseteq 1 .. MaxSig /\ base \in Nat /\ gap \subseteq 1 .. MaxSig
  /\ walked \subseteq 1 .. MaxSig /\ lost \subseteq 1 .. MaxSig

\* A sweep with too few pages to reach the cursor does not take it over what
\* lies below them.
PagesReachTheCursor == gap = {}

\* The cursor passes a signature only when its outcome is terminal, except
\* that those a catch-up walk went over may still wait in the backlog, and
\* are gone if a crash finds them there, and that a sweep which finds no
\* cursor starts at its first page.  What it passes unseen otherwise, only the
\* few pages of the lean modes let it.
NothingSkipped ==
  /\ \A s \in 1 .. cursor :
       s > base => s \in Failed \cup done \cup gap \cup (walked \cap (Range(queue) \cup lost))
  /\ LowPages < MaxPages => PagesReachTheCursor

\* With sales ingestion on, the cursor reaches the head of a chain that
\* stops growing, through backlog, catch-up, failures and restarts.
PollerCatchesUp == <>[](~on \/ (cursor = head /\ marker = NoMark))
=============================================================================
