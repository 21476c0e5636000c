------------------------------- MODULE Limiter -------------------------------
(***************************************************************************)
(* Limiter (ingestion/concurrency.ts): callers hand it tasks, at most Max   *)
(* run at once, the others wait in three FIFO buckets.  A task's slot may   *)
(* be held for a while after it ended, low tasks that waited too long are   *)
(* shed, and a gate the runtime mode closes turns every task that would     *)
(* start into a null.                                                       *)
(***************************************************************************)
EXTENDS Naturals, Sequences, FiniteSets

CONSTANTS
  Tasks,          \* calls of run(); a settled one may be made again
  Max             \* slots

ASSUME LimiterAssumption == Max \in Nat \ {0} /\ IsFiniteSet(Tasks)

Priority == {"high", "medium", "low"}
Outcome == {"pending", "null", "value", "error"}

VARIABLES
  delayed,        \* constructor parameter: delayMs > 0
  sheds,          \* constructor parameter: staleLowMs > 0
  gate,           \* what the gate predicate answers
  running,        \* slots taken
  queues,         \* the buckets
  stale,          \* length of the part of the low bucket past staleLowMs
  stage,          \* where each call is
  outcome         \* what its promise is resolved with

params == <<delayed, sheds>>
vars == <<params, gate, running, queues, stale, stage, outcome>>

Empty == [p \in Priority |-> <<>>]
Elements(s) == {s[i] : i \in DOMAIN s}
Waiting == {t \in Tasks : stage[t] = "queued"}
Serving == {t \in Tasks : stage[t] \in {"running", "holding"}}

Init ==
  /\ delayed \in BOOLEAN /\ sheds \in BOOLEAN
  /\ gate = TRUE /\ running = 0 /\ stale = 0 /\ queues = Empty
  /\ stage = [t \in Tasks |-> "idle"] /\ outcome = [t \in Tasks |-> "pending"]

\* Calls of S are settled with null.
Refused(S) ==
  /\ stage' = [t \in Tasks |-> IF t \in S THEN "settled" ELSE stage[t]]
  /\ outcome' = [t \in Tasks |-> IF t \in S THEN "null" ELSE outcome[t]]

Exec(t) ==
  /\ running' = running + 1
  /\ stage' = [stage EXCEPT ![t] = "running"]
  /\ UNCHANGED <<queues, stale, outcome>>

\* Variant: the limit is checked after the fact.
Run_OneTooMany(t, p) ==
  /\ stage[t] = "idle"
  /\ \/ /\ ~ gate
        /\ Refused({t})
        /\ UNCHANGED <<running, queues, stale>>
     \/ gate /\ running <= Max /\ Exec(t)
     \/ /\ gate /\ running > Max
        /\ queues' = [queues EXCEPT ![p] = Append(@, t)]
        /\ stage' = [stage EXCEPT ![t] = "queued"]
        /\ UNCHANGED <<running, stale, outcome>>
  /\ UNCHANGED <<params, gate>>

Run(t, p) ==
  /\ stage[t] = "idle"
  /\ \/ /\ ~ gate
        /\ Refused({t})
        /\ UNCHANGED <<running, queues, stale>>
     \/ gate /\ running < Max /\ Exec(t)
     \/ /\ gate /\ running >= Max
        /\ queues' = [queues EXCEPT ![p] = Append(@, t)]
        /\ stage' = [stage EXCEPT ![t] = "queued"]
        /\ UNCHANGED <<running, stale, outcome>>
  /\ UNCHANGED <<params, gate>>

\* How many tasks at the head of a bucket are shed, the buckets without them,
\* and the bucket served next.
Cut(p) == IF p = "low" THEN stale ELSE 0
Fresh == [p \in Priority |-> SubSeq(queues[p], Cut(p) + 1, Len(queues[p]))]
Shed == UNION {{queues[p][i] : i \in 1 .. Cut(p)} : p \in Priority}

\* Variant: the order of the buckets is reversed.
Served_LowFirst(q) ==
  IF q["low"] # <<>> THEN "low" ELSE IF q["medium"] # <<>> THEN "medium" ELSE "high"

Served(q) ==
  IF q["high"] # <<>> THEN "high" ELSE IF q["medium"] # <<>> THEN "medium" ELSE "low"

\* Variant: the gate is checked by run() only.
Admits_Always == TRUE

Admits == gate

\* Variant: a freed slot is not handed on.
Release_NoDispatch(t, o) ==
  /\ running' = running - 1
  /\ stage' = [stage EXCEPT ![t] = "settled"]
  /\ outcome' = [outcome EXCEPT ![t] = o]
  /\ UNCHANGED <<queues, stale>>

\* Call t gives its slot up with outcome o: dispatchNext.  The first task of
\* the first bucket starts, or under a closed gate takes the slot without
\* running; without a delay the closed gate so drains every bucket at once.
Release(t, o) ==
  LET p == Served(Fresh)
      u == Head(Fresh[p])
      settled == {t} \cup Shed
      Becomes(next) ==
        stage' = [v \in Tasks |->
          IF v \in settled THEN "settled" ELSE IF v = u THEN next ELSE stage[v]]
      Settles(S) ==
        outcome' = [v \in Tasks |->
          IF v = t THEN o ELSE IF v \in S THEN "null" ELSE outcome[v]]
  IN
  /\ stale' = 0
  /\ IF Fresh = Empty \/ (~ Admits /\ ~ delayed)
     THEN /\ queues' = Empty /\ running' = running - 1
          /\ stage' = [v \in Tasks |->
               IF v = t \/ stage[v] = "queued" THEN "settled" ELSE stage[v]]
          /\ Settles(Waiting)
     ELSE /\ queues' = [Fresh EXCEPT ![p] = Tail(@)] /\ running' = running
          /\ IF Admits THEN Becomes("running") /\ Settles(Shed)
             ELSE Becomes("holding") /\ Settles(Shed \cup {u})

\* The task's own promise settles; with a delay the slot is held for longer.
FnSettles(t) ==
  /\ stage[t] = "running"
  /\ \E o \in {"value", "error"} :
       IF delayed
       THEN /\ stage' = [stage EXCEPT ![t] = "holding"]
            /\ outcome' = [outcome EXCEPT ![t] = o]
            /\ UNCHANGED <<running, queues, stale>>
       ELSE Release(t, o)
  /\ UNCHANGED <<params, gate>>

DelayEnds(t) ==
  /\ stage[t] = "holding"
  /\ Release(t, outcome[t])
  /\ UNCHANGED <<params, gate>>

\* Variant: the teardown also resets the counter.
AbortQueued_ResetsRunning ==
  /\ queues' = Empty /\ stale' = 0 /\ running' = 0
  /\ Refused(Waiting)
  /\ UNCHANGED <<params, gate>>

AbortQueued ==
  /\ queues' = Empty /\ stale' = 0
  /\ Refused(Waiting)
  /\ UNCHANGED <<params, gate, running>>

\* The oldest low task that was not stale yet becomes stale.
TimePasses ==
  /\ sheds /\ stale < Len(queues["low"])
  /\ stale' = stale + 1
  /\ UNCHANGED <<params, gate, running, queues, stage, outcome>>

\* setMode or setMintTrackerEnabled.
GateFlips ==
  /\ gate' = ~ gate
  /\ UNCHANGED <<params, running, queues, stale, stage, outcome>>

\* The caller makes another call.
CallAgain(t) ==
  /\ stage[t] = "settled"
  /\ stage' = [stage EXCEPT ![t] = "idle"]
  /\ outcome' = [outcome EXCEPT ![t] = "pending"]
  /\ UNCHANGED <<params, gate, running, queues, stale>>

Next ==
  \/ \E t \in Tasks :
       \/ \E p \in Priority : Run(t, p)
       \/ FnSettles(t) \/ DelayEnds(t) \/ CallAgain(t)
  \/ AbortQueued \/ TimePasses \/ GateFlips

Spec == Init /\ [][Next]_vars

\* Tasks end (every fetch has a timeout) and delays end; nobody need call.
Fairness == \A t \in Tasks : WF_vars(FnSettles(t)) /\ WF_vars(DelayEnds(t))
FairSpec == Spec /\ Fairness

----------------------------------------------------------------------------
TypeOK ==
  /\ delayed \in BOOLEAN /\ sheds \in BOOLEAN /\ gate \in BOOLEAN
  /\ running \in Nat
  /\ queues \in [Priority -> Seq(Tasks)]
  /\ stale \in 0 .. Len(queues["low"])
  /\ stage \in [Tasks -> {"idle", "queued", "running", "holding", "settled"}]
  /\ outcome \in [Tasks -> Outcome]

\* However the gate flips, the queue is aborted and tasks fail, no slot is
\* leaked or handed out twice: the counter is the number of calls that hold
\* a slot and never exceeds the maximum.
SlotsAreCounted == running = Cardinality(Serving) /\ running <= Max

\* Work is never parked next to a free slot, and so run() cannot overtake a
\* task that waits: a bucket holds a task only while all slots are taken.
NoIdleSlot == queues # Empty => running = Max

\* A task starts from the queue only when no task of a higher priority waits
\* and no earlier task of its own bucket is left waiting.
FirstOfTheHighest ==
  [][\A p, q \in Priority : \A i \in DOMAIN queues[p], j \in DOMAIN queues[q] :
       /\ stage'[queues[p][i]] = "running"
       /\ \/ p = q /\ j < i
          \/ q = "high" /\ p # "high"
          \/ q = "medium" /\ p = "low"
       => stage'[queues[q][j]] = "settled"]_vars

\* While the gate is closed no task starts, whenever it was queued.
ClosedGateStartsNothing ==
  [][~ gate => \A t \in Tasks : stage'[t] = "running" => stage[t] = "running"]_vars

\* A high task that waits is settled, however many calls of every priority
\* keep coming; medium and low ones may starve.
HighIsServed ==
  \A t \in Tasks : (t \in Elements(queues["high"])) ~> (stage[t] # "queued")

\* The limiter implements the promise of CallPool.
Pool == INSTANCE CallPool WITH Calls <- Tasks, waiting <- Waiting, serving <- Serving
ImplementsPool == Pool!Spec
=============================================================================
