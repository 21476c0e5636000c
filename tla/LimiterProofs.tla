---------------------------- MODULE LimiterProofs ----------------------------
(***************************************************************************)
(* The limiter, for any number of calls, any maximum and any constructor   *)
(* parameters: its slots, its buckets, and that it keeps CallPool's        *)
(* promise.                                                                *)
(***************************************************************************)
EXTENDS Limiter, FiniteSetTheorems, TLAPS

Stages == {"idle", "queued", "running", "holding", "settled"}

\* The buckets list exactly the calls that wait, each once.
Listed == \A p \in Priority : \A i \in 1 .. Len(queues[p]) : stage[queues[p][i]] = "queued"
Once ==
  \A p, q \in Priority : \A i \in 1 .. Len(queues[p]), j \in 1 .. Len(queues[q]) :
    queues[p][i] = queues[q][j] => p = q /\ i = j
AllListed ==
  \A t \in Tasks : stage[t] = "queued" =>
    \E p \in Priority : \E i \in 1 .. Len(queues[p]) : queues[p][i] = t

Buckets ==
  /\ queues \in [Priority -> Seq(Tasks)] /\ stage \in [Tasks -> Stages]
  /\ Listed /\ Once /\ AllListed

IInv == TypeOK /\ Buckets /\ SlotsAreCounted /\ NoIdleSlot

\* The buckets without their first d[p] tasks.
Without(d) == [p \in Priority |-> SubSeq(queues[p], d[p] + 1, Len(queues[p]))]
Gone(d) == {v \in Tasks : \E p \in Priority : \E i \in 1 .. d[p] : queues[p][i] = v}
Cuts == {d \in [Priority -> Nat] : \A p \in Priority : d[p] <= Len(queues[p])}

LEMMA SuffixFacts ==
  ASSUME NEW S, NEW s \in Seq(S), NEW n \in Nat, n <= Len(s)
  PROVE  /\ SubSeq(s, n + 1, Len(s)) \in Seq(S)
         /\ Len(SubSeq(s, n + 1, Len(s))) = Len(s) - n
         /\ \A i \in 1 .. Len(s) - n : SubSeq(s, n + 1, Len(s))[i] = s[i + n]
OBVIOUS

\* Taking tasks off the heads of the buckets, and nothing else off the calls
\* that wait, keeps the buckets right.
LEMMA DroppingKeepsBuckets ==
  ASSUME Buckets, NEW d \in Cuts, queues' = Without(d), stage' \in [Tasks -> Stages],
         \A v \in Tasks : stage'[v] = "queued" <=> stage[v] = "queued" /\ v \notin Gone(d)
  PROVE  Buckets'
<1>1. /\ queues' \in [Priority -> Seq(Tasks)]
      /\ \A p \in Priority : Len(queues'[p]) = Len(queues[p]) - d[p]
      /\ \A p \in Priority : \A i \in 1 .. Len(queues'[p]) :
           queues'[p][i] = queues[p][i + d[p]]
  BY SuffixFacts DEF Without, Cuts, Buckets
<1>2. \A p \in Priority : \A i \in 1 .. Len(queues'[p]) :
        i + d[p] \in 1 .. Len(queues[p]) /\ i + d[p] \notin 1 .. d[p]
        /\ queues[p][i + d[p]] \in Tasks
  BY <1>1 DEF Cuts, Buckets
<1>3. Once'
  <2> SUFFICES ASSUME NEW p \in Priority, NEW q \in Priority,
                      NEW i \in 1 .. Len(queues'[p]), NEW j \in 1 .. Len(queues'[q]),
                      queues'[p][i] = queues'[q][j]
               PROVE  p = q /\ i = j
    BY DEF Once
  <2>1. /\ i + d[p] \in 1 .. Len(queues[p]) /\ j + d[q] \in 1 .. Len(queues[q])
        /\ queues[p][i + d[p]] = queues[q][j + d[q]]
    BY <1>1, <1>2
  <2>2. \A a \in 1 .. Len(queues[p]), b \in 1 .. Len(queues[q]) :
          queues[p][a] = queues[q][b] => p = q /\ a = b
    BY DEF Buckets, Once
  <2>3. p = q /\ i + d[p] = j + d[q] BY <2>1, <2>2
  <2> QED BY <2>3, <1>1 DEF Cuts
<1>4. Listed'
  <2> SUFFICES ASSUME NEW p \in Priority, NEW i \in 1 .. Len(queues'[p])
               PROVE  stage'[queues'[p][i]] = "queued"
    BY DEF Listed
  <2> DEFINE v == queues[p][i + d[p]]
  <2>1. v \in Tasks /\ stage[v] = "queued" BY <1>2 DEF Buckets, Listed
  <2>2. v \notin Gone(d)
    <3> SUFFICES ASSUME NEW q \in Priority, NEW j \in 1 .. d[q], queues[q][j] = v
                 PROVE  FALSE
      BY DEF Gone
    <3>1. j \in 1 .. Len(queues[q]) BY DEF Cuts, Buckets
    <3>2. p = q /\ i + d[p] = j BY <1>2, <3>1 DEF Buckets, Once
    <3> QED BY <3>2, <1>2
  <2> QED BY <2>1, <2>2, <1>1
<1>5. AllListed'
  <2> SUFFICES ASSUME NEW v \in Tasks, stage'[v] = "queued"
               PROVE  \E p \in Priority : \E i \in 1 .. Len(queues'[p]) : queues'[p][i] = v
    BY DEF AllListed
  <2>1. PICK p \in Priority : \E i \in 1 .. Len(queues[p]) : queues[p][i] = v
    BY DEF Buckets, AllListed
  <2>2. PICK i \in 1 .. Len(queues[p]) : queues[p][i] = v BY <2>1
  <2>3. i \notin 1 .. d[p] BY <2>2 DEF Gone
  <2>4. i - d[p] \in 1 .. Len(queues'[p]) /\ (i - d[p]) + d[p] = i
    BY <1>1, <2>3 DEF Cuts, Buckets
  <2>5. queues'[p][i - d[p]] = v BY <1>1, <2>2, <2>4
  <2> QED BY <2>4, <2>5
<1> QED BY <1>1, <1>3, <1>4, <1>5 DEF Buckets

----------------------------------------------------------------------------
LEMMA ServingFacts ==
  ASSUME TypeOK
  PROVE  /\ IsFiniteSet(Serving)
         /\ Cardinality(Serving) \in Nat
         /\ \A t \in Serving : /\ Cardinality(Serving \ {t}) = Cardinality(Serving) - 1
                               /\ IsFiniteSet(Serving \ {t})
         /\ \A t \in Tasks \ Serving :
              Cardinality(Serving \cup {t}) = Cardinality(Serving) + 1
<1>1. IsFiniteSet(Serving)
  BY FS_Subset, LimiterAssumption DEF Serving
<1> QED BY <1>1, FS_CardinalityType, FS_RemoveElement, FS_AddElement

\* The instance of CallPool has its own copy of FiniteSets.
LEMMA SameCardinality == \A S : Pool!Cardinality(S) = Cardinality(S)
BY Zenon DEF Pool!Cardinality, Cardinality

\* With free slots nothing waits.
LEMMA NothingWaits ==
  ASSUME Buckets, queues = Empty
  PROVE  Waiting = {}
<1>1. \A p \in Priority : Len(queues[p]) = 0 BY DEF Empty
<1> QED BY <1>1 DEF Buckets, AllListed, Waiting

LEMMA CutFacts ==
  ASSUME TypeOK
  PROVE  /\ [p \in Priority |-> Cut(p)] \in Cuts
         /\ Fresh = Without([p \in Priority |-> Cut(p)])
         /\ Fresh \in [Priority -> Seq(Tasks)]
         /\ Shed = Gone([p \in Priority |-> Cut(p)])
<1>1. \A p \in Priority : Cut(p) \in Nat /\ Cut(p) <= Len(queues[p])
  BY DEF TypeOK, Cut, Priority
<1>2. Fresh = Without([p \in Priority |-> Cut(p)])
  BY DEF Fresh, Without
<1>3. Fresh \in [Priority -> Seq(Tasks)]
  BY <1>1, SuffixFacts DEF Fresh, TypeOK
<1>4. \A p \in Priority : \A i \in 1 .. Cut(p) : queues[p][i] \in Tasks
  BY <1>1 DEF TypeOK
<1>5. Shed = Gone([p \in Priority |-> Cut(p)])
  BY <1>4 DEF Shed, Gone
<1> QED BY <1>1, <1>2, <1>3, <1>5 DEF Cuts

\* The bucket served next is one that holds a task, if any does.
LEMMA ServedFacts ==
  ASSUME NEW q \in [Priority -> Seq(Tasks)], q # Empty
  PROVE  /\ Served(q) \in Priority
         /\ q[Served(q)] # <<>>
         /\ Head(q[Served(q)]) \in Tasks
<1>1. \E p \in Priority : q[p] # <<>>
  BY DEF Empty
<1>2. Served(q) \in Priority /\ q[Served(q)] # <<>>
  BY <1>1 DEF Served, Priority
<1> QED BY <1>2

----------------------------------------------------------------------------
\* A slot that is given up with nobody left to take it.
LEMMA ReleaseToNobody ==
  ASSUME IInv, NEW t \in Serving,
         queues' = Empty, running' = running - 1, stale' = 0,
         stage' = [v \in Tasks |->
           IF v = t \/ stage[v] = "queued" THEN "settled" ELSE stage[v]],
         outcome' \in [Tasks -> Outcome], UNCHANGED <<params, gate>>
  PROVE  IInv' /\ Pool!HandOver(t, Waiting)
<1>a. TypeOK /\ Buckets /\ t \in Tasks /\ stage[t] \in {"running", "holding"}
  BY DEF IInv, Serving
<1> DEFINE d == [p \in Priority |-> Len(queues[p])]
<1>1. stage' \in [Tasks -> Stages]
  BY <1>a DEF Buckets, Stages
<1>2. d \in Cuts /\ Without(d) = Empty
  <2>1. \A p \in Priority : Len(queues[p]) \in Nat /\ queues[p] \in Seq(Tasks)
    BY <1>a DEF Buckets
  <2>2. \A p \in Priority : SubSeq(queues[p], Len(queues[p]) + 1, Len(queues[p])) = <<>>
    BY <2>1
  <2> QED BY <2>1, <2>2 DEF Cuts, Without, Empty
<1>3. Gone(d) = Waiting
  BY <1>a DEF Gone, Waiting, Buckets, Listed, AllListed
<1>4. \A v \in Tasks : stage'[v] = "queued" <=> stage[v] = "queued" /\ v \notin Gone(d)
  BY <1>3 DEF Waiting
<1>5. Buckets'
  <2> HIDE DEF d
  <2> QED BY <1>a, <1>1, <1>2, <1>4, DroppingKeepsBuckets
<1>6. Serving' = Serving \ {t} /\ Waiting' = {}
  BY <1>a DEF Serving, Waiting
<1>7. running' \in Nat /\ SlotsAreCounted'
  <2>1. Cardinality(Serving') = Cardinality(Serving) - 1
        /\ Cardinality(Serving) \in Nat /\ IsFiniteSet(Serving')
    BY <1>a, <1>6, ServingFacts
  <2>2. Cardinality(Serving') \in Nat BY <2>1, FS_CardinalityType
  <2> QED BY <2>1, <2>2, LimiterAssumption DEF IInv, SlotsAreCounted
<1>8. TypeOK'
  <2>1. Len(queues'["low"]) = 0 BY DEF Empty, Priority
  <2>2. queues' \in [Priority -> Seq(Tasks)] BY DEF Empty
  <2> QED BY <1>a, <1>1, <1>7, <2>1, <2>2 DEF TypeOK, Stages, params
<1> QED BY <1>5, <1>6, <1>7, <1>8 DEF IInv, NoIdleSlot, Pool!HandOver

\* The task that takes over a slot: the first one of the bucket served next
\* that is not shed.
LEMMA NextFacts ==
  ASSUME TypeOK, Buckets, Fresh # Empty
  PROVE  /\ Served(Fresh) \in Priority /\ Fresh[Served(Fresh)] # <<>>
         /\ Head(Fresh[Served(Fresh)]) \in Tasks
         /\ Cut(Served(Fresh)) \in Nat
         /\ Cut(Served(Fresh)) + 1 \in 1 .. Len(queues[Served(Fresh)])
         /\ Head(Fresh[Served(Fresh)]) = queues[Served(Fresh)][Cut(Served(Fresh)) + 1]
<1> DEFINE p == Served(Fresh)
           u == Head(Fresh[p])
           c == [q \in Priority |-> Cut(q)]
<1>1. /\ c \in Cuts /\ Fresh = Without(c) /\ Shed = Gone(c)
      /\ Fresh \in [Priority -> Seq(Tasks)]
  BY CutFacts
<1>2. p \in Priority /\ Fresh[p] # <<>> /\ u \in Tasks
  BY <1>1, ServedFacts
<1>3. /\ \A q \in Priority : /\ Cut(q) \in Nat /\ Cut(q) <= Len(queues[q])
                             /\ queues[q] \in Seq(Tasks)
                             /\ Fresh[q] = SubSeq(queues[q], Cut(q) + 1, Len(queues[q]))
  BY <1>1 DEF Cuts, Without, Buckets
<1>4. Cut(p) + 1 <= Len(queues[p]) /\ u = queues[p][Cut(p) + 1]
  <2>1. Len(Fresh[p]) = Len(queues[p]) - Cut(p) BY <1>2, <1>3, SuffixFacts
  <2>2. Len(Fresh[p]) >= 1 BY <1>1, <1>2
  <2>3. u = Fresh[p][1] BY <1>1, <1>2
  <2>4. Fresh[p][1] = queues[p][1 + Cut(p)]
    <3>1. 1 \in 1 .. Len(queues[p]) - Cut(p) BY <1>2, <1>3, <2>1, <2>2
    <3>2. \A i \in 1 .. Len(queues[p]) - Cut(p) : Fresh[p][i] = queues[p][i + Cut(p)]
      <4> DEFINE s == queues[p]
                 n == Cut(p)
                 f == Fresh[p]
      <4>1. s \in Seq(Tasks) /\ n \in Nat /\ n <= Len(s) /\ f = SubSeq(s, n + 1, Len(s))
        BY <1>2, <1>3
      <4> HIDE DEF s, n, f
      <4>2. \A i \in 1 .. Len(s) - n : f[i] = s[i + n] BY <4>1, SuffixFacts
      <4> QED BY <4>2 DEF s, n, f
    <3> QED BY <3>1, <3>2
  <2> QED BY <1>2, <1>3, <2>1, <2>2, <2>3, <2>4
<1> QED BY <1>2, <1>3, <1>4

\* A slot that is handed to the head of the bucket served next.
LEMMA ReleaseToNext ==
  ASSUME IInv, NEW t \in Serving, Fresh # Empty, running' = running, stale' = 0,
         NEW next \in {"running", "holding"},
         queues' = [Fresh EXCEPT ![Served(Fresh)] = Tail(@)],
         stage' = [v \in Tasks |->
           IF v \in {t} \cup Shed THEN "settled"
           ELSE IF v = Head(Fresh[Served(Fresh)]) THEN next ELSE stage[v]],
         outcome' \in [Tasks -> Outcome], UNCHANGED <<params, gate>>
  PROVE  IInv' /\ Pool!HandOver(t, Shed)
<1>a. TypeOK /\ Buckets /\ t \in Tasks /\ stage[t] \in {"running", "holding"}
  BY DEF IInv, Serving
<1> DEFINE p == Served(Fresh)
           u == Head(Fresh[p])
           c == [q \in Priority |-> Cut(q)]
           d == [q \in Priority |-> IF q = p THEN Cut(q) + 1 ELSE Cut(q)]
<1>1. /\ c \in Cuts /\ Fresh = Without(c) /\ Shed = Gone(c)
      /\ Fresh \in [Priority -> Seq(Tasks)]
  BY <1>a, CutFacts
<1>2. p \in Priority /\ Fresh[p] # <<>> /\ u \in Tasks
  BY <1>1, ServedFacts
<1>3. /\ \A q \in Priority : /\ Cut(q) \in Nat /\ Cut(q) <= Len(queues[q])
                             /\ queues[q] \in Seq(Tasks)
                             /\ Fresh[q] = SubSeq(queues[q], Cut(q) + 1, Len(queues[q]))
  BY <1>a, <1>1 DEF Cuts, Without, Buckets
<1>4. Cut(p) + 1 <= Len(queues[p]) /\ u = queues[p][Cut(p) + 1]
  BY <1>a, <1>2, <1>3, NextFacts
<1>5. d \in Cuts
  <2>1. \A q \in Priority : d[q] \in Nat /\ d[q] <= Len(queues[q])
    <3> HIDE DEF p, u
    <3> QED BY <1>2, <1>3, <1>4
  <2>2. d \in [Priority -> Nat] BY <2>1
  <2> HIDE DEF d
  <2> QED BY <2>1, <2>2 DEF Cuts
<1>6. queues' = Without(d)
  <2>1. ASSUME NEW q \in Priority, q # p
        PROVE  queues'[q] = SubSeq(queues[q], d[q] + 1, Len(queues[q]))
    <3>1. queues'[q] = Fresh[q] BY <2>1, <1>1
    <3>2. d[q] = Cut(q) BY <2>1
    <3> QED BY <3>1, <3>2, <1>3
  <2>2. queues'[p] = Tail(Fresh[p]) BY <1>1, <1>2
  <2>3. Tail(Fresh[p]) = SubSeq(queues[p], (Cut(p) + 1) + 1, Len(queues[p]))
    <3> DEFINE s == queues[p]
               n == Cut(p)
    <3>1. s \in Seq(Tasks) /\ n \in Nat /\ n + 1 <= Len(s) BY <1>2, <1>3, <1>4
    <3>2. Fresh[p] = SubSeq(s, n + 1, Len(s)) BY <1>2, <1>3
    <3> HIDE DEF s, n
    <3>3. Tail(SubSeq(s, n + 1, Len(s))) = SubSeq(s, (n + 1) + 1, Len(s))
      BY <3>1, SuffixFacts
    <3> QED BY <3>2, <3>3 DEF s, n
  <2>4. d[p] = Cut(p) + 1 BY <1>2
  <2>5. queues'[p] = SubSeq(queues[p], d[p] + 1, Len(queues[p])) BY <2>2, <2>3, <2>4
  <2> QED BY <1>1, <2>1, <2>5 DEF Without
<1>7. Gone(d) = Shed \cup {u}
  <2>1. \A q \in Priority : 1 .. d[q] = 1 .. Cut(q) \cup (IF q = p THEN {Cut(q) + 1} ELSE {})
    BY <1>3
  <2> HIDE DEF u, p, d
  <2> QED BY <1>1, <1>2, <1>4, <2>1 DEF Gone
<1>8. Shed \subseteq Waiting /\ u \in Waiting /\ u \notin Shed /\ u # t
  <2>1. \A q \in Priority : \A i \in 1 .. Cut(q) : i \in 1 .. Len(queues[q])
    BY <1>3
  <2>2. Shed \subseteq Waiting
    BY <1>a, <1>1, <2>1 DEF Gone, Waiting, Buckets, Listed
  <2>3. Cut(p) + 1 \in 1 .. Len(queues[p]) /\ Cut(p) + 1 \notin 1 .. Cut(p)
    BY <1>2, <1>3, <1>4
  <2>4. u \in Waiting
    BY <1>a, <1>2, <1>4, <2>3 DEF Waiting, Buckets, Listed
  <2>5. u \notin Shed
    <3> SUFFICES ASSUME NEW q \in Priority, NEW i \in 1 .. Cut(q), queues[q][i] = u
                 PROVE  FALSE
      BY <1>1 DEF Gone
    <3>1. i \in 1 .. Len(queues[q]) BY <2>1
    <3>2. q = p /\ i = Cut(p) + 1
      BY <1>a, <1>2, <1>4, <2>3, <3>1 DEF Buckets, Once
    <3> QED BY <2>3, <3>2
  <2> QED BY <1>a, <2>2, <2>4, <2>5 DEF Waiting
<1>s. stage' = [v \in Tasks |->
        IF v \in {t} \cup Shed THEN "settled" ELSE IF v = u THEN next ELSE stage[v]]
  OBVIOUS
<1> HIDE DEF u, p, c, d
<1>9. stage' \in [Tasks -> Stages]
  BY <1>a, <1>s DEF Buckets, Stages
<1>10. \A v \in Tasks : stage'[v] = "queued" <=> stage[v] = "queued" /\ v \notin Gone(d)
  BY <1>a, <1>7, <1>8, <1>s DEF Waiting
<1>11. Buckets'
  BY <1>a, <1>5, <1>6, <1>9, <1>10, DroppingKeepsBuckets
<1>12. Serving' = (Serving \ {t}) \cup {u} /\ Waiting' = Waiting \ (Shed \cup {u})
  BY <1>a, <1>2, <1>8, <1>s DEF Serving, Waiting
<1>13. Cardinality(Serving') = Cardinality(Serving)
  <2>1. u \notin Serving \ {t} BY <1>8 DEF Waiting, Serving
  <2>2. Cardinality((Serving \ {t}) \cup {u}) = Cardinality(Serving \ {t}) + 1
    BY <1>a, <2>1, ServingFacts, FS_AddElement
  <2> QED BY <1>a, <1>12, <2>2, ServingFacts
<1>14. TypeOK'
  BY <1>a, <1>9, <1>11 DEF TypeOK, Buckets, Stages, params, Priority
<1>15. running = Max
  <2>1. queues # Empty
    BY <1>2, <1>4, <1>3 DEF Empty
  <2> QED BY <2>1 DEF IInv, NoIdleSlot
<1> QED BY <1>8, <1>11, <1>12, <1>13, <1>14, <1>15
        DEF IInv, NoIdleSlot, SlotsAreCounted, Pool!HandOver

----------------------------------------------------------------------------
LEMMA ReleaseFacts ==
  ASSUME IInv, NEW t \in Serving, NEW o \in Outcome, Release(t, o),
         UNCHANGED <<params, gate>>
  PROVE  /\ IInv'
         /\ \E refused \in SUBSET Tasks : Pool!HandOver(t, refused)
         /\ ~ gate => \A v \in Tasks : stage'[v] = "running" => stage[v] = "running"
<1>a. TypeOK /\ stage \in [Tasks -> Stages] /\ stale' = 0
  BY DEF IInv, TypeOK, Stages, Release
<1>b. \A S : [v \in Tasks |-> IF v = t THEN o ELSE IF v \in S THEN "null" ELSE outcome[v]]
               \in [Tasks -> Outcome]
  BY <1>a DEF TypeOK, Outcome
<1>1. CASE Fresh = Empty \/ (~ Admits /\ ~ delayed)
  <2>1. /\ queues' = Empty /\ running' = running - 1
        /\ stage' = [v \in Tasks |->
             IF v = t \/ stage[v] = "queued" THEN "settled" ELSE stage[v]]
        /\ outcome' \in [Tasks -> Outcome]
    BY <1>1, <1>b DEF Release
  <2>2. IInv' /\ Pool!HandOver(t, Waiting)
    BY <1>a, <2>1, ReleaseToNobody
  <2>3. Waiting \in SUBSET Tasks BY DEF Waiting
  <2> QED BY <1>a, <2>1, <2>2, <2>3
<1>2. CASE ~ (Fresh = Empty \/ (~ Admits /\ ~ delayed))
  <2> DEFINE u == Head(Fresh[Served(Fresh)])
             Becomes(next) == [v \in Tasks |->
               IF v \in {t} \cup Shed THEN "settled" ELSE IF v = u THEN next ELSE stage[v]]
  <2>1. PICK next \in {"running", "holding"} :
          /\ stage' = Becomes(next) /\ outcome' \in [Tasks -> Outcome]
          /\ next = "running" => gate
    BY <1>2, <1>b DEF Release, Admits
  <2>2. /\ queues' = [Fresh EXCEPT ![Served(Fresh)] = Tail(@)] /\ running' = running
        /\ Fresh # Empty
    BY <1>2 DEF Release
  <2>3. IInv' /\ Pool!HandOver(t, Shed)
    BY <1>a, <2>1, <2>2, ReleaseToNext
  <2>4. Shed \in SUBSET Tasks
    BY <1>a, CutFacts DEF Gone
  <2>5. ~ gate => \A v \in Tasks : stage'[v] = "running" => stage[v] = "running"
    <3> HIDE DEF u
    <3> QED BY <2>1
  <2> QED BY <2>3, <2>4, <2>5
<1> QED BY <1>1, <1>2

\* A call that takes a free slot at once.
LEMMA BeginFacts ==
  ASSUME IInv, NEW t \in Tasks, stage[t] = "idle", running < Max, Exec(t),
         UNCHANGED <<params, gate>>
  PROVE  IInv' /\ Pool!Begin(t)
<1>a. TypeOK /\ Buckets /\ queues = Empty
  BY LimiterAssumption DEF IInv, NoIdleSlot
<1>1. stage' \in [Tasks -> Stages] /\ queues' = queues /\ stale' = stale
      /\ \A v \in Tasks : stage'[v] = "queued" <=> stage[v] = "queued"
  BY <1>a DEF Exec, Buckets, Stages
<1>2. Buckets'
  BY <1>a, <1>1 DEF Buckets, Listed, Once, AllListed
<1>3. Serving' = Serving \cup {t} /\ Waiting' = Waiting /\ t \notin Serving /\ t \notin Waiting
  BY <1>a DEF Exec, Serving, Waiting, Buckets, Stages
<1>4. running' = running + 1 /\ running' = Cardinality(Serving') /\ running' <= Max
      /\ running' \in Nat
  BY <1>a, <1>3, ServingFacts, LimiterAssumption DEF Exec, IInv, SlotsAreCounted
<1>5. TypeOK'
  BY <1>a, <1>1, <1>4 DEF Exec, TypeOK, Stages, params
<1>6. Pool!Begin(t)
  BY <1>a, <1>3, NothingWaits, SameCardinality DEF Pool!Begin, IInv, SlotsAreCounted
<1> QED BY <1>a, <1>1, <1>2, <1>4, <1>5, <1>6 DEF IInv, SlotsAreCounted, NoIdleSlot

\* A call that joins a bucket.
LEMMA WaitFacts ==
  ASSUME IInv, NEW t \in Tasks, NEW p \in Priority, stage[t] = "idle", running >= Max,
         queues' = [queues EXCEPT ![p] = Append(@, t)],
         stage' = [stage EXCEPT ![t] = "queued"],
         UNCHANGED <<params, gate, running, stale, outcome>>
  PROVE  IInv' /\ Pool!Wait(t)
<1>a. TypeOK /\ Buckets
  BY DEF IInv
<1> DEFINE n == Len(queues[p]) + 1
<1>1. /\ queues' \in [Priority -> Seq(Tasks)]
      /\ Len(queues'[p]) = n /\ n \in Nat /\ queues'[p][n] = t
      /\ \A i \in 1 .. Len(queues[p]) : queues'[p][i] = queues[p][i]
      /\ \A q \in Priority : q # p => queues'[q] = queues[q]
  BY <1>a DEF Buckets
<1>2. /\ \A q \in Priority : \A i \in 1 .. Len(queues'[q]) :
           \/ q = p /\ i = n /\ queues'[q][i] = t
           \/ i \in 1 .. Len(queues[q]) /\ queues'[q][i] = queues[q][i]
      /\ \A q \in Priority : \A i \in 1 .. Len(queues[q]) : i \in 1 .. Len(queues'[q])
  BY <1>a, <1>1 DEF Buckets
<1>3. \A q \in Priority : \A i \in 1 .. Len(queues[q]) : queues[q][i] # t
  BY <1>a DEF Buckets, Listed
<1>4. stage' \in [Tasks -> Stages] /\ stage'[t] = "queued"
      /\ \A v \in Tasks : v # t => stage'[v] = stage[v]
  BY <1>a DEF Buckets, Stages
<1> HIDE DEF n
<1>5. Listed'
  <2> SUFFICES ASSUME NEW q \in Priority, NEW i \in 1 .. Len(queues'[q])
               PROVE  stage'[queues'[q][i]] = "queued"
    BY DEF Listed
  <2>1. CASE queues'[q][i] = t BY <2>1, <1>4
  <2>2. CASE i \in 1 .. Len(queues[q]) /\ queues'[q][i] = queues[q][i]
    BY <2>2, <1>a, <1>3, <1>4 DEF Buckets, Listed
  <2> QED BY <2>1, <2>2, <1>2
<1>6. Once'
  BY <1>a, <1>2, <1>3 DEF Once, Buckets
<1>7. AllListed'
  <2> SUFFICES ASSUME NEW v \in Tasks, stage'[v] = "queued"
               PROVE  \E q \in Priority : \E i \in 1 .. Len(queues'[q]) : queues'[q][i] = v
    BY DEF AllListed
  <2>1. CASE v = t
    <3>1. n \in 1 .. Len(queues'[p]) BY <1>1 DEF n
    <3> QED BY <2>1, <3>1, <1>1
  <2>2. CASE v # t
    <3>1. PICK q \in Priority : \E i \in 1 .. Len(queues[q]) : queues[q][i] = v
      BY <2>2, <1>a, <1>4 DEF Buckets, AllListed
    <3>2. PICK i \in 1 .. Len(queues[q]) : queues[q][i] = v BY <3>1
    <3>3. i \in 1 .. Len(queues'[q]) /\ queues'[q][i] = v
      BY <3>2, <1>1, <1>2
    <3> QED BY <3>3
  <2> QED BY <2>1, <2>2
<1>8. Buckets'
  BY <1>1, <1>4, <1>5, <1>6, <1>7 DEF Buckets
<1>9. Serving' = Serving /\ Waiting' = Waiting \cup {t} /\ t \notin Serving /\ t \notin Waiting
  BY <1>a, <1>4 DEF Serving, Waiting, Buckets
<1>10. TypeOK'
  <2>1. Len(queues["low"]) <= Len(queues'["low"]) /\ Len(queues'["low"]) \in Nat
    BY <1>a, <1>1 DEF Priority, Buckets, n
  <2>2. stale' \in 0 .. Len(queues'["low"])
    BY <1>a, <2>1 DEF TypeOK, Priority
  <2> QED BY <1>a, <1>1, <1>4, <2>2 DEF TypeOK, Stages, params
<1>11. running = Max
  BY <1>a, LimiterAssumption DEF TypeOK, IInv, SlotsAreCounted
<1> QED BY <1>8, <1>9, <1>10, <1>11, SameCardinality
        DEF IInv, SlotsAreCounted, NoIdleSlot, Pool!Wait

----------------------------------------------------------------------------
\* What a step is to CallPool.
PoolStep ==
  \/ Pool!Next
  \/ UNCHANGED <<Waiting, Serving>>

StartsOnlyOpen ==
  ~ gate => \A t \in Tasks : stage'[t] = "running" => stage[t] = "running"

\* A step that moves calls between the stages outside the limiter.
LEMMA OutsideFacts ==
  ASSUME IInv, UNCHANGED <<params, running, queues>>, gate' \in BOOLEAN,
         stale' \in 0 .. Len(queues["low"]), stage' \in [Tasks -> Stages],
         outcome' \in [Tasks -> Outcome],
         \A s \in {"queued", "running", "holding"}, t \in Tasks : stage'[t] = s <=> stage[t] = s
  PROVE  IInv' /\ UNCHANGED <<Waiting, Serving>> /\ StartsOnlyOpen
<1>1. UNCHANGED <<Waiting, Serving>> /\ StartsOnlyOpen
  BY DEF Waiting, Serving, StartsOnlyOpen
<1>2. Buckets'
  BY DEF IInv, Buckets, Listed, Once, AllListed
<1>3. TypeOK'
  BY DEF IInv, TypeOK, Stages, params
<1> QED BY <1>1, <1>2, <1>3 DEF IInv, SlotsAreCounted, NoIdleSlot

LEMMA AbortFacts ==
  ASSUME IInv, AbortQueued
  PROVE  IInv' /\ PoolStep /\ StartsOnlyOpen
<1>a. TypeOK /\ Buckets
  BY DEF IInv
<1> DEFINE d == [p \in Priority |-> Len(queues[p])]
<1>1. stage' \in [Tasks -> Stages] /\ outcome' \in [Tasks -> Outcome]
  BY <1>a DEF AbortQueued, Refused, TypeOK, Stages, Outcome
<1>2. d \in Cuts /\ Without(d) = Empty
  <2>1. \A p \in Priority : Len(queues[p]) \in Nat /\ queues[p] \in Seq(Tasks)
    BY <1>a DEF Buckets
  <2>2. \A p \in Priority : SubSeq(queues[p], Len(queues[p]) + 1, Len(queues[p])) = <<>>
    BY <2>1
  <2> QED BY <2>1, <2>2 DEF Cuts, Without, Empty
<1>3. Gone(d) = Waiting
  BY <1>a DEF Gone, Waiting, Buckets, Listed, AllListed
<1>4. \A v \in Tasks : stage'[v] = "queued" <=> stage[v] = "queued" /\ v \notin Gone(d)
  BY <1>3 DEF AbortQueued, Refused, Waiting
<1>5. queues' = Without(d)
  BY <1>2 DEF AbortQueued
<1>6. Buckets'
  <2> HIDE DEF d
  <2> QED BY <1>a, <1>1, <1>2, <1>4, <1>5, DroppingKeepsBuckets
<1>7. Serving' = Serving /\ Waiting' = {} /\ StartsOnlyOpen
  BY <1>a DEF AbortQueued, Refused, Serving, Waiting, StartsOnlyOpen
<1>8. TypeOK'
  <2>1. queues' = Empty /\ stale' = 0 BY DEF AbortQueued
  <2>2. Len(queues'["low"]) = 0 /\ queues' \in [Priority -> Seq(Tasks)]
    BY <2>1 DEF Empty, Priority
  <2> QED BY <1>a, <1>1, <2>1, <2>2 DEF AbortQueued, TypeOK, Stages, params
<1>9. PoolStep
  BY <1>7 DEF PoolStep, Pool!Next, Pool!RefuseAll
<1> QED BY <1>6, <1>7, <1>8, <1>9 DEF AbortQueued, IInv, SlotsAreCounted, NoIdleSlot

LEMMA RunFacts ==
  ASSUME IInv, NEW t \in Tasks, NEW p \in Priority, Run(t, p)
  PROVE  IInv' /\ PoolStep /\ StartsOnlyOpen
<1>a. TypeOK /\ stage[t] = "idle" /\ UNCHANGED <<params, gate>>
  BY DEF IInv, Run
<1>1. CASE ~ gate
  <2>1. Refused({t}) /\ UNCHANGED <<running, queues, stale>>
    BY <1>1 DEF Run
  <2>2. /\ stage' \in [Tasks -> Stages] /\ outcome' \in [Tasks -> Outcome]
        /\ \A s \in {"queued", "running", "holding"}, v \in Tasks :
             stage'[v] = s <=> stage[v] = s
    BY <1>a, <2>1 DEF Refused, TypeOK, Stages, Outcome
  <2> QED BY <1>a, <2>1, <2>2, OutsideFacts DEF TypeOK, PoolStep
<1>2. CASE gate /\ running < Max
  <2>1. Exec(t)
    BY <1>2, <1>a, LimiterAssumption DEF Run, TypeOK
  <2>2. IInv' /\ Pool!Begin(t)
    BY <1>a, <1>2, <2>1, BeginFacts
  <2> QED BY <1>2, <2>2 DEF PoolStep, Pool!Next, StartsOnlyOpen
<1>3. CASE gate /\ ~ (running < Max)
  <2>1. /\ queues' = [queues EXCEPT ![p] = Append(@, t)]
        /\ stage' = [stage EXCEPT ![t] = "queued"]
        /\ UNCHANGED <<running, stale, outcome>> /\ running >= Max
    BY <1>3 DEF Run
  <2>2. IInv' /\ Pool!Wait(t)
    BY <1>a, <2>1, WaitFacts
  <2> QED BY <1>3, <2>2 DEF PoolStep, Pool!Next, StartsOnlyOpen
<1> QED BY <1>1, <1>2, <1>3

LEMMA ReleaseIsPoolStep ==
  ASSUME IInv, NEW t \in Serving, NEW o \in Outcome, Release(t, o),
         UNCHANGED <<params, gate>>
  PROVE  IInv' /\ PoolStep /\ StartsOnlyOpen
<1>1. t \in Tasks BY DEF Serving
<1> QED BY <1>1, ReleaseFacts DEF PoolStep, Pool!Next, StartsOnlyOpen

\* Every step keeps the invariant, is a step of CallPool, and starts nothing
\* under a closed gate.
LEMMA Steps ==
  ASSUME IInv, [Next]_vars
  PROVE  IInv' /\ PoolStep /\ StartsOnlyOpen
<1>a. TypeOK BY DEF IInv
<1>1. ASSUME NEW t \in Tasks, NEW p \in Priority, Run(t, p)
      PROVE  IInv' /\ PoolStep /\ StartsOnlyOpen
  BY <1>1, RunFacts
<1>2. ASSUME NEW t \in Tasks, FnSettles(t)
      PROVE  IInv' /\ PoolStep /\ StartsOnlyOpen
  <2>1. PICK o \in {"value", "error"} :
          IF delayed
          THEN /\ stage' = [stage EXCEPT ![t] = "holding"]
               /\ outcome' = [outcome EXCEPT ![t] = o]
               /\ UNCHANGED <<running, queues, stale>>
          ELSE Release(t, o)
    BY <1>2 DEF FnSettles
  <2>2. stage[t] = "running" /\ UNCHANGED <<params, gate>> /\ t \in Serving /\ o \in Outcome
    BY <1>2 DEF FnSettles, Serving, Outcome
  <2>3. CASE delayed
    <3>1. stage' \in [Tasks -> Stages] /\ outcome' \in [Tasks -> Outcome]
      BY <1>a, <2>1, <2>2, <2>3 DEF TypeOK, Stages
    <3>2. \A v \in Tasks : v # t => stage'[v] = stage[v]
      BY <1>a, <2>1, <2>3 DEF TypeOK
    <3>3. stage'[t] = "holding" BY <1>a, <2>1, <2>3 DEF TypeOK
    <3>4. UNCHANGED <<Waiting, Serving>> /\ StartsOnlyOpen
      BY <2>2, <3>2, <3>3 DEF Waiting, Serving, StartsOnlyOpen
    <3>5. UNCHANGED <<running, queues, stale>> BY <2>1, <2>3
    <3>6. Buckets'
      BY <2>2, <3>1, <3>2, <3>3, <3>5 DEF IInv, Buckets, Listed, Once, AllListed
    <3>7. TypeOK'
      BY <1>a, <2>2, <3>1, <3>5 DEF TypeOK, Stages, params
    <3> QED BY <3>4, <3>5, <3>6, <3>7 DEF IInv, SlotsAreCounted, NoIdleSlot, PoolStep
  <2>4. CASE ~ delayed
    BY <2>1, <2>2, <2>4, ReleaseIsPoolStep
  <2> QED BY <2>3, <2>4
<1>3. ASSUME NEW t \in Tasks, DelayEnds(t)
      PROVE  IInv' /\ PoolStep /\ StartsOnlyOpen
  <2>1. t \in Serving /\ outcome[t] \in Outcome /\ Release(t, outcome[t])
        /\ UNCHANGED <<params, gate>>
    BY <1>3, <1>a DEF DelayEnds, Serving, TypeOK
  <2> QED BY <2>1, ReleaseIsPoolStep
<1>4. ASSUME NEW t \in Tasks, CallAgain(t)
      PROVE  IInv' /\ PoolStep /\ StartsOnlyOpen
  <2>1. /\ stage' \in [Tasks -> Stages] /\ outcome' \in [Tasks -> Outcome]
        /\ \A s \in {"queued", "running", "holding"}, v \in Tasks :
             stage'[v] = s <=> stage[v] = s
    BY <1>4, <1>a DEF CallAgain, TypeOK, Stages, Outcome
  <2>2. UNCHANGED <<params, gate, running, queues, stale>>
    BY <1>4 DEF CallAgain
  <2> QED BY <1>a, <2>1, <2>2, OutsideFacts DEF PoolStep, TypeOK
<1>5. CASE AbortQueued
  BY <1>5, AbortFacts
<1>6. CASE TimePasses
  <2>1. UNCHANGED <<params, gate, running, queues, stage, outcome>>
        /\ stale' \in 0 .. Len(queues["low"])
    BY <1>6, <1>a DEF TimePasses, TypeOK, Priority
  <2>2. stage' \in [Tasks -> Stages] /\ outcome' \in [Tasks -> Outcome] /\ gate' \in BOOLEAN
    BY <1>a, <2>1 DEF TypeOK, Stages
  <2> QED BY <2>1, <2>2, OutsideFacts DEF PoolStep
<1>7. CASE GateFlips
  <2>1. UNCHANGED <<params, running, queues, stale, stage, outcome>> /\ gate' \in BOOLEAN
    BY <1>7, <1>a DEF GateFlips, TypeOK
  <2>2. stage' \in [Tasks -> Stages] /\ outcome' \in [Tasks -> Outcome]
        /\ stale' \in 0 .. Len(queues["low"])
    BY <1>a, <2>1 DEF TypeOK, Stages
  <2> QED BY <2>1, <2>2, OutsideFacts DEF PoolStep
<1>8. CASE UNCHANGED vars
  <2>1. UNCHANGED <<params, gate, running, queues, stale, stage, outcome>>
    BY <1>8 DEF vars
  <2>2. stage' \in [Tasks -> Stages] /\ outcome' \in [Tasks -> Outcome]
        /\ stale' \in 0 .. Len(queues["low"]) /\ gate' \in BOOLEAN
    BY <1>a, <2>1 DEF TypeOK, Stages
  <2> QED BY <2>1, <2>2, OutsideFacts DEF PoolStep
<1> QED BY <1>1, <1>2, <1>3, <1>4, <1>5, <1>6, <1>7, <1>8 DEF Next

----------------------------------------------------------------------------
\* The order of service: FirstOfTheHighest as a relation between the task
\* u = queues[p][i] that starts and any other one.
LEMMA StartsFromTheQueue ==
  ASSUME IInv, Next, NEW v \in Tasks, stage[v] = "queued", stage'[v] = "running"
  PROVE  \E t \in Tasks, o \in Outcome :
           Release(t, o) /\ stage[t] # "queued" /\ ~ (Fresh = Empty \/ (~ Admits /\ ~ delayed))
<1>a. TypeOK
  BY DEF IInv
<1>1. \A t \in Tasks : CallAgain(t) => stage'[v] # "running"
  BY <1>a DEF CallAgain, TypeOK
<1>2. \A t \in Tasks, p \in Priority : Run(t, p) => stage'[v] # "running"
  BY <1>a DEF Run, Exec, Refused, TypeOK
<1>3. ~ AbortQueued /\ ~ TimePasses /\ ~ GateFlips
  BY <1>a DEF AbortQueued, Refused, TimePasses, GateFlips, TypeOK, Waiting
<1>4. PICK t \in Tasks : FnSettles(t) \/ DelayEnds(t)
  BY <1>1, <1>2, <1>3 DEF Next
<1>5. PICK o \in Outcome : Release(t, o) /\ stage[t] # "queued"
  BY <1>a, <1>4 DEF FnSettles, DelayEnds, TypeOK, Outcome
<1>6. ~ (Fresh = Empty \/ (~ Admits /\ ~ delayed))
  BY <1>5 DEF Release
<1> QED BY <1>5, <1>6

LEMMA OrderOfService ==
  ASSUME IInv, Next, NEW p \in Priority, NEW q \in Priority,
         NEW i \in DOMAIN queues[p], NEW j \in DOMAIN queues[q],
         stage'[queues[p][i]] = "running",
         \/ p = q /\ j < i
         \/ q = "high" /\ p # "high"
         \/ q = "medium" /\ p = "low"
  PROVE  stage'[queues[q][j]] = "settled"
<1> DEFINE v == queues[p][i]
           h == Served(Fresh)
<1>a. /\ TypeOK /\ Buckets
      /\ queues[p] \in Seq(Tasks) /\ queues[q] \in Seq(Tasks)
      /\ i \in 1 .. Len(queues[p]) /\ j \in 1 .. Len(queues[q])
  BY DEF IInv, Buckets
<1>b. v \in Tasks /\ stage[v] = "queued" /\ stage'[v] = "running"
  BY <1>a DEF Buckets, Listed
<1>1. PICK t \in Tasks, o \in Outcome :
        Release(t, o) /\ stage[t] # "queued" /\ ~ (Fresh = Empty \/ (~ Admits /\ ~ delayed))
  <2> HIDE DEF v
  <2> QED BY <1>b, StartsFromTheQueue
<1>2. /\ \A w \in Tasks : w \in {t} \cup Shed => stage'[w] = "settled"
      /\ \A w \in Tasks : stage'[w] = "running" =>
           w = Head(Fresh[h]) \/ stage[w] = "running"
  BY <1>1 DEF Release
<1>3. /\ h \in Priority /\ Fresh[h] # <<>> /\ Cut(h) + 1 \in 1 .. Len(queues[h])
      /\ Head(Fresh[h]) = queues[h][Cut(h) + 1] /\ Cut(h) \in Nat
  BY <1>1, <1>a, NextFacts
<1>4. p = h /\ i = Cut(h) + 1
  <2>1. queues[p][i] = queues[h][Cut(h) + 1]
    BY <1>2, <1>b, <1>3
  <2>2. \A x \in 1 .. Len(queues[p]), y \in 1 .. Len(queues[h]) :
          queues[p][x] = queues[h][y] => p = h /\ x = y
    BY <1>a, <1>3 DEF Buckets, Once
  <2> HIDE DEF h
  <2> QED BY <1>a, <1>3, <2>1, <2>2
<1>5. CASE p = q /\ j < i
  <2>1. j \in 1 .. Cut(q) /\ queues[q][j] \in Tasks
    BY <1>3, <1>4, <1>5, <1>a
  <2>2. queues[q][j] \in Shed
    BY <2>1 DEF Shed
  <2> QED BY <1>2, <2>1, <2>2
<1>6. CASE q # p /\ (q = "high" \/ (q = "medium" /\ p = "low"))
  <2>1. Fresh[q] = <<>>
    BY <1>4, <1>6 DEF Served, Priority
  <2>2. Fresh[q] = SubSeq(queues[q], 1, Len(queues[q]))
    BY <1>6 DEF Fresh, Cut
  <2>3. Len(queues[q]) = 0
    <3>1. queues[q] \in Seq(Tasks) BY <1>a
    <3> QED BY <3>1, <2>1, <2>2
  <2> QED BY <1>a, <2>3
<1> QED BY <1>5, <1>6

LEMMA Starts == Init => IInv /\ Pool!Init
<1> SUFFICES ASSUME Init PROVE IInv /\ Pool!Init
  OBVIOUS
<1>1. Serving = {} /\ Waiting = {}
  BY DEF Init, Serving, Waiting
<1>2. SlotsAreCounted
  BY <1>1, FS_EmptySet, LimiterAssumption DEF Init, SlotsAreCounted
<1>3. \A p \in Priority : queues[p] = <<>>
  BY DEF Init, Empty
<1>4. TypeOK
  BY <1>3 DEF Init, TypeOK, Outcome, Empty, Priority
<1>5. Buckets
  BY <1>3, <1>4 DEF Init, Buckets, Listed, Once, AllListed, TypeOK, Stages
<1> QED BY <1>1, <1>2, <1>4, <1>5 DEF IInv, NoIdleSlot, Init, Pool!Init

LEMMA Invariance == Spec => []IInv
<1>1. IInv /\ [Next]_vars => IInv' BY Steps
<1> QED BY <1>1, Starts, PTL DEF Spec

\* Every reachable state of the limiter is well typed (concurrency.ts).
THEOREM LimiterTypeCorrect == Spec => []TypeOK
BY Invariance, PTL DEF IInv

\* No slot is leaked or handed out twice, for any number of calls and slots
\* (the running counter of exec and dispatchNext).
THEOREM SlotsNeverLeak == Spec => []SlotsAreCounted
BY Invariance, PTL DEF IInv

\* No task waits next to a free slot (the admission test of run against the
\* hand-over of dispatchNext).
THEOREM LimiterIsWorkConserving == Spec => []NoIdleSlot
BY Invariance, PTL DEF IInv

\* Nothing starts while the gate is closed (the kill switch of exec).
THEOREM KillSwitch == Spec => ClosedGateStartsNothing
<1>1. IInv /\ [Next]_vars =>
        [~ gate => \A t \in Tasks : stage'[t] = "running" => stage[t] = "running"]_vars
  BY Steps DEF StartsOnlyOpen
<1> QED BY <1>1, Invariance, PTL DEF Spec, ClosedGateStartsNothing

\* A slot goes to the first task of the highest bucket that holds one: an
\* earlier or higher one that does not start was shed (Limiter.run's buckets
\* and dispatchNext).
THEOREM QueueIsInOrder == Spec => FirstOfTheHighest
<1>1. IInv /\ [Next]_vars =>
        [\A p, q \in Priority : \A i \in DOMAIN queues[p], j \in DOMAIN queues[q] :
           /\ stage'[queues[p][i]] = "running"
           /\ \/ p = q /\ j < i
              \/ q = "high" /\ p # "high"
              \/ q = "medium" /\ p = "low"
           => stage'[queues[q][j]] = "settled"]_vars
  BY OrderOfService
<1> QED BY <1>1, Invariance, PTL DEF Spec, FirstOfTheHighest

\* The limiter keeps the promise of CallPool: every step of its buckets,
\* gate and delays maps to a step of the pool or changes nothing of it.
THEOREM LimiterImplementsPool == Spec => ImplementsPool
<1>1. IInv /\ [Next]_vars => [Pool!Next]_<<Waiting, Serving>>
  BY Steps DEF PoolStep
<1> QED BY <1>1, Starts, Invariance, PTL DEF Spec, ImplementsPool, Pool!Spec
=============================================================================
