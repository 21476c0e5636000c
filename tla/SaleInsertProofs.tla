-------------------------- MODULE SaleInsertProofs --------------------------
(* What the feed shows and what the table holds agree, for every set of     *)
(* sales, every cap of the deferral and every interleaving.                 *)
EXTENDS SaleInsert, TLAPS

Owning == {"won", "deferred", "enriching", "deleting", "updating", "retrying"}
Other(l) == IF l = "fast" THEN "raw" ELSE "fast"

\* The row a task owns is in the table, unless the patch has taken it.
OwnersHaveRows(s) ==
  \A l \in Leg : call[s][l] \in Owning =>
    \/ s \in db
    \/ l = "fast" /\ kind[s].belowMin /\ patch[s] \in {"executed", "done"}

OneOwner(s) == ~(call[s]["fast"] \in Owning /\ call[s]["raw"] \in Owning)

\* A patch runs only after the fast leg has returned and the raw one lost.
PatchIsLast(s) ==
  patch[s] # "idle" =>
    /\ call[s]["fast"] \notin {"idle", "sent", "won", "null", "threw"}
    /\ call[s]["raw"] \in {"null", "done"}

\* A card whose row is gone is about to be removed by somebody, or its remove
\* frame was overtaken.
CardIsLeaving(s) ==
  s \in feed /\ s \notin db =>
    \/ s \in overtaken
    \/ \E l \in Leg : call[s][l] = "deleted" /\ told[s][l]
    \/ patch[s] = "executed" /\ kind[s].belowMin

\* A task that has not told the clients has no card there; what they may
\* still show is the card of the leg before it, about to be removed.
UntoldIsUnseen(s) ==
  \A l \in Leg : call[s][l] \in Owning /\ ~told[s][l] =>
    \/ s \notin feed
    \/ l = "raw" /\ call[s]["fast"] = "deleted" /\ told[s]["fast"]

Deferred(s) ==
  \A l \in Leg :
    /\ call[s][l] = "deferred" => DeferEnabled /\ ~kind[s].known
    /\ call[s][l] \in {"idle", "sent", "won", "deferred"} => ~told[s][l]
    /\ call[s][l] \in {"updating", "retrying"} => told[s][l]

RawWaits(s) == call[s]["raw"] # "idle" => call[s]["fast"] \notin {"sent", "won"}

\* A patch that has deleted the row is the last to touch it.
FloorIsTaken(s) == patch[s] = "executed" /\ kind[s].belowMin => s \notin db

\* A deferred frame whose row is gone has its remove frame before or after it.
FrameIsLate(s) ==
  /\ s \in overtaken => patch[s] = "done"
  /\ \A l \in Leg : call[s][l] = "deferred" /\ s \notin db =>
       s \in overtaken \/ (patch[s] = "executed" /\ kind[s].belowMin)

\* A clean sale is never deleted by an enrichment, and once stored it is on
\* the screens or its frame is still to come.
StoredIsSeen(s) ==
  kind[s].identity = "clean" =>
    /\ \A l \in Leg : call[s][l] \notin {"deleting", "deleted"}
    /\ s \in db => s \in feed \/ \E l \in Leg : call[s][l] \in {"won", "deferred"}

SaleInv(s) ==
  /\ OwnersHaveRows(s) /\ OneOwner(s) /\ PatchIsLast(s) /\ CardIsLeaving(s)
  /\ UntoldIsUnseen(s) /\ Deferred(s) /\ RawWaits(s)
  /\ FloorIsTaken(s) /\ FrameIsLate(s) /\ StoredIsSeen(s)

Agree == \A s \in Sale : SaleInv(s)
LEMMA StepsAreTyped ==
  ASSUME TypeOK, NEW s \in Sale, NEW l \in Leg, NEW pc \in Pc, NEW b \in BOOLEAN
  PROVE  /\ GoTo(s, l, pc) => call' \in [Sale -> [Leg -> Pc]]
         /\ Told(s, l, b) => told' \in [Sale -> [Leg -> BOOLEAN]]
         /\ Hold(s, l, b) => held' \in [Sale -> [Leg -> BOOLEAN]]
<1>1. GoTo(s, l, pc) => call' \in [Sale -> [Leg -> Pc]]
  BY DEF TypeOK, GoTo
<1>2. Told(s, l, b) => told' \in [Sale -> [Leg -> BOOLEAN]]
  BY DEF TypeOK, Told
<1>3. Hold(s, l, b) => held' \in [Sale -> [Leg -> BOOLEAN]]
  BY DEF TypeOK, Hold
<1>4. QED
  BY <1>1, <1>2, <1>3

LEMMA Typed ==
  ASSUME SaleAssumption, TypeOK, [Next]_vars
  PROVE  TypeOK'
<1> USE DEF Leg
<1>1. ASSUME NEW s \in Sale, NEW l \in Leg, CallInsert(s, l) PROVE TypeOK'
  BY <1>1 DEF CallInsert, TypeOK, Pc, GoTo, Told, Hold, SaleAssumption
<1>2. ASSUME NEW s \in Sale, NEW l \in Leg, InsertExecutes(s, l) PROVE TypeOK'
  <2>1. call' \in [Sale -> [Leg -> Pc]] /\ told' \in [Sale -> [Leg -> BOOLEAN]]
        /\ held' \in [Sale -> [Leg -> BOOLEAN]]
    BY <1>2, StepsAreTyped DEF InsertExecutes, TypeOK, Pc
  <2>2. db' \subseteq Sale /\ feed' \subseteq Sale /\ blocked' \subseteq Mint
    BY <1>2 DEF InsertExecutes, TypeOK, SaleAssumption
  <2>3. UNCHANGED <<kind, patch, overtaken, restarts>>
    BY <1>2 DEF InsertExecutes
  <2>4. QED
    BY <2>1, <2>2, <2>3 DEF TypeOK
<1>3. ASSUME NEW s \in Sale, NEW l \in Leg, InsertReturns(s, l) PROVE TypeOK'
  <2>1. call' \in [Sale -> [Leg -> Pc]] /\ told' \in [Sale -> [Leg -> BOOLEAN]]
        /\ held' \in [Sale -> [Leg -> BOOLEAN]]
    BY <1>3, StepsAreTyped DEF InsertReturns, TypeOK, Pc
  <2>2. db' \subseteq Sale /\ feed' \subseteq Sale /\ blocked' \subseteq Mint
    BY <1>3 DEF InsertReturns, TypeOK, SaleAssumption
  <2>3. UNCHANGED <<kind, patch, overtaken, restarts>>
    BY <1>3 DEF InsertReturns
  <2>4. QED
    BY <2>1, <2>2, <2>3 DEF TypeOK
<1>4. ASSUME NEW s \in Sale, NEW l \in Leg, BudgetRunsOut(s, l) PROVE TypeOK'
  BY <1>4 DEF BudgetRunsOut, TypeOK, Pc, GoTo, Told, Hold, SaleAssumption
<1>5. ASSUME NEW s \in Sale, NEW l \in Leg, EnrichResolves(s, l) PROVE TypeOK'
  <2>1. call' \in [Sale -> [Leg -> Pc]] /\ told' \in [Sale -> [Leg -> BOOLEAN]]
        /\ held' \in [Sale -> [Leg -> BOOLEAN]]
    BY <1>5, StepsAreTyped DEF EnrichResolves, TypeOK, Pc
  <2>2. db' \subseteq Sale /\ feed' \subseteq Sale /\ blocked' \subseteq Mint
    BY <1>5 DEF EnrichResolves, TypeOK, SaleAssumption
  <2>3. UNCHANGED <<kind, patch, overtaken, restarts>>
    BY <1>5 DEF EnrichResolves
  <2>4. QED
    BY <2>1, <2>2, <2>3 DEF TypeOK
<1>6. ASSUME NEW s \in Sale, NEW l \in Leg, EnrichFails(s, l) PROVE TypeOK'
  BY <1>6 DEF EnrichFails, TypeOK, Pc, GoTo, Told, Hold, SaleAssumption
<1>7. ASSUME NEW s \in Sale, NEW l \in Leg, DeleteExecutes(s, l) PROVE TypeOK'
  <2>1. call' \in [Sale -> [Leg -> Pc]] /\ told' \in [Sale -> [Leg -> BOOLEAN]]
        /\ held' \in [Sale -> [Leg -> BOOLEAN]]
    BY <1>7, StepsAreTyped DEF DeleteExecutes, TypeOK, Pc
  <2>2. db' \subseteq Sale /\ feed' \subseteq Sale /\ blocked' \subseteq Mint
    BY <1>7 DEF DeleteExecutes, TypeOK, SaleAssumption
  <2>3. UNCHANGED <<kind, patch, overtaken, restarts>>
    BY <1>7 DEF DeleteExecutes
  <2>4. QED
    BY <2>1, <2>2, <2>3 DEF TypeOK
<1>8. ASSUME NEW s \in Sale, NEW l \in Leg, DeleteReturns(s, l) PROVE TypeOK'
  BY <1>8 DEF DeleteReturns, TypeOK, Pc, GoTo, Told, Hold, SaleAssumption
<1>9. ASSUME NEW s \in Sale, NEW l \in Leg, UpdateReturns(s, l) PROVE TypeOK'
  BY <1>9 DEF UpdateReturns, TypeOK, Pc, GoTo, Told, Hold, SaleAssumption
<1>10. ASSUME NEW s \in Sale, NEW l \in Leg, RetryEnds(s, l) PROVE TypeOK'
  <2>1. call' \in [Sale -> [Leg -> Pc]] /\ told' \in [Sale -> [Leg -> BOOLEAN]]
        /\ held' \in [Sale -> [Leg -> BOOLEAN]]
    BY <1>10, StepsAreTyped DEF RetryEnds, TypeOK, Pc
  <2>2. db' \subseteq Sale /\ feed' \subseteq Sale /\ blocked' \subseteq Mint
    BY <1>10 DEF RetryEnds, TypeOK, SaleAssumption
  <2>3. UNCHANGED <<kind, patch, overtaken, restarts>>
    BY <1>10 DEF RetryEnds
  <2>4. QED
    BY <2>1, <2>2, <2>3 DEF TypeOK
<1>11. ASSUME NEW s \in Sale, PatchIsSent(s) PROVE TypeOK'
  BY <1>11 DEF PatchIsSent, TypeOK
<1>12. ASSUME NEW s \in Sale, PatchExecutes(s) PROVE TypeOK'
  BY <1>12 DEF PatchExecutes, TypeOK
<1>13. ASSUME NEW s \in Sale, PatchReturns(s) PROVE TypeOK'
  BY <1>13 DEF PatchReturns, TypeOK
<1>14. CASE Restart
  BY <1>14 DEF Restart, TypeOK, Pc, Nobody
<1>15. CASE UNCHANGED vars
  BY <1>15 DEF vars, tasks, TypeOK
<1>16. QED
  BY <1>1, <1>2, <1>3, <1>4, <1>5, <1>6, <1>7, <1>8, <1>9, <1>10, <1>11, <1>12,
     <1>13, <1>14, <1>15 DEF Next

LEMMA CallInsertAgrees ==
  ASSUME SaleAssumption, TypeOK, TypeOK', Agree,
         NEW s \in Sale, NEW l \in Leg, CallInsert(s, l)
  PROVE  Agree'
<1> SUFFICES ASSUME NEW t \in Sale PROVE SaleInv(t)'
  BY DEF Agree
<1> USE DEF SaleInv, OwnersHaveRows, OneOwner, PatchIsLast, CardIsLeaving,
        UntoldIsUnseen, Deferred, RawWaits, FloorIsTaken, FrameIsLate, StoredIsSeen,
        Leg, Owning, TypeOK, Pc
<1>0. SaleInv(t) /\ SaleInv(s)
  BY DEF Agree
<1>1. CASE t # s
  BY <1>0, <1>1 DEF CallInsert, MayCall, Gated, GoTo, Told, Hold
<1>2. CASE t = s
  <2>1. OwnersHaveRows(t)'
    BY <1>0, <1>2 DEF CallInsert, MayCall, Gated, GoTo, Told, Hold
  <2>2. OneOwner(t)'
    BY <1>0, <1>2 DEF CallInsert, MayCall, Gated, GoTo, Told, Hold
  <2>3. PatchIsLast(t)'
    BY <1>0, <1>2 DEF CallInsert, MayCall, Gated, GoTo, Told, Hold
  <2>4. CardIsLeaving(t)'
    BY <1>0, <1>2 DEF CallInsert, MayCall, Gated, GoTo, Told, Hold
  <2>5. UntoldIsUnseen(t)'
    BY <1>0, <1>2 DEF CallInsert, MayCall, Gated, GoTo, Told, Hold
  <2>6. Deferred(t)'
    BY <1>0, <1>2 DEF CallInsert, MayCall, Gated, GoTo, Told, Hold
  <2>7. RawWaits(t)'
    BY <1>0, <1>2 DEF CallInsert, MayCall, Gated, GoTo, Told, Hold
  <2>8. FloorIsTaken(t)'
    BY <1>0, <1>2 DEF CallInsert, MayCall, Gated, GoTo, Told, Hold
  <2>9. FrameIsLate(t)'
    BY <1>0, <1>2 DEF CallInsert, MayCall, Gated, GoTo, Told, Hold
  <2>10. StoredIsSeen(t)'
    BY <1>0, <1>2 DEF CallInsert, MayCall, Gated, GoTo, Told, Hold
  <2>11. QED
    BY <2>1, <2>2, <2>3, <2>4, <2>5, <2>6, <2>7, <2>8, <2>9, <2>10 DEF SaleInv
<1>3. QED
  BY <1>1, <1>2

LEMMA InsertExecutesAgrees ==
  ASSUME SaleAssumption, TypeOK, TypeOK', Agree,
         NEW s \in Sale, NEW l \in Leg, InsertExecutes(s, l)
  PROVE  Agree'
<1> SUFFICES ASSUME NEW t \in Sale PROVE SaleInv(t)'
  BY DEF Agree
<1> USE DEF SaleInv, OwnersHaveRows, OneOwner, PatchIsLast, CardIsLeaving,
        UntoldIsUnseen, Deferred, RawWaits, FloorIsTaken, FrameIsLate, StoredIsSeen,
        Leg, Owning, TypeOK, Pc
<1>0. SaleInv(t) /\ SaleInv(s)
  BY DEF Agree
<1>1. CASE t # s
  BY <1>0, <1>1 DEF InsertExecutes, GoTo, Told, Hold
<1>2. CASE t = s
  <2>1. OwnersHaveRows(t)'
    BY <1>0, <1>2 DEF InsertExecutes, GoTo, Told, Hold
  <2>2. OneOwner(t)'
    BY <1>0, <1>2 DEF InsertExecutes, GoTo, Told, Hold
  <2>3. PatchIsLast(t)'
    BY <1>0, <1>2 DEF InsertExecutes, GoTo, Told, Hold
  <2>4. CardIsLeaving(t)'
    BY <1>0, <1>2 DEF InsertExecutes, GoTo, Told, Hold
  <2>5. UntoldIsUnseen(t)'
    BY <1>0, <1>2 DEF InsertExecutes, GoTo, Told, Hold
  <2>6. Deferred(t)'
    BY <1>0, <1>2 DEF InsertExecutes, GoTo, Told, Hold
  <2>7. RawWaits(t)'
    BY <1>0, <1>2 DEF InsertExecutes, GoTo, Told, Hold
  <2>8. FloorIsTaken(t)'
    BY <1>0, <1>2 DEF InsertExecutes, GoTo, Told, Hold
  <2>9. FrameIsLate(t)'
    BY <1>0, <1>2 DEF InsertExecutes, GoTo, Told, Hold
  <2>10. StoredIsSeen(t)'
    BY <1>0, <1>2 DEF InsertExecutes, GoTo, Told, Hold
  <2>11. QED
    BY <2>1, <2>2, <2>3, <2>4, <2>5, <2>6, <2>7, <2>8, <2>9, <2>10 DEF SaleInv
<1>3. QED
  BY <1>1, <1>2

LEMMA InsertReturnsAgrees ==
  ASSUME SaleAssumption, TypeOK, TypeOK', Agree,
         NEW s \in Sale, NEW l \in Leg, InsertReturns(s, l)
  PROVE  Agree'
<1> SUFFICES ASSUME NEW t \in Sale PROVE SaleInv(t)'
  BY DEF Agree
<1> USE DEF SaleInv, OwnersHaveRows, OneOwner, PatchIsLast, CardIsLeaving,
        UntoldIsUnseen, Deferred, RawWaits, FloorIsTaken, FrameIsLate, StoredIsSeen,
        Leg, Owning, TypeOK, Pc
<1>0. SaleInv(t) /\ SaleInv(s)
  BY DEF Agree
<1>1. CASE t # s
  BY <1>0, <1>1 DEF InsertReturns, NeedsDeferral, GoTo, Told, Hold
<1>2. CASE t = s
  <2>1. OwnersHaveRows(t)'
    BY <1>0, <1>2 DEF InsertReturns, NeedsDeferral, GoTo, Told, Hold
  <2>2. OneOwner(t)'
    BY <1>0, <1>2 DEF InsertReturns, NeedsDeferral, GoTo, Told, Hold
  <2>3. PatchIsLast(t)'
    BY <1>0, <1>2 DEF InsertReturns, NeedsDeferral, GoTo, Told, Hold
  <2>4. CardIsLeaving(t)'
    BY <1>0, <1>2 DEF InsertReturns, NeedsDeferral, GoTo, Told, Hold
  <2>5. UntoldIsUnseen(t)'
    BY <1>0, <1>2 DEF InsertReturns, NeedsDeferral, GoTo, Told, Hold
  <2>6. Deferred(t)'
    BY <1>0, <1>2 DEF InsertReturns, NeedsDeferral, GoTo, Told, Hold
  <2>7. RawWaits(t)'
    BY <1>0, <1>2 DEF InsertReturns, NeedsDeferral, GoTo, Told, Hold
  <2>8. FloorIsTaken(t)'
    BY <1>0, <1>2 DEF InsertReturns, NeedsDeferral, GoTo, Told, Hold
  <2>9. FrameIsLate(t)'
    BY <1>0, <1>2 DEF InsertReturns, NeedsDeferral, GoTo, Told, Hold
  <2>10. StoredIsSeen(t)'
    BY <1>0, <1>2 DEF InsertReturns, NeedsDeferral, GoTo, Told, Hold
  <2>11. QED
    BY <2>1, <2>2, <2>3, <2>4, <2>5, <2>6, <2>7, <2>8, <2>9, <2>10 DEF SaleInv
<1>3. QED
  BY <1>1, <1>2

LEMMA BudgetRunsOutAgrees ==
  ASSUME SaleAssumption, TypeOK, TypeOK', Agree,
         NEW s \in Sale, NEW l \in Leg, BudgetRunsOut(s, l)
  PROVE  Agree'
<1> SUFFICES ASSUME NEW t \in Sale PROVE SaleInv(t)'
  BY DEF Agree
<1> USE DEF SaleInv, OwnersHaveRows, OneOwner, PatchIsLast, CardIsLeaving,
        UntoldIsUnseen, Deferred, RawWaits, FloorIsTaken, FrameIsLate, StoredIsSeen,
        Leg, Owning, TypeOK, Pc
<1>0. SaleInv(t) /\ SaleInv(s)
  BY DEF Agree
<1>1. CASE t # s
  BY <1>0, <1>1 DEF BudgetRunsOut, GoTo, Told, Hold
<1>2. CASE t = s
  <2>1. OwnersHaveRows(t)'
    BY <1>0, <1>2 DEF BudgetRunsOut, GoTo, Told, Hold
  <2>2. OneOwner(t)'
    BY <1>0, <1>2 DEF BudgetRunsOut, GoTo, Told, Hold
  <2>3. PatchIsLast(t)'
    BY <1>0, <1>2 DEF BudgetRunsOut, GoTo, Told, Hold
  <2>4. CardIsLeaving(t)'
    BY <1>0, <1>2 DEF BudgetRunsOut, GoTo, Told, Hold
  <2>5. UntoldIsUnseen(t)'
    BY <1>0, <1>2 DEF BudgetRunsOut, GoTo, Told, Hold
  <2>6. Deferred(t)'
    BY <1>0, <1>2 DEF BudgetRunsOut, GoTo, Told, Hold
  <2>7. RawWaits(t)'
    BY <1>0, <1>2 DEF BudgetRunsOut, GoTo, Told, Hold
  <2>8. FloorIsTaken(t)'
    BY <1>0, <1>2 DEF BudgetRunsOut, GoTo, Told, Hold
  <2>9. FrameIsLate(t)'
    BY <1>0, <1>2 DEF BudgetRunsOut, GoTo, Told, Hold
  <2>10. StoredIsSeen(t)'
    BY <1>0, <1>2 DEF BudgetRunsOut, GoTo, Told, Hold
  <2>11. QED
    BY <2>1, <2>2, <2>3, <2>4, <2>5, <2>6, <2>7, <2>8, <2>9, <2>10 DEF SaleInv
<1>3. QED
  BY <1>1, <1>2

LEMMA EnrichResolvesAgrees ==
  ASSUME SaleAssumption, TypeOK, TypeOK', Agree,
         NEW s \in Sale, NEW l \in Leg, EnrichResolves(s, l)
  PROVE  Agree'
<1> SUFFICES ASSUME NEW t \in Sale PROVE SaleInv(t)'
  BY DEF Agree
<1> USE DEF SaleInv, OwnersHaveRows, OneOwner, PatchIsLast, CardIsLeaving,
        UntoldIsUnseen, Deferred, RawWaits, FloorIsTaken, FrameIsLate, StoredIsSeen,
        Leg, Owning, TypeOK, Pc
<1>0. SaleInv(t) /\ SaleInv(s)
  BY DEF Agree
<1>1. CASE t # s
  BY <1>0, <1>1 DEF EnrichResolves, GoTo, Told, Hold
<1>2. CASE t = s
  <2>1. OwnersHaveRows(t)'
    BY <1>0, <1>2 DEF EnrichResolves, GoTo, Told, Hold
  <2>2. OneOwner(t)'
    BY <1>0, <1>2 DEF EnrichResolves, GoTo, Told, Hold
  <2>3. PatchIsLast(t)'
    BY <1>0, <1>2 DEF EnrichResolves, GoTo, Told, Hold
  <2>4. CardIsLeaving(t)'
    BY <1>0, <1>2 DEF EnrichResolves, GoTo, Told, Hold
  <2>5. UntoldIsUnseen(t)'
    BY <1>0, <1>2 DEF EnrichResolves, GoTo, Told, Hold
  <2>6. Deferred(t)'
    BY <1>0, <1>2 DEF EnrichResolves, GoTo, Told, Hold
  <2>7. RawWaits(t)'
    BY <1>0, <1>2 DEF EnrichResolves, GoTo, Told, Hold
  <2>8. FloorIsTaken(t)'
    BY <1>0, <1>2 DEF EnrichResolves, GoTo, Told, Hold
  <2>9. FrameIsLate(t)'
    BY <1>0, <1>2 DEF EnrichResolves, GoTo, Told, Hold
  <2>10. StoredIsSeen(t)'
    BY <1>0, <1>2 DEF EnrichResolves, GoTo, Told, Hold
  <2>11. QED
    BY <2>1, <2>2, <2>3, <2>4, <2>5, <2>6, <2>7, <2>8, <2>9, <2>10 DEF SaleInv
<1>3. QED
  BY <1>1, <1>2

LEMMA EnrichFailsAgrees ==
  ASSUME SaleAssumption, TypeOK, TypeOK', Agree,
         NEW s \in Sale, NEW l \in Leg, EnrichFails(s, l)
  PROVE  Agree'
<1> SUFFICES ASSUME NEW t \in Sale PROVE SaleInv(t)'
  BY DEF Agree
<1> USE DEF SaleInv, OwnersHaveRows, OneOwner, PatchIsLast, CardIsLeaving,
        UntoldIsUnseen, Deferred, RawWaits, FloorIsTaken, FrameIsLate, StoredIsSeen,
        Leg, Owning, TypeOK, Pc
<1>0. SaleInv(t) /\ SaleInv(s)
  BY DEF Agree
<1>1. CASE t # s
  BY <1>0, <1>1 DEF EnrichFails, GoTo, Told, Hold
<1>2. CASE t = s
  <2>1. OwnersHaveRows(t)'
    BY <1>0, <1>2 DEF EnrichFails, GoTo, Told, Hold
  <2>2. OneOwner(t)'
    BY <1>0, <1>2 DEF EnrichFails, GoTo, Told, Hold
  <2>3. PatchIsLast(t)'
    BY <1>0, <1>2 DEF EnrichFails, GoTo, Told, Hold
  <2>4. CardIsLeaving(t)'
    BY <1>0, <1>2 DEF EnrichFails, GoTo, Told, Hold
  <2>5. UntoldIsUnseen(t)'
    BY <1>0, <1>2 DEF EnrichFails, GoTo, Told, Hold
  <2>6. Deferred(t)'
    BY <1>0, <1>2 DEF EnrichFails, GoTo, Told, Hold
  <2>7. RawWaits(t)'
    BY <1>0, <1>2 DEF EnrichFails, GoTo, Told, Hold
  <2>8. FloorIsTaken(t)'
    BY <1>0, <1>2 DEF EnrichFails, GoTo, Told, Hold
  <2>9. FrameIsLate(t)'
    BY <1>0, <1>2 DEF EnrichFails, GoTo, Told, Hold
  <2>10. StoredIsSeen(t)'
    BY <1>0, <1>2 DEF EnrichFails, GoTo, Told, Hold
  <2>11. QED
    BY <2>1, <2>2, <2>3, <2>4, <2>5, <2>6, <2>7, <2>8, <2>9, <2>10 DEF SaleInv
<1>3. QED
  BY <1>1, <1>2

LEMMA DeleteExecutesAgrees ==
  ASSUME SaleAssumption, TypeOK, TypeOK', Agree,
         NEW s \in Sale, NEW l \in Leg, DeleteExecutes(s, l)
  PROVE  Agree'
<1> SUFFICES ASSUME NEW t \in Sale PROVE SaleInv(t)'
  BY DEF Agree
<1> USE DEF SaleInv, OwnersHaveRows, OneOwner, PatchIsLast, CardIsLeaving,
        UntoldIsUnseen, Deferred, RawWaits, FloorIsTaken, FrameIsLate, StoredIsSeen,
        Leg, Owning, TypeOK, Pc
<1>0. SaleInv(t) /\ SaleInv(s)
  BY DEF Agree
<1>1. CASE t # s
  BY <1>0, <1>1 DEF DeleteExecutes, GoTo, Told, Hold
<1>2. CASE t = s
  <2>1. OwnersHaveRows(t)'
    BY <1>0, <1>2 DEF DeleteExecutes, GoTo, Told, Hold
  <2>2. OneOwner(t)'
    BY <1>0, <1>2 DEF DeleteExecutes, GoTo, Told, Hold
  <2>3. PatchIsLast(t)'
    BY <1>0, <1>2 DEF DeleteExecutes, GoTo, Told, Hold
  <2>4. CardIsLeaving(t)'
    BY <1>0, <1>2 DEF DeleteExecutes, GoTo, Told, Hold
  <2>5. UntoldIsUnseen(t)'
    BY <1>0, <1>2 DEF DeleteExecutes, GoTo, Told, Hold
  <2>6. Deferred(t)'
    BY <1>0, <1>2 DEF DeleteExecutes, GoTo, Told, Hold
  <2>7. RawWaits(t)'
    BY <1>0, <1>2 DEF DeleteExecutes, GoTo, Told, Hold
  <2>8. FloorIsTaken(t)'
    BY <1>0, <1>2 DEF DeleteExecutes, GoTo, Told, Hold
  <2>9. FrameIsLate(t)'
    BY <1>0, <1>2 DEF DeleteExecutes, GoTo, Told, Hold
  <2>10. StoredIsSeen(t)'
    BY <1>0, <1>2 DEF DeleteExecutes, GoTo, Told, Hold
  <2>11. QED
    BY <2>1, <2>2, <2>3, <2>4, <2>5, <2>6, <2>7, <2>8, <2>9, <2>10 DEF SaleInv
<1>3. QED
  BY <1>1, <1>2

LEMMA DeleteReturnsAgrees ==
  ASSUME SaleAssumption, TypeOK, TypeOK', Agree,
         NEW s \in Sale, NEW l \in Leg, DeleteReturns(s, l)
  PROVE  Agree'
<1> SUFFICES ASSUME NEW t \in Sale PROVE SaleInv(t)'
  BY DEF Agree
<1> USE DEF SaleInv, OwnersHaveRows, OneOwner, PatchIsLast, CardIsLeaving,
        UntoldIsUnseen, Deferred, RawWaits, FloorIsTaken, FrameIsLate, StoredIsSeen,
        Leg, Owning, TypeOK, Pc
<1>0. SaleInv(t) /\ SaleInv(s)
  BY DEF Agree
<1>1. CASE t # s
  BY <1>0, <1>1 DEF DeleteReturns, GoTo, Told, Hold
<1>2. CASE t = s
  <2>1. OwnersHaveRows(t)'
    BY <1>0, <1>2 DEF DeleteReturns, GoTo, Told, Hold
  <2>2. OneOwner(t)'
    BY <1>0, <1>2 DEF DeleteReturns, GoTo, Told, Hold
  <2>3. PatchIsLast(t)'
    BY <1>0, <1>2 DEF DeleteReturns, GoTo, Told, Hold
  <2>4. CardIsLeaving(t)'
    BY <1>0, <1>2 DEF DeleteReturns, GoTo, Told, Hold
  <2>5. UntoldIsUnseen(t)'
    BY <1>0, <1>2 DEF DeleteReturns, GoTo, Told, Hold
  <2>6. Deferred(t)'
    BY <1>0, <1>2 DEF DeleteReturns, GoTo, Told, Hold
  <2>7. RawWaits(t)'
    BY <1>0, <1>2 DEF DeleteReturns, GoTo, Told, Hold
  <2>8. FloorIsTaken(t)'
    BY <1>0, <1>2 DEF DeleteReturns, GoTo, Told, Hold
  <2>9. FrameIsLate(t)'
    BY <1>0, <1>2 DEF DeleteReturns, GoTo, Told, Hold
  <2>10. StoredIsSeen(t)'
    BY <1>0, <1>2 DEF DeleteReturns, GoTo, Told, Hold
  <2>11. QED
    BY <2>1, <2>2, <2>3, <2>4, <2>5, <2>6, <2>7, <2>8, <2>9, <2>10 DEF SaleInv
<1>3. QED
  BY <1>1, <1>2

LEMMA UpdateReturnsAgrees ==
  ASSUME SaleAssumption, TypeOK, TypeOK', Agree,
         NEW s \in Sale, NEW l \in Leg, UpdateReturns(s, l)
  PROVE  Agree'
<1> SUFFICES ASSUME NEW t \in Sale PROVE SaleInv(t)'
  BY DEF Agree
<1> USE DEF SaleInv, OwnersHaveRows, OneOwner, PatchIsLast, CardIsLeaving,
        UntoldIsUnseen, Deferred, RawWaits, FloorIsTaken, FrameIsLate, StoredIsSeen,
        Leg, Owning, TypeOK, Pc
<1>0. SaleInv(t) /\ SaleInv(s)
  BY DEF Agree
<1>1. CASE t # s
  BY <1>0, <1>1 DEF UpdateReturns, GoTo, Told, Hold
<1>2. CASE t = s
  <2>1. OwnersHaveRows(t)'
    BY <1>0, <1>2 DEF UpdateReturns, GoTo, Told, Hold
  <2>2. OneOwner(t)'
    BY <1>0, <1>2 DEF UpdateReturns, GoTo, Told, Hold
  <2>3. PatchIsLast(t)'
    BY <1>0, <1>2 DEF UpdateReturns, GoTo, Told, Hold
  <2>4. CardIsLeaving(t)'
    BY <1>0, <1>2 DEF UpdateReturns, GoTo, Told, Hold
  <2>5. UntoldIsUnseen(t)'
    BY <1>0, <1>2 DEF UpdateReturns, GoTo, Told, Hold
  <2>6. Deferred(t)'
    BY <1>0, <1>2 DEF UpdateReturns, GoTo, Told, Hold
  <2>7. RawWaits(t)'
    BY <1>0, <1>2 DEF UpdateReturns, GoTo, Told, Hold
  <2>8. FloorIsTaken(t)'
    BY <1>0, <1>2 DEF UpdateReturns, GoTo, Told, Hold
  <2>9. FrameIsLate(t)'
    BY <1>0, <1>2 DEF UpdateReturns, GoTo, Told, Hold
  <2>10. StoredIsSeen(t)'
    BY <1>0, <1>2 DEF UpdateReturns, GoTo, Told, Hold
  <2>11. QED
    BY <2>1, <2>2, <2>3, <2>4, <2>5, <2>6, <2>7, <2>8, <2>9, <2>10 DEF SaleInv
<1>3. QED
  BY <1>1, <1>2

LEMMA RetryEndsAgrees ==
  ASSUME SaleAssumption, TypeOK, TypeOK', Agree,
         NEW s \in Sale, NEW l \in Leg, RetryEnds(s, l)
  PROVE  Agree'
<1> SUFFICES ASSUME NEW t \in Sale PROVE SaleInv(t)'
  BY DEF Agree
<1> USE DEF SaleInv, OwnersHaveRows, OneOwner, PatchIsLast, CardIsLeaving,
        UntoldIsUnseen, Deferred, RawWaits, FloorIsTaken, FrameIsLate, StoredIsSeen,
        Leg, Owning, TypeOK, Pc
<1>0. SaleInv(t) /\ SaleInv(s)
  BY DEF Agree
<1>1. CASE t # s
  BY <1>0, <1>1 DEF RetryEnds, GoTo, Told, Hold
<1>2. CASE t = s
  <2>1. OwnersHaveRows(t)'
    BY <1>0, <1>2 DEF RetryEnds, GoTo, Told, Hold
  <2>2. OneOwner(t)'
    BY <1>0, <1>2 DEF RetryEnds, GoTo, Told, Hold
  <2>3. PatchIsLast(t)'
    BY <1>0, <1>2 DEF RetryEnds, GoTo, Told, Hold
  <2>4. CardIsLeaving(t)'
    BY <1>0, <1>2 DEF RetryEnds, GoTo, Told, Hold
  <2>5. UntoldIsUnseen(t)'
    BY <1>0, <1>2 DEF RetryEnds, GoTo, Told, Hold
  <2>6. Deferred(t)'
    BY <1>0, <1>2 DEF RetryEnds, GoTo, Told, Hold
  <2>7. RawWaits(t)'
    BY <1>0, <1>2 DEF RetryEnds, GoTo, Told, Hold
  <2>8. FloorIsTaken(t)'
    BY <1>0, <1>2 DEF RetryEnds, GoTo, Told, Hold
  <2>9. FrameIsLate(t)'
    BY <1>0, <1>2 DEF RetryEnds, GoTo, Told, Hold
  <2>10. StoredIsSeen(t)'
    BY <1>0, <1>2 DEF RetryEnds, GoTo, Told, Hold
  <2>11. QED
    BY <2>1, <2>2, <2>3, <2>4, <2>5, <2>6, <2>7, <2>8, <2>9, <2>10 DEF SaleInv
<1>3. QED
  BY <1>1, <1>2

LEMMA PatchIsSentAgrees ==
  ASSUME SaleAssumption, TypeOK, TypeOK', Agree,
         NEW s \in Sale, PatchIsSent(s)
  PROVE  Agree'
<1> SUFFICES ASSUME NEW t \in Sale PROVE SaleInv(t)'
  BY DEF Agree
<1> USE DEF SaleInv, OwnersHaveRows, OneOwner, PatchIsLast, CardIsLeaving,
        UntoldIsUnseen, Deferred, RawWaits, FloorIsTaken, FrameIsLate, StoredIsSeen,
        Leg, Owning, TypeOK, Pc
<1>0. SaleInv(t) /\ SaleInv(s)
  BY DEF Agree
<1>1. CASE t # s
  BY <1>0, <1>1 DEF PatchIsSent, PatchIsDue, FastPathInserted
<1>2. CASE t = s
  <2>1. OwnersHaveRows(t)'
    BY <1>0, <1>2 DEF PatchIsSent, PatchIsDue, FastPathInserted
  <2>2. OneOwner(t)'
    BY <1>0, <1>2 DEF PatchIsSent, PatchIsDue, FastPathInserted
  <2>3. PatchIsLast(t)'
    BY <1>0, <1>2 DEF PatchIsSent, PatchIsDue, FastPathInserted
  <2>4. CardIsLeaving(t)'
    BY <1>0, <1>2 DEF PatchIsSent, PatchIsDue, FastPathInserted
  <2>5. UntoldIsUnseen(t)'
    BY <1>0, <1>2 DEF PatchIsSent, PatchIsDue, FastPathInserted
  <2>6. Deferred(t)'
    BY <1>0, <1>2 DEF PatchIsSent, PatchIsDue, FastPathInserted
  <2>7. RawWaits(t)'
    BY <1>0, <1>2 DEF PatchIsSent, PatchIsDue, FastPathInserted
  <2>8. FloorIsTaken(t)'
    BY <1>0, <1>2 DEF PatchIsSent, PatchIsDue, FastPathInserted
  <2>9. FrameIsLate(t)'
    BY <1>0, <1>2 DEF PatchIsSent, PatchIsDue, FastPathInserted
  <2>10. StoredIsSeen(t)'
    BY <1>0, <1>2 DEF PatchIsSent, PatchIsDue, FastPathInserted
  <2>11. QED
    BY <2>1, <2>2, <2>3, <2>4, <2>5, <2>6, <2>7, <2>8, <2>9, <2>10 DEF SaleInv
<1>3. QED
  BY <1>1, <1>2

LEMMA PatchExecutesAgrees ==
  ASSUME SaleAssumption, TypeOK, TypeOK', Agree,
         NEW s \in Sale, PatchExecutes(s)
  PROVE  Agree'
<1> SUFFICES ASSUME NEW t \in Sale PROVE SaleInv(t)'
  BY DEF Agree
<1> USE DEF SaleInv, OwnersHaveRows, OneOwner, PatchIsLast, CardIsLeaving,
        UntoldIsUnseen, Deferred, RawWaits, FloorIsTaken, FrameIsLate, StoredIsSeen,
        Leg, Owning, TypeOK, Pc
<1>0. SaleInv(t) /\ SaleInv(s)
  BY DEF Agree
<1>1. CASE t # s
  BY <1>0, <1>1 DEF PatchExecutes
<1>2. CASE t = s
  <2>1. OwnersHaveRows(t)'
    BY <1>0, <1>2 DEF PatchExecutes
  <2>2. OneOwner(t)'
    BY <1>0, <1>2 DEF PatchExecutes
  <2>3. PatchIsLast(t)'
    BY <1>0, <1>2 DEF PatchExecutes
  <2>4. CardIsLeaving(t)'
    BY <1>0, <1>2 DEF PatchExecutes
  <2>5. UntoldIsUnseen(t)'
    BY <1>0, <1>2 DEF PatchExecutes
  <2>6. Deferred(t)'
    BY <1>0, <1>2 DEF PatchExecutes
  <2>7. RawWaits(t)'
    BY <1>0, <1>2 DEF PatchExecutes
  <2>8. FloorIsTaken(t)'
    BY <1>0, <1>2 DEF PatchExecutes
  <2>9. FrameIsLate(t)'
    BY <1>0, <1>2 DEF PatchExecutes
  <2>10. StoredIsSeen(t)'
    BY <1>0, <1>2 DEF PatchExecutes
  <2>11. QED
    BY <2>1, <2>2, <2>3, <2>4, <2>5, <2>6, <2>7, <2>8, <2>9, <2>10 DEF SaleInv
<1>3. QED
  BY <1>1, <1>2

LEMMA PatchReturnsAgrees ==
  ASSUME SaleAssumption, TypeOK, TypeOK', Agree,
         NEW s \in Sale, PatchReturns(s)
  PROVE  Agree'
<1> SUFFICES ASSUME NEW t \in Sale PROVE SaleInv(t)'
  BY DEF Agree
<1> USE DEF SaleInv, OwnersHaveRows, OneOwner, PatchIsLast, CardIsLeaving,
        UntoldIsUnseen, Deferred, RawWaits, FloorIsTaken, FrameIsLate, StoredIsSeen,
        Leg, Owning, TypeOK, Pc
<1>0. SaleInv(t) /\ SaleInv(s)
  BY DEF Agree
<1>1. CASE t # s
  BY <1>0, <1>1 DEF PatchReturns
<1>2. CASE t = s
  <2>1. OwnersHaveRows(t)'
    BY <1>0, <1>2 DEF PatchReturns
  <2>2. OneOwner(t)'
    BY <1>0, <1>2 DEF PatchReturns
  <2>3. PatchIsLast(t)'
    BY <1>0, <1>2 DEF PatchReturns
  <2>4. CardIsLeaving(t)'
    BY <1>0, <1>2 DEF PatchReturns
  <2>5. UntoldIsUnseen(t)'
    BY <1>0, <1>2 DEF PatchReturns
  <2>6. Deferred(t)'
    BY <1>0, <1>2 DEF PatchReturns
  <2>7. RawWaits(t)'
    BY <1>0, <1>2 DEF PatchReturns
  <2>8. FloorIsTaken(t)'
    BY <1>0, <1>2 DEF PatchReturns
  <2>9. FrameIsLate(t)'
    BY <1>0, <1>2 DEF PatchReturns
  <2>10. StoredIsSeen(t)'
    BY <1>0, <1>2 DEF PatchReturns
  <2>11. QED
    BY <2>1, <2>2, <2>3, <2>4, <2>5, <2>6, <2>7, <2>8, <2>9, <2>10 DEF SaleInv
<1>3. QED
  BY <1>1, <1>2

LEMMA RestartAgrees ==
  ASSUME SaleAssumption, TypeOK, Agree, Restart
  PROVE  Agree'
BY DEF Agree, SaleInv, OwnersHaveRows, OneOwner, PatchIsLast, CardIsLeaving,
       UntoldIsUnseen, Deferred, RawWaits, FloorIsTaken, FrameIsLate, StoredIsSeen,
       Restart, Nobody, Owning, Leg, TypeOK

LEMMA InitAgrees ==
  ASSUME Init
  PROVE  TypeOK /\ Agree
BY DEF Init, None, Nobody, TypeOK, Pc, Agree, SaleInv, OwnersHaveRows, OneOwner,
       PatchIsLast, CardIsLeaving, UntoldIsUnseen, Deferred, RawWaits, FloorIsTaken,
       FrameIsLate, StoredIsSeen, Owning, Leg

LEMMA StutterAgrees ==
  ASSUME Agree, UNCHANGED vars
  PROVE  Agree'
BY DEF vars, tasks, Agree, SaleInv, OwnersHaveRows, OneOwner, PatchIsLast,
       CardIsLeaving, UntoldIsUnseen, Deferred, RawWaits, FloorIsTaken, FrameIsLate, StoredIsSeen

\* Every reachable state of the sale pipeline is well typed.
THEOREM SaleTypeCorrect == Spec => []TypeOK
<1>1. Init => TypeOK
  BY InitAgrees
<1>2. TypeOK /\ [Next]_vars => TypeOK'
  BY Typed, SaleAssumption
<1>3. QED
  BY <1>1, <1>2, PTL DEF Spec

LEMMA NextAgrees ==
  ASSUME SaleAssumption, TypeOK, Agree, [Next]_vars
  PROVE  TypeOK' /\ Agree'
<1>1. TypeOK'
  BY Typed
<1>2. CASE Next
  BY <1>1, <1>2, CallInsertAgrees, InsertExecutesAgrees, InsertReturnsAgrees,
     BudgetRunsOutAgrees, EnrichResolvesAgrees, EnrichFailsAgrees,
     DeleteExecutesAgrees, DeleteReturnsAgrees, UpdateReturnsAgrees, RetryEndsAgrees,
     PatchIsSentAgrees, PatchExecutesAgrees, PatchReturnsAgrees, RestartAgrees DEF Next
<1>3. CASE UNCHANGED vars
  BY <1>1, <1>3, StutterAgrees
<1>4. QED
  BY <1>1, <1>2, <1>3

LEMMA AgreeIsInvariant ==
  ASSUME SaleAssumption
  PROVE  Spec => [](TypeOK /\ Agree)
<1>1. Init => TypeOK /\ Agree
  BY InitAgrees
<1>2. TypeOK /\ Agree /\ [Next]_vars => TypeOK' /\ Agree'
  BY NextAgrees
<1>3. QED
  BY <1>1, <1>2, PTL DEF Spec

\* When nothing is under way for a sale, its card has a row in the table:
\* insertSaleEvent, applyEnrichment and patchSaleEventRaw leave a card of a
\* deleted sale behind only if its sale frame was deferred past its remove
\* frame.
THEOREM NoGhostCards == Spec => []CardsHaveRows
<1>1. Agree => CardsHaveRows
  BY DEF Agree, SaleInv, CardIsLeaving, CardsHaveRows, Quiet, Leg
<1>2. QED
  BY <1>1, AgreeIsInvariant, SaleAssumption, PTL

\* A stored sale of a clean collection is on the screens once nothing is
\* under way for it.
THEOREM NoLostFrames == Spec => []StoredIsShown
<1>1. Agree => StoredIsShown
  BY DEF Agree, SaleInv, StoredIsSeen, StoredIsShown, Quiet, Leg
<1>2. QED
  BY <1>1, AgreeIsInvariant, SaleAssumption, PTL
=============================================================================
