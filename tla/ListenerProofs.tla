--------------------------- MODULE ListenerProofs ---------------------------
(***************************************************************************)
(* The websocket listener, for every set of targets and every bound: its   *)
(* type, and that no stream is ever left without a known socket and        *)
(* without a timer that opens one.                                         *)
(***************************************************************************)
EXTENDS Listener, TLAPS

USE ListenerAssumption

SocketBag == [Phase -> Nat]

LEMMA ListenerInitType ==
  Init => TypeOK
<1> SUFFICES ASSUME Init PROVE TypeOK
  OBVIOUS
<1>1. NoOrphans \in SocketBag
  BY DEF NoOrphans, SocketBag
<1>2. NoTimers \in [Streams -> Nat]
  BY DEF NoTimers
<1>3. orphans \in [Streams -> SocketBag]
  BY <1>1 DEF Init
<1>4. {retry, opening, refreshing} \subseteq [Streams -> Nat]
  BY <1>2 DEF Init
<1>5. /\ entry \in [Streams -> Phase \cup {"none"}]
      /\ stale \in [Streams -> BOOLEAN]
  BY DEF Init, Phase
<1>6. chains \subseteq [epoch : 0 .. epoch, at : {"seeding", "ticking"}]
  BY DEF Init
<1>7. faults \in 0 .. MaxFaults /\ changes \in 0 .. MaxChanges /\ refreshes \in 0 .. MaxRefreshes
  BY DEF Init
<1>8. mode \in Modes
  BY DEF Init
<1> QED
  BY <1>3, <1>4, <1>5, <1>6, <1>7, <1>8 DEF Init, TypeOK, SocketBag

\* Dropping an entry moves its socket to the orphans.
LEMMA OrphanedType ==
  ASSUME TypeOK, NEW t \in Streams
  PROVE  Orphaned(t) \in SocketBag
<1>1. orphans[t] \in SocketBag
  BY DEF TypeOK, SocketBag
<1>2. CASE entry[t] = "none"
  BY <1>1, <1>2 DEF Orphaned
<1>3. CASE entry[t] # "none"
  <2>1. entry[t] \in Phase
    BY <1>3 DEF TypeOK
  <2> QED BY <1>1, <1>3, <2>1 DEF Orphaned, SocketBag
<1> QED BY <1>2, <1>3

LEMMA OpenType ==
  ASSUME TypeOK, NEW t \in Streams, Open(t)
  PROVE  /\ entry' \in [Streams -> Phase \cup {"none"}]
         /\ orphans' \in [Streams -> SocketBag]
<1>1. Orphaned(t) \in SocketBag
  BY OrphanedType
<1> QED BY <1>1 DEF Open, TypeOK, Phase, SocketBag

LEMMA RebootType ==
  ASSUME TypeOK, Reboot
  PROVE  TypeOK'
<1>1. NoOrphans \in SocketBag
  BY DEF NoOrphans, SocketBag
<1>2. NoTimers \in [Streams -> Nat]
  BY DEF NoTimers
<1>3. orphans' \in [Streams -> SocketBag]
  BY <1>1 DEF Reboot
<1>4. {retry', opening', refreshing'} \subseteq [Streams -> Nat]
  BY <1>2 DEF Reboot
<1>5. /\ entry' \in [Streams -> Phase \cup {"none"}]
      /\ stale' \in [Streams -> BOOLEAN]
  BY DEF Reboot, Phase
<1>6. chains' \subseteq [epoch : 0 .. epoch', at : {"seeding", "ticking"}]
  BY DEF Reboot
<1>7. mode' \in Modes
  BY DEF Reboot
<1> QED
  BY <1>3, <1>4, <1>5, <1>6, <1>7 DEF Reboot, TypeOK, SocketBag, bounds

LEMMA SocketStepType ==
  ASSUME TypeOK, NEW t \in Streams,
         \/ \E p \in {"delivering", "silent"} : Connected(t, p)
         \/ FallsSilent(t) \/ Closed(t) \/ Reconnect(t) \/ Staggered(t)
  PROVE  TypeOK'
<1>0. /\ MaxFaults \in Nat
      /\ orphans[t] \in SocketBag /\ retry[t] \in Nat /\ opening[t] \in Nat
  BY DEF TypeOK, SocketBag
<1>1. ASSUME NEW p \in {"delivering", "silent"}, Connected(t, p) PROVE TypeOK'
  <2>1. faults' \in 0 .. MaxFaults
    BY <1>0, <1>1 DEF Connected, Fault, TypeOK
  <2>2. entry' \in [Streams -> Phase \cup {"none"}]
    BY <1>1 DEF Connected, TypeOK, Phase
  <2>3. orphans' \in [Streams -> SocketBag]
    <3>1. CASE UNCHANGED orphans
      BY <3>1 DEF TypeOK, SocketBag
    <3>2. CASE /\ orphans[t]["connecting"] > 0
               /\ orphans' = [orphans EXCEPT ![t]["connecting"] = @ - 1, ![t][p] = @ + 1]
      <4> DEFINE one == [orphans[t] EXCEPT !["connecting"] = @ - 1]
      <4> DEFINE two == [one EXCEPT ![p] = @ + 1]
      <4>1. one \in SocketBag
        BY <1>0, <3>2 DEF SocketBag, Phase
      <4>2. two \in SocketBag
        BY <4>1 DEF SocketBag, Phase
      <4>3. orphans' = [orphans EXCEPT ![t] = two]
        BY <1>0, <3>2 DEF TypeOK, SocketBag, Phase
      <4> QED BY <4>2, <4>3 DEF TypeOK, SocketBag
    <3> QED BY <1>1, <3>1, <3>2 DEF Connected
  <2> QED
    BY <1>1, <2>1, <2>2, <2>3
       DEF Connected, TypeOK, SocketBag, clocks, polls
<1>2. CASE FallsSilent(t)
  BY <1>0, <1>2 DEF FallsSilent, Fault, TypeOK, Phase, clocks, polls
<1>3. CASE Closed(t)
  <2>1. orphans' \in [Streams -> SocketBag]
    <3>1. CASE UNCHANGED orphans
      BY <3>1 DEF TypeOK, SocketBag
    <3>2. ASSUME NEW p \in Phase, orphans[t][p] > 0,
                 orphans' = [orphans EXCEPT ![t] = [Orphaned(t) EXCEPT ![p] = @ - 1]]
          PROVE  orphans' \in [Streams -> SocketBag]
      <4>1. Orphaned(t) \in SocketBag
        BY OrphanedType
      <4>2. Orphaned(t)[p] > 0
        BY <1>0, <3>2 DEF Orphaned, TypeOK, SocketBag
      <4>3. [Orphaned(t) EXCEPT ![p] = @ - 1] \in SocketBag
        BY <4>1, <4>2 DEF SocketBag
      <4> QED BY <3>2, <4>3 DEF TypeOK, SocketBag
    <3> QED BY <1>3, <3>1, <3>2 DEF Closed
  <2>2. retry' \in [Streams -> Nat] /\ entry' \in [Streams -> Phase \cup {"none"}]
    BY <1>0, <1>3 DEF Closed, TypeOK
  <2>3. faults' \in 0 .. MaxFaults
    BY <1>0, <1>3 DEF Closed, Fault, TypeOK
  <2> QED BY <1>3, <2>1, <2>2, <2>3
     DEF Closed, TypeOK, SocketBag, clocks, polls
<1>4. CASE Reconnect(t)
  <2>1. /\ entry' \in [Streams -> Phase \cup {"none"}]
        /\ orphans' \in [Streams -> SocketBag]
    BY <1>4, OpenType DEF Reconnect
  <2>2. retry' \in [Streams -> Nat]
    BY <1>0, <1>4 DEF Reconnect, TypeOK
  <2> QED BY <1>4, <2>1, <2>2
     DEF Reconnect, TypeOK, SocketBag, clocks, polls, bounds
<1>5. CASE Staggered(t)
  <2>1. /\ entry' \in [Streams -> Phase \cup {"none"}]
        /\ orphans' \in [Streams -> SocketBag]
    BY <1>5, OpenType DEF Staggered
  <2>2. opening' \in [Streams -> Nat]
    BY <1>0, <1>5 DEF Staggered, TypeOK
  <2> QED BY <1>5, <2>1, <2>2
     DEF Staggered, TypeOK, SocketBag, clocks, polls, bounds
<1> QED BY <1>1, <1>2, <1>3, <1>4, <1>5

LEMMA RestartListenersType ==
  ASSUME TypeOK, RestartListeners
  PROVE  TypeOK'
<1>1. CASE Crashes(Streams)
  BY <1>1, RebootType DEF RestartListeners
<1>2. CASE ~Crashes(Streams)
  <2>1. opening' \in [Streams -> Nat]
    <3>1. opening \in [Streams -> Nat]
      BY DEF TypeOK
    <3>2. opening' = [t \in Streams |-> opening[t] + IF t \in {First, Slot} THEN 0 ELSE 1]
      BY <1>2 DEF RestartListeners
    <3>3. \A t \in Streams : opening[t] + (IF t \in {First, Slot} THEN 0 ELSE 1) \in Nat
      BY <3>1
    <3> QED BY <3>2, <3>3
  <2>2. entry' \in [Streams -> Phase \cup {"none"}]
    BY <1>2 DEF RestartListeners, Phase
  <2>3. stale' \in [Streams -> BOOLEAN]
    <3>1. stale' = [t \in Streams |-> stale[t] /\ t \in RealClock]
      BY <1>2 DEF RestartListeners
    <3> QED BY <3>1, Zenon
  <2> QED BY <1>2, <2>1, <2>2, <2>3
     DEF RestartListeners, TypeOK, polls, bounds
<1> QED BY <1>1, <1>2

LEMMA RestartTargetsType ==
  ASSUME TypeOK, NEW S \in SUBSET Targets, RestartTargets(S)
  PROVE  /\ entry' \in [Streams -> Phase \cup {"none"}]
         /\ stale' \in [Streams -> BOOLEAN]
         /\ UNCHANGED <<orphans, retry, opening, eventsStale, mode, live, polls>>
<1>1. entry' \in [Streams -> Phase \cup {"none"}]
  BY DEF RestartTargets, TypeOK, Phase
<1>2. stale' \in [Streams -> BOOLEAN]
  <2>1. stale' = [t \in Streams |-> stale[t] /\ t \notin S]
    BY DEF RestartTargets
  <2> QED BY <2>1, Zenon
<1> QED BY <1>1, <1>2 DEF RestartTargets

LEMMA ListenerStepType ==
  ASSUME TypeOK, [Next]_vars
  PROVE  TypeOK'
<1>0. /\ {MaxFaults, MaxChanges, MaxRefreshes} \subseteq Nat
      /\ NoTimers \in [Streams -> Nat]
  BY DEF NoTimers
<1>1. ASSUME NEW t \in Streams,
             \/ \E p \in {"delivering", "silent"} : Connected(t, p)
             \/ FallsSilent(t) \/ Closed(t) \/ Reconnect(t) \/ Staggered(t)
      PROVE  TypeOK'
  BY <1>1, SocketStepType
<1>2. ASSUME NEW t \in Streams, Refresh(t) PROVE TypeOK'
  <2>1. CASE Crashes({t})
    BY <1>2, <2>1, RebootType DEF Refresh
  <2>2. CASE ~Crashes({t}) /\ t \in Targets
    <3>1. refreshing' \in [Streams -> Nat]
      BY <1>2, <2>2 DEF Refresh, TypeOK
    <3>2. RestartTargets({t}) /\ UNCHANGED bounds
      BY <1>2, <2>2 DEF Refresh
    <3>3. {t} \in SUBSET Targets
      BY <2>2
    <3> QED BY <3>1, <3>2, <3>3, RestartTargetsType DEF TypeOK, polls, bounds
  <2>3. CASE ~Crashes({t}) /\ t = Slot
    <3>1. refreshing' \in [Streams -> Nat]
      BY <1>2, <2>3 DEF Refresh, TypeOK
    <3>2. entry' \in [Streams -> Phase \cup {"none"}]
      BY <1>2, <2>3 DEF Refresh, RestartTargets, TypeOK, Phase
    <3>3. stale' \in [Streams -> BOOLEAN]
      <4>1. stale' = [u \in Streams |-> stale[u] /\ u \notin {t}]
        BY <1>2, <2>3 DEF Refresh, RestartTargets
      <4> QED BY <4>1, Zenon
    <3> QED
      BY <1>2, <2>3, <3>1, <3>2, <3>3
         DEF Refresh, RestartTargets, TypeOK, polls, bounds
  <2> QED BY <2>1, <2>2, <2>3 DEF Streams
<1>3. ASSUME NEW t \in Streams, NEW real \in BOOLEAN, Notified(t, real) PROVE TypeOK'
  <2>1. stale' \in [Streams -> BOOLEAN]
    <3>1. stale' = [stale EXCEPT ![t] = @ /\ t \in RealClock /\ ~real]
      BY <1>3 DEF Notified
    <3>2. (stale[t] /\ t \in RealClock /\ ~real) \in BOOLEAN
      BY Zenon
    <3>3. stale \in [Streams -> BOOLEAN]
      BY DEF TypeOK
    <3> QED BY <3>1, <3>2, <3>3, Zenon
  <2>2. eventsStale' \in BOOLEAN
    <3>1. eventsStale' = (eventsStale /\ t = Slot)
      BY <1>3 DEF Notified
    <3> QED BY <3>1, Zenon
  <2> QED BY <1>3, <2>1, <2>2
     DEF Notified, TypeOK, sockets, polls, bounds
<1>4. ASSUME NEW t \in Streams, Ages(t) PROVE TypeOK'
  BY <1>4 DEF Ages, TypeOK, sockets, polls, bounds
<1>5. CASE EventsAge
  BY <1>5 DEF EventsAge, TypeOK, sockets, polls, bounds
<1>6. CASE Watchdog
  <2>1. CASE RestartListeners
    BY <2>1, RestartListenersType
  <2>2. CASE Reboot
    BY <2>2, RebootType
  <2>3. CASE \E S \in SUBSET Targets :
               RestartTargets(S) /\ UNCHANGED <<refreshing, bounds>>
    BY <2>3, RestartTargetsType DEF TypeOK, polls, bounds
  <2> QED
    <3> DEFINE S == {t \in Targets : stale[t]}
    <3>1. S \in SUBSET Targets
      OBVIOUS
    <3>2. \/ RestartListeners \/ Reboot
          \/ RestartTargets(S) /\ UNCHANGED <<refreshing, bounds>>
      BY <1>6 DEF Watchdog
    <3> QED BY <2>1, <2>2, <2>3, <3>1, <3>2
<1>7. CASE HardRefresh
  <2>1. refreshing' \in [Streams -> Nat]
    BY <1>7 DEF HardRefresh
  <2> QED BY <1>0, <1>7, <2>1 DEF HardRefresh, TypeOK, clocks, polls
<1>8. ASSUME NEW next \in Modes, SetMode(next) PROVE TypeOK'
  <2>1. entry' \in [Streams -> Phase \cup {"none"}]
    BY <1>8 DEF SetMode, Restarts, TypeOK, Phase
  <2>2. /\ epoch' \in Nat
        /\ chains' \subseteq [epoch : 0 .. epoch', at : {"seeding", "ticking"}]
    BY <1>8 DEF SetMode, Restarts, TypeOK, polls
  <2> QED BY <1>0, <1>8, <2>1, <2>2 DEF SetMode, TypeOK, clocks
<1>9. CASE SetMintTracker
  BY <1>0, <1>9 DEF SetMintTracker, TypeOK, sockets, clocks, polls
<1>10. ASSUME NEW c \in chains, PollStep(c) PROVE TypeOK'
  <2>1. c \in [epoch : 0 .. epoch, at : {"seeding", "ticking"}]
    BY <1>10 DEF TypeOK
  <2>2. Rearm(c) \subseteq [epoch : 0 .. epoch, at : {"seeding", "ticking"}]
    BY <2>1 DEF Rearm
  <2> QED BY <1>10, <2>2 DEF PollStep, TypeOK, sockets, clocks, bounds
<1>11. CASE UNCHANGED vars
  BY <1>11 DEF TypeOK, vars, sockets, clocks, polls, bounds
<1> QED
  BY <1>1, <1>2, <1>3, <1>4, <1>5, <1>6, <1>7, <1>8, <1>9, <1>10, <1>11 DEF Next

\* The listener's state has its type, whatever the order of closes, timers,
\* watchdog ticks, changes of mode and crashes.
THEOREM ListenerTypeCorrect ==
  Spec => []TypeOK
<1>1. Init => TypeOK
  BY ListenerInitType
<1>2. TypeOK /\ [Next]_vars => TypeOK'
  BY ListenerStepType
<1> QED BY <1>1, <1>2, PTL DEF Spec

----------------------------------------------------------------------------
LEMMA StreamsStayHeld ==
  ASSUME TypeOK, EveryStreamIsHeld, [Next]_vars
  PROVE  EveryStreamIsHeld'
<1> SUFFICES ASSUME NEW u \in Streams
             PROVE  entry'[u] # "none" \/ retry'[u] > 0 \/ opening'[u] > 0
  BY DEF EveryStreamIsHeld
<1>0. /\ entry[u] # "none" \/ retry[u] > 0 \/ opening[u] > 0
      /\ entry[u] \in Phase \cup {"none"} /\ retry[u] \in Nat /\ opening[u] \in Nat
      /\ entry \in [Streams -> Phase \cup {"none"}]
      /\ {retry, opening} \subseteq [Streams -> Nat]
  BY DEF EveryStreamIsHeld, TypeOK
<1> DEFINE Stays == entry'[u] # "none" \/ retry'[u] > 0 \/ opening'[u] > 0
<1>1. ASSUME UNCHANGED <<entry, retry, opening>> PROVE Stays
  BY <1>0, <1>1
<1>2. ASSUME NEW t \in Streams, NEW p \in {"delivering", "silent"}, Connected(t, p)
      PROVE  Stays
  BY <1>0, <1>2 DEF Connected
<1>3. ASSUME NEW t \in Streams, FallsSilent(t) PROVE Stays
  BY <1>0, <1>3 DEF FallsSilent
<1>4. ASSUME NEW t \in Streams, Closed(t) PROVE Stays
  <2>1. CASE u = t
    BY <1>0, <1>4, <2>1 DEF Closed
  <2>2. CASE u # t
    BY <1>0, <1>4, <2>2 DEF Closed
  <2> QED BY <2>1, <2>2
<1>5. ASSUME NEW t \in Streams, Reconnect(t) PROVE Stays
  BY <1>0, <1>5 DEF Reconnect, Open
<1>6. ASSUME NEW t \in Streams, Staggered(t) PROVE Stays
  BY <1>0, <1>6 DEF Staggered, Open
<1>7. ASSUME Reboot PROVE Stays
  BY <1>7 DEF Reboot
<1>8. ASSUME NEW S, RestartTargets(S) PROVE Stays
  BY <1>0, <1>8 DEF RestartTargets
<1>9. ASSUME RestartListeners PROVE Stays
  <2>1. CASE Crashes(Streams)
    BY <1>7, <1>9, <2>1 DEF RestartListeners
  <2>2. CASE ~Crashes(Streams) /\ u \in {First, Slot}
    BY <1>9, <2>2 DEF RestartListeners
  <2>3. CASE ~Crashes(Streams) /\ u \notin {First, Slot}
    <3>1. opening' = [t \in Streams |-> opening[t] + IF t \in {First, Slot} THEN 0 ELSE 1]
      BY <1>9, <2>3 DEF RestartListeners
    <3>2. opening'[u] = opening[u] + 1
      BY <2>3, <3>1
    <3> QED BY <1>0, <3>2
  <2> QED BY <2>1, <2>2, <2>3
<1>10. ASSUME Watchdog PROVE Stays
  BY <1>7, <1>8, <1>9, <1>10 DEF Watchdog
<1>11. ASSUME NEW t \in Streams, Refresh(t) PROVE Stays
  BY <1>7, <1>8, <1>11 DEF Refresh
<1>12. ASSUME NEW next \in Modes, SetMode(next) PROVE Stays
  BY <1>0, <1>12 DEF SetMode, Restarts
<1>13. ASSUME \/ \E t \in Streams, real \in BOOLEAN : Notified(t, real)
              \/ \E t \in Streams : Ages(t)
              \/ EventsAge \/ HardRefresh \/ SetMintTracker
              \/ \E c \in chains : PollStep(c)
              \/ UNCHANGED vars
       PROVE  UNCHANGED <<entry, retry, opening>>
  BY <1>13
     DEF Notified, Ages, EventsAge, HardRefresh, SetMintTracker,
         PollStep,
               vars, sockets
<1> QED
  BY <1>1, <1>2, <1>3, <1>4, <1>5, <1>6, <1>10, <1>11, <1>12, <1>13 DEF Next

\* No order of closes, restarts and timers leaves a stream with neither a
\* socket the code knows nor a timer that opens one, although no timer is ever
\* cancelled and a close handler deletes the entry of another socket.
THEOREM StreamsAreHeld ==
  Spec => []EveryStreamIsHeld
<1>1. Init => EveryStreamIsHeld
  BY DEF Init, EveryStreamIsHeld
<1>2. EveryStreamIsHeld /\ TypeOK /\ [Next]_vars => EveryStreamIsHeld'
  BY StreamsStayHeld
<1> QED BY <1>1, <1>2, ListenerTypeCorrect, PTL DEF Spec
=============================================================================
