------------------------------ MODULE Listener ------------------------------
(***************************************************************************)
(* The websocket listener and the runtime mode that restarts it.  Every    *)
(* program has a log subscription on a socket of its own and one more      *)
(* socket carries the slot heartbeat.  The code finds a socket again only  *)
(* through activeSockets (slotWs for the heartbeat): a socket whose entry  *)
(* was overwritten or deleted lives on as an orphan, with its handlers.    *)
(* Sockets reopen from the close handler's timer, from the watchdog, from  *)
(* the hard refresh and from a change of mode, and nothing cancels the     *)
(* timers.  The tail of the module is the chain of poll ticks, which a     *)
(* stop ends by its epoch.                                                 *)
(*                                                                         *)
(* stopListener is called only right before startListener, so `running` is *)
(* true in every state between two callbacks, as `restarting` is false.    *)
(***************************************************************************)
EXTENDS Naturals, FiniteSets

CONSTANTS
  Sales,          \* programs gated by the runtime mode
  Mints,          \* MINT_TARGET_NAMES, gated by the mint tracker's mode
  RealClock,      \* targets whose watchdog clock is lastRealNotifTs: mpl_core
  First,          \* TARGETS[0], which a full restart opens without a stagger
  Slot,           \* the heartbeat
  Modes,          \* "off" and the active modes
  MaxFaults,      \* bound on closes, failed connects and silent sockets
  MaxChanges,     \* bound on changes of mode
  MaxRefreshes    \* bound on hard refresh cycles

Targets == Sales \cup Mints
Streams == Targets \cup {Slot}

ASSUME ListenerAssumption ==
  /\ {MaxFaults, MaxChanges, MaxRefreshes} \subseteq Nat
  /\ Sales \cap Mints = {} /\ Slot \notin Targets
  /\ First \in Sales /\ RealClock \subseteq Mints /\ "off" \in Modes

VARIABLES
  entry,          \* activeSockets and slotWs: the phase of the known socket
  orphans,        \* per stream and phase, the open sockets nothing refers to
  retry,          \* pending reconnect timers of close handlers
  opening,        \* pending stagger timers of a full restart
  refreshing,     \* pending restart timers of a hard refresh
  stale,          \* per target, its watchdog clock ran out; Slot: lastSlotTs
  eventsStale,    \* lastEventTs is older than 30 s
  mode, live,     \* getMode(), and whether the mint tracker is live or warm
  epoch, chains,  \* pollChainEpoch, and the chains of poll ticks
  faults, changes, refreshes

sockets == <<entry, orphans, retry, opening, refreshing>>
clocks == <<stale, eventsStale>>
polls == <<epoch, chains>>
bounds == <<faults, changes, refreshes>>
vars == <<sockets, clocks, mode, live, polls, bounds>>

\* A socket is waiting for its handshake, delivers, or is open and silent.
Phase == {"connecting", "delivering", "silent"}
NoOrphans == [p \in Phase |-> 0]

TypeOK ==
  /\ entry \in [Streams -> Phase \cup {"none"}]
  /\ orphans \in [Streams -> [Phase -> Nat]]
  /\ {retry, opening, refreshing} \subseteq [Streams -> Nat]
  /\ stale \in [Streams -> BOOLEAN] /\ eventsStale \in BOOLEAN
  /\ mode \in Modes /\ live \in BOOLEAN
  /\ epoch \in Nat
  /\ chains \subseteq [epoch : 0 .. epoch, at : {"seeding", "ticking"}]
  /\ faults \in 0 .. MaxFaults /\ changes \in 0 .. MaxChanges
  /\ refreshes \in 0 .. MaxRefreshes

----------------------------------------------------------------------------
(* A process begins with startListener, in mode off; the mint tracker's    *)
(* mode is read from the environment.                                      *)

NoTimers == [t \in Streams |-> 0]

Init ==
  /\ entry = [t \in Streams |-> "connecting"]
  /\ orphans = [t \in Streams |-> NoOrphans]
  /\ retry = NoTimers /\ opening = NoTimers /\ refreshing = NoTimers
  /\ stale = [t \in Streams |-> FALSE] /\ eventsStale = FALSE
  /\ mode = "off" /\ live \in BOOLEAN
  /\ epoch = 0 /\ chains = {[epoch |-> 0, at |-> "seeding"]}
  /\ faults = 0 /\ changes = 0 /\ refreshes = 0

\* An 'error' event without a listener: the process exits and is started anew.
Reboot ==
  /\ entry' = [t \in Streams |-> "connecting"]
  /\ orphans' = [t \in Streams |-> NoOrphans]
  /\ retry' = NoTimers /\ opening' = NoTimers /\ refreshing' = NoTimers
  /\ stale' = [t \in Streams |-> FALSE] /\ eventsStale' = FALSE
  /\ mode' = "off" /\ live' \in BOOLEAN
  /\ epoch' = 0 /\ chains' = {[epoch |-> 0, at |-> "seeding"]}
  /\ UNCHANGED bounds

----------------------------------------------------------------------------
(* One socket.                                                             *)

Fault == faults < MaxFaults /\ faults' = faults + 1

\* What becomes of the orphans of t when its entry is dropped or overwritten.
Orphaned(t) ==
  IF entry[t] = "none" THEN orphans[t] ELSE [orphans[t] EXCEPT ![entry[t]] = @ + 1]

\* openSubscription, openSlotSubscription: the new socket takes the entry.
Open(t) ==
  /\ entry' = [entry EXCEPT ![t] = "connecting"]
  /\ orphans' = [orphans EXCEPT ![t] = Orphaned(t)]

\* The handshake ends; the subscription may be accepted and yet deliver nothing.
Connected(t, p) ==
  /\ \/ p = "delivering" /\ UNCHANGED faults
     \/ p = "silent" /\ Fault
  /\ \/ entry[t] = "connecting" /\ entry' = [entry EXCEPT ![t] = p] /\ UNCHANGED orphans
     \/ /\ orphans[t]["connecting"] > 0
        /\ orphans' = [orphans EXCEPT ![t]["connecting"] = @ - 1, ![t][p] = @ + 1]
        /\ UNCHANGED entry
  /\ UNCHANGED <<retry, opening, refreshing, clocks, mode, live, polls, changes, refreshes>>

FallsSilent(t) ==
  /\ entry[t] = "delivering" /\ Fault
  /\ entry' = [entry EXCEPT ![t] = "silent"]
  /\ UNCHANGED <<orphans, retry, opening, refreshing, clocks, mode, live, polls,
                 changes, refreshes>>

\* A close handler that reconnects only when it found an entry of its own, and
\* deletes whatever it found.
Closed_OwnEntryOnly(t) ==
  /\ Fault
  /\ \/ /\ entry[t] # "none"
        /\ retry' = [retry EXCEPT ![t] = @ + 1]
        /\ UNCHANGED orphans
     \/ \E p \in Phase :
          /\ orphans[t][p] > 0
          /\ orphans' = [orphans EXCEPT ![t] = [Orphaned(t) EXCEPT ![p] = @ - 1]]
          /\ UNCHANGED retry
  /\ entry' = [entry EXCEPT ![t] = "none"]
  /\ UNCHANGED <<opening, refreshing, clocks, mode, live, polls, changes, refreshes>>

\* The close handler deletes the entry by the target's name, whichever socket
\* it holds, and sets the reconnect timer.
Closed(t) ==
  /\ Fault
  /\ \/ /\ entry[t] # "none"
        /\ UNCHANGED orphans
     \/ \E p \in Phase :
          /\ orphans[t][p] > 0
          /\ orphans' = [orphans EXCEPT ![t] = [Orphaned(t) EXCEPT ![p] = @ - 1]]
  /\ entry' = [entry EXCEPT ![t] = "none"]
  /\ retry' = [retry EXCEPT ![t] = @ + 1]
  /\ UNCHANGED <<opening, refreshing, clocks, mode, live, polls, changes, refreshes>>

Reconnect(t) ==
  /\ retry[t] > 0
  /\ retry' = [retry EXCEPT ![t] = @ - 1]
  /\ Open(t)
  /\ UNCHANGED <<opening, refreshing, clocks, mode, live, polls, bounds>>

Staggered(t) ==
  /\ opening[t] > 0
  /\ opening' = [opening EXCEPT ![t] = @ - 1]
  /\ Open(t)
  /\ UNCHANGED <<retry, refreshing, clocks, mode, live, polls, bounds>>

----------------------------------------------------------------------------
(* Notifications and the watchdog.                                         *)

\* isTargetActive, and the WARM guard of the message handler.
Listens(t) == IF t \in Sales THEN mode # "off" ELSE t = Slot \/ live

Delivers(t) == entry[t] = "delivering" \/ orphans[t]["delivering"] > 0

\* A notification resets the clocks.  That of a failed transaction, or of one
\* without a mint log, leaves lastRealNotifTs alone.
Notified(t, real) ==
  /\ Delivers(t) /\ Listens(t)
  /\ eventsStale' = (eventsStale /\ t = Slot)
  /\ stale' = [stale EXCEPT ![t] = @ /\ t \in RealClock /\ ~real]
  /\ UNCHANGED <<sockets, mode, live, polls, bounds>>

\* Time passes without a notification that resets the clock.
Ages(t) ==
  /\ ~stale[t]
  /\ stale' = [stale EXCEPT ![t] = TRUE]
  /\ UNCHANGED <<sockets, eventsStale, mode, live, polls, bounds>>

EventsAge ==
  /\ ~eventsStale
  /\ eventsStale' = TRUE
  /\ UNCHANGED <<sockets, stale, mode, live, polls, bounds>>

\* removeAllListeners and terminate on every known socket of S: a connecting
\* one emits an 'error' that nobody listens to.
Crashes(S) == \E t \in S : entry[t] = "connecting"

\* restartListeners: every known socket is torn down, the first target and the
\* heartbeat reopen at once and the others after their stagger.
RestartListeners ==
  IF Crashes(Streams) THEN Reboot ELSE
  /\ entry' = [t \in Streams |-> IF t \in {First, Slot} THEN "connecting" ELSE "none"]
  /\ opening' = [t \in Streams |-> opening[t] + IF t \in {First, Slot} THEN 0 ELSE 1]
  /\ stale' = [t \in Streams |-> stale[t] /\ t \in RealClock]
  /\ eventsStale' = FALSE
  /\ UNCHANGED <<orphans, retry, refreshing, mode, live, polls, bounds>>

\* restartTarget for every target of S.
RestartTargets(S) ==
  /\ entry' = [t \in Streams |-> IF t \in S THEN "connecting" ELSE entry[t]]
  /\ stale' = [t \in Streams |-> stale[t] /\ t \notin S]
  /\ UNCHANGED <<orphans, retry, opening, eventsStale, mode, live, polls>>

\* The watchdog before its third tier: one busy target hides the others.
Watchdog_SharedClock ==
  /\ opening = NoTimers
  /\ stale[Slot] \/ eventsStale
  /\ RestartListeners

\* The tiers of the watchdog's tick.  A tick comes 15 s after the one before
\* it, when the stagger timers of that one are long gone.
Watchdog ==
  /\ opening = NoTimers
  /\ IF stale[Slot] \/ eventsStale
       THEN RestartListeners
       ELSE LET S == {t \in Targets : stale[t]} IN
            /\ S # {}
            /\ IF Crashes(S) THEN Reboot
                             ELSE RestartTargets(S) /\ UNCHANGED <<refreshing, bounds>>

\* The cycle of the hard refresh sets one timer per target.
HardRefresh ==
  /\ refreshes < MaxRefreshes /\ refreshing = NoTimers
  /\ refreshes' = refreshes + 1
  /\ refreshing' = [t \in Streams |-> IF t = Slot THEN 0 ELSE 1]
  /\ UNCHANGED <<entry, orphans, retry, opening, clocks, mode, live, polls, faults, changes>>

Refresh(t) ==
  /\ refreshing[t] > 0
  /\ IF Crashes({t}) THEN Reboot
     ELSE /\ refreshing' = [refreshing EXCEPT ![t] = @ - 1]
          /\ RestartTargets({t}) /\ UNCHANGED bounds

----------------------------------------------------------------------------
(* The runtime mode.  Only an active mode stops and starts the listener.   *)

\* stopListener then startListener.  The listener is told apart from a stopped
\* one only by `running`: orphans and timers survive, and terminate() is safe.
Restarts ==
  /\ entry' = [t \in Streams |-> "connecting"]
  /\ epoch' = epoch + 1
  /\ chains' = chains \cup {[epoch |-> epoch + 1, at |-> "seeding"]}

\* applyTransition.
SetMode(next) ==
  /\ changes < MaxChanges /\ next # mode
  /\ changes' = changes + 1
  /\ mode' = next
  /\ IF next # "off" /\ (mode # "off" \/ live)
       THEN Restarts
       ELSE UNCHANGED <<entry, polls>>
  /\ UNCHANGED <<orphans, retry, opening, refreshing, clocks, live, faults, refreshes>>

\* setMintTrackerEnabled; its startListener finds the listener running.
SetMintTracker ==
  /\ changes < MaxChanges
  /\ changes' = changes + 1
  /\ live' = ~live
  /\ UNCHANGED <<sockets, clocks, mode, polls, faults, refreshes>>

----------------------------------------------------------------------------
(* The chain of poll ticks: seed, then wait and poll for ever.             *)

\* The chain looks only at `running`.
Rearm_WhileRunning(c) == {[c EXCEPT !.at = "ticking"]}

\* schedulePollTick, and the check of the timer: only the chain of the current
\* epoch goes on.
Rearm(c) ==
  IF c.epoch = epoch THEN {[c EXCEPT !.at = "ticking"]} ELSE {}

PollStep(c) ==
  /\ c \in chains
  /\ chains' = (chains \ {c}) \cup Rearm(c)
  /\ UNCHANGED <<sockets, clocks, mode, live, epoch, bounds>>

----------------------------------------------------------------------------
Next ==
  \/ \E t \in Streams :
       \/ \E p \in {"delivering", "silent"} : Connected(t, p)
       \/ FallsSilent(t) \/ Closed(t)
       \/ Reconnect(t) \/ Staggered(t) \/ Refresh(t)
       \/ \E real \in BOOLEAN : Notified(t, real)
       \/ Ages(t)
  \/ EventsAge \/ Watchdog \/ HardRefresh
  \/ \E next \in Modes : SetMode(next)
  \/ SetMintTracker
  \/ \E c \in chains : PollStep(c)

Spec == Init /\ [][Next]_vars

\* Handshakes end, timers fire, the watchdog ticks, a clock that nothing resets
\* runs out, and the calls of a poll return; no timer of the stagger is for the
\* first target or the heartbeat, none of the hard refresh for the heartbeat.
Fairness ==
  /\ \A t \in Streams :
       WF_vars(Connected(t, "delivering")) /\ WF_vars(Reconnect(t))
         /\ WF_vars(~Delivers(t) /\ Ages(t))
  /\ \A t \in Targets : WF_vars(Refresh(t))
  /\ \A t \in Targets \ {First} : WF_vars(Staggered(t))
  /\ WF_vars(Watchdog)
  /\ \A e \in 0 .. MaxChanges : WF_vars(\E c \in chains : c.epoch = e /\ PollStep(c))

FairSpec == Spec /\ Fairness

----------------------------------------------------------------------------
\* A stream never drops out: it has a known socket, or a timer that opens one.
\* An orphan alone would do as well, yet each of them left the map together
\* with a timer or a new entry (openSubscription, close handler).
EveryStreamIsHeld ==
  \A t \in Streams : entry[t] # "none" \/ retry[t] > 0 \/ opening[t] > 0

\* A subscription that went silent, or whose socket is gone, is replaced in the
\* end, however busy the other streams are (the watchdog's tiers 1 to 3).
SilenceEnds == \A t \in Streams : []<>Delivers(t)

\* Once the mode rests one chain of poll ticks is left, whatever number of
\* stops and starts came before (pollChainEpoch).
OnePollChainRemains == <>[](Cardinality(chains) = 1)
=============================================================================
