-------------------------- MODULE MintPersistence --------------------------
(***************************************************************************)
(* Counting mints across restarts.  The accumulator counts a delivered     *)
(* mint once per (signature, mint address) key; two files carry its state  *)
(* over a restart: the snapshot (the totals, every 20 s) and the counted   *)
(* ledger (the dedupe keys, 5 s after the first new key).  They are        *)
(* written by different timers and by different shutdown handlers, and a   *)
(* key may be delivered again at any time: by the websocket, the pollers   *)
(* or, after a restart, the gap-healing reconcile.  The ledger's keys live *)
(* for TTL_MS: older ones are left out of every write and dropped at boot. *)
(***************************************************************************)
EXTENDS Integers, FifoSet

CONSTANTS
  Key,          \* (signature, mint address) pairs that occur on chain
  Group,        \* accumulator rows (collections)
  GroupOf,      \* the row each key is counted in
  Cap,          \* COUNTED_MINTS_MAX and the ledger's CAP, both 100 000
  MaxCount,     \* bound on how often one key is counted over all lives
  Faults        \* what the environment may do besides clean signals

PersistenceAssumption ==
  /\ GroupOf \in [Key -> Group]
  /\ Cap \in Nat \ {0}
  /\ MaxCount \in Nat
  /\ Faults \subseteq {"kill", "midflush", "io"}

VARIABLES
  up,           \* the process runs
  counted,      \* countedMints: the in-memory dedupe set
  observed,     \* observedMints of each row; 0 is a row that is not there
  entries,      \* the ledger's in-memory entries, in the order of their ts
  stale,        \* how many of them, the oldest, are older than TTL_MS
  dirty,        \* the ledger has changes not handed to a flush
  timer,        \* flushTimer: a debounced flush is scheduled
  flush,        \* the asynchronous flush in flight
  ledgerFile,   \* mints-counted-ledger.json
  snapFile,     \* mints-snapshot.json
  lastSaved,    \* the rows behind the snapshot's lastHash
  tally,        \* history: how often each key is in the live totals
  snapTally,    \* history: how often each key is in snapFile
  gone          \* history: the keys the dedupe window has ever lost: pushed
                \* out by a cap or the TTL, not saved when a process ended, or
                \* not read when one started

ledger == <<entries, stale>>
memory == <<counted, observed, ledger, dirty, timer, flush, lastSaved, tally>>
disk == <<ledgerFile, snapFile, snapTally>>
vars == <<up, memory, disk, gone>>

NoRows == [g \in Group |-> 0]
NoTally == [k \in Key |-> 0]
Idle == [pc |-> "idle", data |-> << >>]

\* What serialize() writes: the entries that are not older than TTL_MS.
Young == SubSeq(entries, stale + 1, Len(entries))

\* mkdir, write or rename is awaited; "failed" is idle after a flush that threw.
Flushing == flush.pc \in {"mkdir", "written"}

Init ==
  /\ up = FALSE
  /\ counted = << >> /\ observed = NoRows /\ tally = NoTally
  /\ entries = << >> /\ stale = 0 /\ dirty = FALSE /\ timer = FALSE /\ flush = Idle
  /\ lastSaved = NoRows
  /\ ledgerFile = << >> /\ snapFile = NoRows /\ snapTally = NoTally
  /\ gone = {}

----------------------------------------------------------------------------
(* Boot: main() reads the snapshot, then the ledger, before any source.    *)

\* Variant: main() forgets hydrateCountedMints.
Boot_Unhydrated ==
  /\ ~up /\ up' = TRUE
  /\ observed' = snapFile /\ tally' = snapTally
  /\ entries' = ledgerFile /\ stale' = 0 /\ counted' = << >>
  /\ lastSaved' = NoRows /\ dirty' = FALSE /\ timer' = FALSE /\ flush' = Idle
  /\ UNCHANGED <<disk, gone>>

\* loadCountedLedger: the entries older than TTL_MS, any number of the oldest,
\* are dropped; a file that cannot be read or parsed yields none at all.
LoadCountedLedger ==
  \/ \E n \in 0 .. Len(ledgerFile) :
       /\ entries' = SubSeq(ledgerFile, n + 1, Len(ledgerFile))
       /\ gone' = gone \cup Range(SubSeq(ledgerFile, 1, n))
                       \cup (Range(entries') \ Range(FifoTrim(entries', Cap)))
  \/ /\ "io" \in Faults
     /\ entries' = << >>
     /\ gone' = gone \cup Range(ledgerFile)

Boot ==
  /\ ~up
  /\ up' = TRUE
  /\ observed' = snapFile /\ tally' = snapTally
  /\ LoadCountedLedger /\ stale' = 0
  /\ counted' = FifoTrim(entries', Cap)
  /\ lastSaved' = NoRows /\ dirty' = FALSE /\ timer' = FALSE /\ flush' = Idle
  /\ UNCHANGED disk

----------------------------------------------------------------------------
(* recordMint: the dedupe gate, the key into both sets, the row's counter. *)

\* Variants: the new key does not mark the ledger dirty; no flush is scheduled.
AppendLedger_NotDirty(k) ==
  /\ entries' = FifoAdd(entries, k, Cap) /\ timer' = TRUE
  /\ UNCHANGED <<stale, dirty>>
AppendLedger_NoTimer(k) ==
  /\ entries' = FifoAdd(entries, k, Cap) /\ dirty' = TRUE
  /\ UNCHANGED <<stale, timer>>

\* A key that is there keeps its ts and its place, also when it is stale.
AppendLedger(k) ==
  IF k \in Range(entries)
  THEN UNCHANGED <<ledger, dirty, timer>>
  ELSE /\ entries' = FifoAdd(entries, k, Cap)
       /\ LET dropped == Len(entries) + 1 - Len(entries')
          IN  stale' = IF stale > dropped THEN stale - dropped ELSE 0
       /\ dirty' = TRUE
       /\ timer' = TRUE

RecordMint(k) ==
  /\ up
  /\ k \notin Range(counted)
  /\ tally[k] < MaxCount
  /\ counted' = FifoAdd(counted, k, Cap)
  /\ AppendLedger(k)
  /\ observed' = [observed EXCEPT ![GroupOf[k]] = @ + 1]
  /\ tally' = [tally EXCEPT ![k] = @ + 1]
  /\ gone' = gone \cup (Range(counted) \ Range(counted'))
                  \cup (Range(entries) \ Range(entries'))
  /\ UNCHANGED <<up, flush, lastSaved, disk>>

\* Some more of the oldest entries turn older than TTL_MS.
EntriesExpire ==
  /\ up
  /\ stale' \in stale + 1 .. Len(entries)
  /\ UNCHANGED <<up, counted, observed, entries, dirty, timer, flush, lastSaved,
                 tally, disk, gone>>

----------------------------------------------------------------------------
(* The debounced flush: the timer clears dirty, then mkdir, the write of   *)
(* the entries as they are at that moment, and the rename are awaited.     *)

FlushTimerFires ==
  /\ up /\ timer /\ ~Flushing
  /\ timer' = FALSE
  /\ IF dirty
     THEN dirty' = FALSE /\ flush' = [pc |-> "mkdir", data |-> << >>]
     ELSE UNCHANGED <<dirty, flush>>
  /\ UNCHANGED <<up, counted, observed, ledger, lastSaved, tally, disk, gone>>

FlushWrites ==
  /\ up /\ flush.pc = "mkdir"
  /\ flush' = [pc |-> "written", data |-> Young]
  /\ UNCHANGED <<up, counted, observed, ledger, dirty, timer, lastSaved, tally,
                 disk, gone>>

FlushRenames ==
  /\ up /\ flush.pc = "written"
  /\ ledgerFile' = flush.data
  /\ flush' = Idle
  /\ UNCHANGED <<up, counted, observed, ledger, dirty, timer, lastSaved, tally,
                 snapFile, snapTally, gone>>

\* Any of the three calls throws: the catch marks the ledger dirty again and
\* leaves the next flush to the next append.
FlushFails ==
  /\ up /\ Flushing /\ "io" \in Faults
  /\ dirty' = TRUE
  /\ flush' = [Idle EXCEPT !.pc = "failed"]
  /\ UNCHANGED <<up, counted, observed, ledger, timer, lastSaved, tally, disk,
                 gone>>

----------------------------------------------------------------------------
(* The 20 s snapshot tick: skipped when nothing changed since lastHash,    *)
(* which is set before the save is known to have worked.                   *)

SnapshotTick ==
  /\ up /\ observed # lastSaved
  /\ lastSaved' = observed
  /\ \/ snapFile' = observed /\ snapTally' = tally
     \/ "io" \in Faults /\ UNCHANGED <<snapFile, snapTally>>
  /\ UNCHANGED <<up, counted, observed, ledger, dirty, timer, flush, tally,
                 ledgerFile, gone>>

----------------------------------------------------------------------------
(* The end of a process: the ledger file is what its last write made it.   *)

MemoryIsGone ==
  /\ up' = FALSE
  /\ counted' = << >> /\ observed' = NoRows /\ tally' = NoTally
  /\ entries' = << >> /\ stale' = 0
  /\ dirty' = FALSE /\ timer' = FALSE /\ flush' = Idle /\ lastSaved' = NoRows
  /\ gone' = gone \cup (Range(entries) \ Range(ledgerFile'))
  /\ UNCHANGED <<snapFile, snapTally>>

\* flushCountedLedgerNow: written only when dirty.
FlushCountedLedgerNow ==
  IF dirty
  THEN \/ ledgerFile' = Young
       \/ "io" \in Faults /\ UNCHANGED ledgerFile
  ELSE UNCHANGED ledgerFile

\* SIGTERM, SIGINT, SIGHUP or an uncaught exception.  The first handler is
\* the singleton lock's; its process.exit leaves only the exit handlers to
\* run, and of the two files only the ledger has one.
StopBySignal ==
  /\ up
  /\ Flushing => "midflush" \in Faults
  /\ FlushCountedLedgerNow
  /\ MemoryIsGone

\* SIGKILL, the OOM killer or a power cut: no handler runs.
Kill ==
  /\ up /\ "kill" \in Faults
  /\ UNCHANGED ledgerFile
  /\ MemoryIsGone

Next ==
  \/ Boot
  \/ \E k \in Key : RecordMint(k)
  \/ EntriesExpire
  \/ FlushTimerFires \/ FlushWrites \/ FlushRenames \/ FlushFails
  \/ SnapshotTick
  \/ StopBySignal \/ Kill

Spec == Init /\ [][Next]_vars

\* The event loop runs a due timer and every settled promise.
FairSpec ==
  /\ Spec
  /\ WF_vars(FlushTimerFires) /\ WF_vars(FlushWrites) /\ WF_vars(FlushRenames)

----------------------------------------------------------------------------
TypeOK ==
  /\ up \in BOOLEAN
  /\ counted \in Seq(Key) /\ entries \in Seq(Key) /\ stale \in 0 .. Len(entries)
  /\ observed \in [Group -> Nat] /\ lastSaved \in [Group -> Nat]
  /\ dirty \in BOOLEAN /\ timer \in BOOLEAN
  /\ flush \in [pc : {"idle", "mkdir", "written", "failed"}, data : Seq(Key)]
  /\ ledgerFile \in Seq(Key) /\ snapFile \in [Group -> Nat]
  /\ tally \in [Key -> Nat] /\ snapTally \in [Key -> Nat]
  /\ gone \subseteq Key

\* A counted key of the last TTL_MS that is not in the ledger file yet is one
\* some write is still due for: the ledger is dirty or a flush is in flight.
\* Otherwise flushCountedLedgerNow would skip it at exit.
NoForgottenKey ==
  \A k \in Range(Young) :
    k \in Range(ledgerFile) \/ dirty \/ Flushing

\* A mint whose key never fell out of the dedupe window is counted at most once
\* in the totals, whatever is delivered again and however often the process
\* restarts.
NoDoubleCount == \A k \in Key \ gone : tally[k] <= 1

\* Only a kill, a failed write or a stop in the middle of a flush ends a
\* process with a key of the last TTL_MS unsaved.
CleanStopsLoseNothing ==
  Faults = {} => [][up /\ ~up' => Range(Young) \subseteq Range(ledgerFile')]_vars

\* What carries NoForgottenKey over a step: the in-flight write holds every
\* key, or a later change has marked the ledger dirty again.
FlushCoversEntries ==
  flush.pc = "written" =>
    dirty \/ Range(Young) \subseteq Range(flush.data)

\* What carries NoDoubleCount over a step and a restart.
CountedOnce ==
  /\ \A k \in Key \ gone :
       /\ tally[k] <= 1 /\ snapTally[k] <= 1
       /\ tally[k] # 0 => up /\ k \in Range(counted)
       /\ snapTally[k] # 0 => k \in Range(IF up THEN entries ELSE ledgerFile)
  /\ up => /\ Range(counted) \subseteq Range(entries) \cup gone
           /\ Range(ledgerFile) \subseteq Range(entries) \cup gone
           /\ Range(flush.data) \subseteq Range(entries) \cup gone
  /\ ~up => entries = << >>

\* A failed flush marks the ledger dirty and waits for the next append.
FailedFlushWaits == dirty /\ ~timer /\ flush.pc = "failed"

\* Every counted key reaches the ledger file, unless the process stops, the
\* cap or the TTL takes the key first or a write fails with no append after it.
LedgerCatchesUp ==
  \A k \in Key :
    (up /\ k \in Range(Young)) ~>
      (~up \/ k \notin Range(Young) \/ k \in Range(ledgerFile) \/ FailedFlushWaits)
============================================================================
