--------------------------- MODULE SellerHoldings ---------------------------
(***************************************************************************)
(* The stored count behind the SELL badge ("seller still holds N") of one  *)
(* seller and one collection.  Every sale subtracts one in a single SQL    *)
(* statement; the first sale of the pair seeds the row with a scan of the  *)
(* wallet, and later ones replace it with a new scan when it is low, old   *)
(* or has been subtracted from many times.  A sale is on the chain before  *)
(* its query runs, and a scan may take longer than many sales: a sale may  *)
(* be in a scan and be subtracted again, or be subtracted from the number  *)
(* a scan is about to replace.                                             *)
(***************************************************************************)
EXTENDS Integers, Sequences, FiniteSets

CONSTANTS
  Sales,          \* identities for the sales under way
  MaxHeld,        \* what the wallet holds at first
  LowCount,       \* RECONCILE_LOW_COUNT_THRESHOLD
  EveryN,         \* RECONCILE_EVERY_N_DECREMENTS
  Gate,           \* the page renders the badge from this number on
  MaxUpsets       \* bound on failures, restarts and moves outside our sales

\* Assumed by the module that instantiates this one.
HoldingsAssumption ==
  /\ {MaxHeld, LowCount, Gate, MaxUpsets} \subseteq Nat
  /\ EveryN \in Nat \ {0} /\ Gate <= LowCount + 1 /\ IsFiniteSet(Sales)

None == -1                        \* null: the badge does not render
NoPair == [count |-> None]

VARIABLES
  held,           \* environment: NFTs of the collection in the wallet
  moved,          \* history: what came and went past the counter, net
  row,            \* the pair's row in seller_holdings, or NoPair
  call,           \* getAndDecrementSellerHolding of each sale
  chain,          \* firstSightChains: the calls queued for the pair
  seeding,        \* what the first-sight scan under way has read
  inflight,       \* reconcileInflight: where its scan is
  reading,        \* and what that has read
  answer,         \* history: the number last handed out, and on what grounds
  upsets

vars == <<held, moved, row, call, chain, seeding, inflight, reading, answer, upsets>>

\* asOf and late are history: the moves a scan has seen, and the sales that
\* may be counted twice or not at all if its number is written.
NoRead == [count |-> None, asOf |-> 0, late |-> 0]
Idle == [pc |-> "idle", scanned |-> FALSE, failed |-> FALSE]

Init ==
  /\ held = MaxHeld /\ moved = 0
  /\ row = NoPair /\ call = [s \in Sales |-> Idle] /\ chain = << >>
  /\ seeding = NoRead /\ inflight = "none" /\ reading = NoRead
  /\ answer = [n |-> None, scanned |-> FALSE, failed |-> FALSE]
  /\ upsets = 0

----------------------------------------------------------------------------
\* Sales on the chain that have not been subtracted.
Pending ==
  {s \in Sales : call[s].pc \in {"decrement", "null", "recheck", "scan", "seed", "again"}}

\* A scan reads the wallet.
Read(others) == [count |-> held, asOf |-> moved, late |-> Cardinality(others)]

\* A scan that has read when a sale is subtracted is late by that sale.
Later(read) == IF read = NoRead THEN read ELSE [read EXCEPT !.late = @ + 1]

\* The row a scan writes.
Row(read) ==
  [count |-> read.count, since |-> 0, fresh |-> TRUE, asOf |-> read.asOf,
   slack |-> read.late]

\* atomicDecrementSellerHolding on a row that is there.
Subtracted == [row EXCEPT !.count = IF @ > 0 THEN @ - 1 ELSE 0, !.since = @ + 1,
                          !.fresh = TRUE]

Subtract ==
  /\ row # NoPair
  /\ row' = Subtracted
  /\ seeding' = Later(seeding) /\ reading' = Later(reading)

\* Variant: a low count is not looked into.
ReconciliationDue_HighToo == ~ row.fresh \/ Subtracted.since >= EveryN

\* The time the row was touched is the one before this decrement.
ReconciliationDue ==
  \/ ~ row.fresh
  \/ Subtracted.count <= LowCount
  \/ Subtracted.since >= EveryN

Goes(s, pc) == call' = [call EXCEPT ![s].pc = pc]
GoesFailed(s, pc) == call' = [call EXCEPT ![s].pc = pc, ![s].failed = TRUE]
Answers(s, n) ==
  /\ call' = [call EXCEPT ![s] = Idle]
  /\ answer' = [n |-> n, scanned |-> call[s].scanned, failed |-> call[s].failed]

Upset == upsets < MaxUpsets /\ upsets' = upsets + 1

----------------------------------------------------------------------------
(* One call.                                                               *)

\* A sale lands and, its collection resolved, sends its query.
SaleLands(s) ==
  /\ held > 0 /\ call[s] = Idle
  /\ held' = held - 1
  /\ Goes(s, "decrement")
  /\ UNCHANGED <<moved, row, chain, seeding, inflight, reading, answer, upsets>>

Decrement(s) ==
  /\ call[s].pc = "decrement"
  /\ \/ /\ Subtract
        /\ IF ReconciliationDue THEN Goes(s, "due") /\ UNCHANGED answer
           ELSE Answers(s, Subtracted.count)
        /\ UNCHANGED upsets
     \/ /\ row = NoPair
        /\ Goes(s, "null")
        /\ UNCHANGED <<row, seeding, reading, answer, upsets>>
     \/ /\ Upset                                  \* the query fails
        /\ GoesFailed(s, "null")
        /\ UNCHANGED <<row, seeding, reading, answer>>
  /\ UNCHANGED <<held, moved, chain, inflight>>

\* chained: behind the calls for the pair that are waiting already.
JoinChain(s) ==
  /\ call[s].pc = "null"
  /\ Goes(s, "recheck") /\ chain' = Append(chain, s)
  /\ UNCHANGED <<held, moved, row, seeding, inflight, reading, answer, upsets>>

\* reconcileScan: start a scan or wait for the one under way.
JoinReconcile(s) ==
  /\ call[s].pc = "due"
  /\ Goes(s, "joined")
  /\ inflight' = IF inflight = "none" THEN "scan" ELSE inflight
  /\ UNCHANGED <<held, moved, row, chain, seeding, reading, answer, upsets>>

----------------------------------------------------------------------------
(* firstSightScanAndSeed: the head of the chain.                           *)

IsHead(s) == chain # << >> /\ Head(chain) = s

\* A call that ends with nothing subtracted: the sale has passed it by.
Ends(s, n, subtracted) ==
  /\ Answers(s, n)
  /\ chain' = Tail(chain)
  /\ moved' = IF subtracted THEN moved ELSE moved - 1

\* An earlier link may have seeded the row.
Recheck(s) ==
  /\ IsHead(s) /\ call[s].pc = "recheck"
  /\ \/ Subtract /\ Ends(s, Subtracted.count, TRUE) /\ UNCHANGED upsets
     \/ /\ row = NoPair
        /\ Goes(s, "scan")
        /\ UNCHANGED <<moved, row, chain, seeding, reading, answer, upsets>>
     \/ /\ Upset
        /\ GoesFailed(s, "scan")
        /\ UNCHANGED <<moved, row, chain, seeding, reading, answer>>
  /\ UNCHANGED <<held, inflight>>

Scan(s) ==
  /\ IsHead(s) /\ call[s].pc = "scan"
  /\ \/ /\ seeding' = Read(Pending \ {s})
        /\ Goes(s, "seed")
        /\ UNCHANGED <<moved, chain, answer, upsets>>
     \/ Upset /\ Ends(s, None, FALSE) /\ UNCHANGED seeding
  /\ UNCHANGED <<held, row, inflight, reading>>

\* Variant: the sale is subtracted from the scan that has it already.
Seed_OneLess(s) ==
  /\ IsHead(s) /\ call[s].pc = "seed" /\ row = NoPair
  /\ row' = Row([seeding EXCEPT !.count = @ - 1])
  /\ call' = [t \in Sales |-> IF call[t] = Idle \/ t = s THEN Idle
                              ELSE [call[t] EXCEPT !.scanned = TRUE]]
  /\ answer' = [n |-> seeding.count, scanned |-> TRUE, failed |-> FALSE]
  /\ chain' = Tail(chain) /\ seeding' = NoRead
  /\ UNCHANGED <<held, moved, inflight, reading, upsets>>

\* seedSellerHolding: ON CONFLICT DO NOTHING.  The winner's sale is in the
\* number; a conflict, or a failed query, falls through to a decrement.
Seed(s) ==
  /\ IsHead(s) /\ call[s].pc = "seed"
  /\ \/ /\ row = NoPair
        /\ row' = Row(seeding)
        /\ call' = [t \in Sales |-> IF call[t] = Idle \/ t = s THEN Idle
                                    ELSE [call[t] EXCEPT !.scanned = TRUE]]
        /\ answer' = [n |-> seeding.count, scanned |-> TRUE, failed |-> call[s].failed]
        /\ chain' = Tail(chain)
        /\ UNCHANGED upsets
     \/ row # NoPair /\ Goes(s, "again") /\ UNCHANGED <<row, answer, chain, upsets>>
     \/ Upset /\ GoesFailed(s, "again") /\ UNCHANGED <<row, answer, chain>>
  /\ seeding' = NoRead
  /\ UNCHANGED <<held, moved, inflight, reading>>

DecrementAgain(s) ==
  /\ IsHead(s) /\ call[s].pc = "again"
  /\ \/ Subtract /\ Ends(s, Subtracted.count, TRUE) /\ UNCHANGED upsets
     \/ /\ row = NoPair /\ Ends(s, None, FALSE)
        /\ UNCHANGED <<row, seeding, reading, upsets>>
     \/ /\ Upset /\ Ends(s, None, FALSE)
        /\ UNCHANGED <<row, seeding, reading>>
  /\ UNCHANGED <<held, inflight>>

----------------------------------------------------------------------------
(* reconcileScan: one scan, its number for all who wait.                   *)

Settles(n) ==
  /\ call' = [s \in Sales |-> IF call[s].pc = "joined" THEN Idle ELSE call[s]]
  /\ answer' = [n |-> n, scanned |-> TRUE, failed |-> FALSE]
  /\ inflight' = "none" /\ reading' = NoRead

ReconcileReads ==
  /\ inflight = "scan"
  /\ \/ /\ reading' = Read(Pending) /\ inflight' = "write"
        /\ UNCHANGED <<call, answer, upsets>>
     \/ Upset /\ Settles(None)
  /\ UNCHANGED <<held, moved, row, chain, seeding>>

\* overwriteSellerHolding, whose failure is only logged.
Overwrite ==
  /\ inflight = "write" /\ inflight' = "settle"
  /\ \/ row' = Row(reading) /\ UNCHANGED upsets
     \/ Upset /\ UNCHANGED row
  /\ UNCHANGED <<held, moved, call, chain, seeding, reading, answer>>

ReconcileSettles ==
  /\ inflight = "settle"
  /\ Settles(reading.count)
  /\ UNCHANGED <<held, moved, row, chain, seeding, upsets>>

----------------------------------------------------------------------------
(* The world around it.                                                    *)

\* RECONCILE_TTL_MS pass without a write.
TimePasses ==
  /\ row # NoPair /\ row.fresh
  /\ row' = [row EXCEPT !.fresh = FALSE]
  /\ UNCHANGED <<held, moved, call, chain, seeding, inflight, reading, answer, upsets>>

\* A purchase or a gift, or a sale or transfer the detector does not see.
MovesUnseen ==
  /\ Upset
  /\ \E d \in {-1, 1} : held + d >= 0 /\ held' = held + d /\ moved' = moved + d
  /\ UNCHANGED <<row, call, chain, seeding, inflight, reading, answer>>

\* Calls and scans under way are gone, the row is in the database.
Restart ==
  /\ Upset
  /\ moved' = moved - Cardinality(Pending)
  /\ call' = [s \in Sales |-> Idle] /\ chain' = << >>
  /\ seeding' = NoRead /\ inflight' = "none" /\ reading' = NoRead
  /\ UNCHANGED <<held, row, answer>>

Next ==
  \/ \E s \in Sales :
       \/ SaleLands(s) \/ Decrement(s) \/ JoinChain(s) \/ JoinReconcile(s)
       \/ Recheck(s) \/ Scan(s) \/ Seed(s) \/ DecrementAgain(s)
  \/ ReconcileReads \/ Overwrite \/ ReconcileSettles
  \/ TimePasses \/ MovesUnseen \/ Restart

Spec == Init /\ [][Next]_vars

----------------------------------------------------------------------------
ReadRecord == [count : Int, asOf : Int, late : Nat]

TypeOK ==
  /\ held \in Nat /\ moved \in Int /\ upsets \in 0 .. MaxUpsets
  /\ row = NoPair \/ row \in [count : Nat, since : Nat, fresh : BOOLEAN, asOf : Int, slack : Nat]
  /\ call \in [Sales -> [pc : {"idle", "decrement", "null", "due", "joined",
                               "recheck", "scan", "seed", "again"},
                         scanned : BOOLEAN, failed : BOOLEAN]]
  /\ chain \in Seq(Sales)
  /\ seeding \in ReadRecord /\ reading \in ReadRecord
  /\ inflight \in {"none", "scan", "write", "settle"}
  /\ answer \in [n : Int, scanned : BOOLEAN, failed : BOOLEAN]

\* What the row should hold, given the moves its scan could know of.
Expected == held - (moved - row.asOf) + Cardinality(Pending)

\* The error of the stored count does not add up.  However many sales are
\* subtracted, in whatever order, and whichever queries and scans fail, it
\* is at most the number of sales that overlapped the scan the row came from
\* (those on the chain but not subtracted when it read, and those subtracted
\* before it was written).  Below zero the count does not go.
DriftIsOneScans ==
  row # NoPair =>
    /\ row.count >= Expected - row.slack
    /\ row.count <= Expected + row.slack \/ row.count = 0

\* The badge of a sale is hidden for a low number only if a scan was taken
\* for it, or the row was seeded while it waited: a number that has merely
\* been subtracted down is never the reason, unless a query of the call failed.
HiddenIsVerified ==
  answer.n # None /\ answer.n < Gate => answer.scanned \/ answer.failed
=============================================================================
