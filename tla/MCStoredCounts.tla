--------------------------- MODULE MCStoredCounts ---------------------------
(***************************************************************************)
(* The two counts that are stored, answered late and shown: the minted     *)
(* counts of a row (SupplyColumn) and the holdings of a seller             *)
(* (SellerHoldings).  They share no state and no event, so their           *)
(* interleavings show nothing: part says which of them moves.              *)
(***************************************************************************)
EXTENDS SupplyColumn, TLC

CONSTANTS Sales, MaxHeld, LowCount, EveryN, Gate, MaxUpsets
VARIABLES part, held, moved, pair, call, queued, seeding, inflight, reading, answer, upsets

Holdings == INSTANCE SellerHoldings WITH row <- pair, chain <- queued

ASSUME HoldingsAreBounded == Holdings!HoldingsAssumption
holdingVars == <<held, moved, pair, call, queued, seeding, inflight, reading, answer, upsets>>

MCInit == part \in {"supply", "holdings"} /\ Init /\ Holdings!Init
MCNext ==
  /\ UNCHANGED part
  /\ \/ part = "supply" /\ Next /\ UNCHANGED holdingVars
     \/ part = "holdings" /\ Holdings!Next /\ UNCHANGED vars
MCSpec == MCInit /\ [][MCNext]_<<part, vars, holdingVars>>

DriftIsOneScans == Holdings!DriftIsOneScans
HiddenIsVerified == Holdings!HiddenIsVerified

Symmetric == Permutations(Sales)
=============================================================================
