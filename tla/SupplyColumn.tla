---------------------------- MODULE SupplyColumn ----------------------------
(***************************************************************************)
(* The two minted counts a row shows: supplyMinted (the on-chain           *)
(* CollectionV1.num_minted, or the local running count) and mintedCount    *)
(* (DAS, LaunchMyNFT or the mirror of the on-chain number).  Their sources *)
(* answer late and may answer with an old number; the row may be evicted   *)
(* and come back meanwhile; the snapshot the process restarts from may be  *)
(* behind the row.                                                         *)
(***************************************************************************)
EXTENDS Integers

CONSTANTS
  NoRow,
  IsCore,         \* programSource = "mpl_core"
  MaxChain,       \* bound on the mints of the collection
  MaxAsks,        \* bound on the DAS requests under way
  MaxBoots        \* bound on the restarts

ASSUME SupplyAssumption ==
  /\ IsCore \in BOOLEAN
  /\ {MaxChain, MaxAsks, MaxBoots} \subseteq Nat

Missing == -1                       \* null or undefined
Number == Nat \cup {Missing}

Row == [observed : Nat, local : Nat, onChain : Number, minted : Number,
        throttled : BOOLEAN]
Status == [observed : Nat, supply : Number, verified : BOOLEAN, minted : Number]

ASSUME NoRowIsNothing == NoRow \notin Row /\ NoRow \notin Status

VARIABLES
  chain,          \* environment: mints of the collection on the chain
  counted,        \* history: mints recordMint has counted, each once
  row,            \* the accumulator's row
  asks,           \* DAS requests under way
  frame,          \* the last mint_status frame of the row, NoRow before one
  saved,          \* the row in the snapshot file, in wire form, or NoRow
  boots           \* restarts so far

vars == <<chain, counted, row, asks, frame, saved, boots>>

Larger(a, b) == IF a >= b THEN a ELSE b

FreshRow == [observed |-> 0, local |-> 0, onChain |-> Missing,
             minted |-> Missing, throttled |-> FALSE]

SupplyMinted(r) ==
  IF r.onChain # Missing THEN Larger(r.onChain, r.local)
  ELSE IF r.local > 0 THEN r.local ELSE Missing

BuildStatus(r) ==
  [observed |-> r.observed, supply |-> SupplyMinted(r),
   verified |-> r.onChain # Missing, minted |-> r.minted]

Init ==
  /\ chain = 0 /\ counted = 0 /\ asks = 0 /\ boots = 0
  /\ row = NoRow /\ frame = NoRow /\ saved = NoRow

WriteAndEmit(r) == row' = r /\ frame' = BuildStatus(r)

\* A mint on the chain the detector has not delivered yet.
ChainMint ==
  /\ chain < MaxChain
  /\ chain' = chain + 1
  /\ UNCHANGED <<counted, row, asks, frame, saved, boots>>

----------------------------------------------------------------------------
Mirrors(r) == IsCore /\ r.onChain # Missing

\* scheduleMintedCountRefresh, the mirror branch: no request.
Mirrored(r) ==
  [r EXCEPT !.minted = Larger(r.onChain, r.observed), !.throttled = TRUE]

Count(r) == [r EXCEPT !.observed = @ + 1, !.local = @ + 1]

\* recordMint: the mint is one of the chain's, counted for the first time.
\* Its frame goes out before the refresh is scheduled; the mirror emits again.
RecordMint ==
  LET r == Count(IF row = NoRow THEN FreshRow ELSE row)
  IN
  /\ counted < chain /\ counted' = counted + 1
  /\ IF Mirrors(r)
     THEN WriteAndEmit(Mirrored(r)) /\ UNCHANGED asks
     ELSE IF r.throttled
     THEN WriteAndEmit(r) /\ UNCHANGED asks
     ELSE /\ asks < MaxAsks /\ asks' = asks + 1
          /\ WriteAndEmit([r EXCEPT !.throttled = TRUE])
  /\ UNCHANGED <<chain, saved, boots>>

RecordCreate ==
  /\ WriteAndEmit(IF row = NoRow THEN FreshRow ELSE row)
  /\ UNCHANGED <<chain, counted, asks, saved, boots>>

\* MINTED_REFRESH_MIN_MS, or the longer back-off, is over.
ThrottleOpens ==
  /\ row # NoRow /\ row.throttled
  /\ row' = [row EXCEPT !.throttled = FALSE]
  /\ UNCHANGED <<chain, counted, asks, frame, saved, boots>>

----------------------------------------------------------------------------
\* The DAS total comes back, possibly old, possibly not at all, and is put on
\* the row of that key that is live now.  A DAS that stays behind keeps the
\* row throttled for longer.
DasAnswers ==
  /\ asks > 0 /\ asks' = asks - 1
  /\ \/ UNCHANGED <<row, frame>>
     \/ \E das \in 0 .. chain :
          LET count == Larger(das, Larger(row.observed, row.minted))
          IN  /\ row # NoRow
              /\ \/ row' = [row EXCEPT !.minted = count]
                 \/ das < count /\ row' = [row EXCEPT !.minted = count, !.throttled = TRUE]
              /\ frame' = IF row.minted = count THEN frame ELSE BuildStatus(row')
  /\ UNCHANGED <<chain, counted, saved, boots>>

\* Variant: the refresher's number is taken as it comes.
PatchCoreSupply_Raw ==
  /\ IsCore /\ row # NoRow
  /\ \E numMinted \in 0 .. chain : WriteAndEmit([row EXCEPT !.onChain = numMinted])
  /\ UNCHANGED <<chain, counted, asks, saved, boots>>

\* patchAccumulatorCoreSupply: an account read at some earlier slot.
PatchCoreSupply ==
  /\ IsCore /\ row # NoRow
  /\ \E numMinted \in 0 .. chain :
       WriteAndEmit([row EXCEPT !.onChain = Larger(numMinted, @)])
  /\ UNCHANGED <<chain, counted, asks, saved, boots>>

\* patchAccumulatorLmnft brings the state account's count.
PatchLmnft ==
  /\ row # NoRow
  /\ \E n \in 0 .. chain : n # row.minted /\ WriteAndEmit([row EXCEPT !.minted = n])
  /\ UNCHANGED <<chain, counted, asks, saved, boots>>

----------------------------------------------------------------------------
\* The idle sweep or evictMintGroup.
Evict ==
  /\ row # NoRow
  /\ row' = NoRow
  /\ UNCHANGED <<chain, counted, asks, frame, saved, boots>>

\* The snapshot's tick; a row without a counted mint is not written.
SaveSnapshot ==
  /\ saved' = IF row # NoRow /\ row.observed > 0 THEN BuildStatus(row) ELSE NoRow
  /\ UNCHANGED <<chain, counted, row, asks, frame, boots>>

\* Variant: a verified number comes back as both counts, and is counted on.
Hydrated_AsBoth(s) ==
  [observed |-> s.observed, local |-> Larger(s.supply, 0),
   onChain |-> IF s.verified THEN s.supply ELSE Missing,
   minted |-> s.minted, throttled |-> FALSE]

Hydrated(s) ==
  [observed |-> s.observed,
   local |-> IF s.verified THEN 0 ELSE Larger(s.supply, 0),
   onChain |-> IF s.verified THEN s.supply ELSE Missing,
   minted |-> s.minted, throttled |-> FALSE]

\* Requests under way are lost; reconnecting clients are sent the rows again.
Restart ==
  /\ boots < MaxBoots /\ boots' = boots + 1
  /\ asks' = 0
  /\ IF saved = NoRow THEN row' = NoRow /\ frame' = NoRow
     ELSE WriteAndEmit(Hydrated(saved))
  /\ UNCHANGED <<chain, counted, saved>>

Next ==
  \/ ChainMint \/ RecordMint \/ RecordCreate \/ ThrottleOpens
  \/ DasAnswers \/ PatchCoreSupply \/ PatchLmnft
  \/ Evict \/ SaveSnapshot \/ Restart

Spec == Init /\ [][Next]_vars

----------------------------------------------------------------------------
TypeOK ==
  /\ chain \in Nat /\ counted \in Nat /\ asks \in Nat /\ boots \in Nat
  /\ row \in Row \cup {NoRow}
  /\ frame \in Status \cup {NoRow}
  /\ saved \in Status \cup {NoRow}

\* No column ever shows more than was minted, however late or old the answers
\* of the sources and the snapshot are.
NeverAheadOfChain ==
  frame # NoRow => frame.supply <= chain /\ frame.minted <= chain

\* Within one run of the process the SUPPLY column of a live row never falls,
\* and a verified number stays verified.
SupplyNeverFalls ==
  [][row # NoRow /\ row' # NoRow /\ boots' = boots =>
       /\ SupplyMinted(row') >= SupplyMinted(row)
       /\ row.onChain # Missing => row'.onChain # Missing]_vars

\* A restart shows exactly what the snapshot showed: no count is lost or
\* gained by the detour over the wire form, and a verified number is not
\* taken for an optimistic one.
RestartShowsTheSnapshot ==
  [][boots' # boots /\ row' # NoRow => BuildStatus(row') = saved]_vars
============================================================================
