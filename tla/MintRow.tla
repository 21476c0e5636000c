------------------------------ MODULE MintRow ------------------------------
(***************************************************************************)
(* The life of one accumulator row: a collection first seen as             *)
(* incubating, shown once it qualifies, cooled when it goes quiet, revived *)
(* by a later mint, evicted.  Mints, metadata patches from the resolvers   *)
(* and the 30 s sweep reach the row in any order.                          *)
(*                                                                         *)
(* Time is a tick.  The arrays events60s and events5m, sorted by time, are *)
(* the number of mints they hold of each age.  Only recordMint and the     *)
(* sweep trim them, so a patch may read windows not trimmed yet.           *)
(***************************************************************************)
EXTENDS Naturals, Functions

CONSTANTS
  NoRow,          \* there is no row for the collection
  Events,         \* the classifications a mint can carry
  Threshold,      \* THRESHOLD_MIN_MINTS
  BurstV60, BurstV5M,
  Window60, Window5M,   \* the two rolling windows, in ticks
  Cooldown,       \* COOLDOWN_MS
  IdleEvict,      \* ACC_IDLE_EVICT_MS
  SnapshotTTL,    \* the snapshot's TTL_MS
  EvictedNonNftMax,
  MaxObserved     \* bound on the mints of one row

ASSUME RowAssumption ==
  /\ Events \subseteq [program : {"bubblegum", "mpl_core", "mpl_token_metadata"},
                      label : {"LaunchMyNFT", "Other"}, core : BOOLEAN]
  /\ {Threshold, BurstV60, BurstV5M, EvictedNonNftMax, MaxObserved} \subseteq Nat \ {0}
  /\ {Window60, Window5M, Cooldown, IdleEvict, SnapshotTTL} \subseteq Nat
  /\ Window60 <= Window5M /\ Cooldown < IdleEvict /\ SnapshotTTL <= IdleEvict

VARIABLES
  row,            \* map.get(groupingKey), or NoRow
  evicted,        \* evictedNonNft holds the grouping key
  younger,        \* history: the other groups evicted since this one was, at
                  \* most EvictedNonNftMax; that many before any eviction
  sent            \* displayState of the last mint_status frame, "none" before

memory == <<evicted, younger>>
vars == <<row, memory, sent>>

Age == 0 .. IdleEvict + 1
Display == {"incubating", "shown", "cooled"}
Reason == {"none", "threshold", "burst", "launchpad"}
Row == [program : {"bubblegum", "mpl_core", "mpl_token_metadata"},
        label : {"LaunchMyNFT", "Other"}, core : BOOLEAN, named : BOOLEAN,
        observed : Nat, display : Display, reason : Reason,
        e60 : [Age -> Nat], e5m : [Age -> Nat], idle : Age]

ASSUME NoRowIsNoRecord == NoRow \notin Row

NoMints == [a \in Age |-> 0]
Held(window) == FoldFunction(+, 0, window)

Init ==
  row = NoRow /\ evicted = FALSE /\ younger = EvictedNonNftMax /\ sent = "none"

----------------------------------------------------------------------------
Show(r, why) == [r EXCEPT !.display = "shown", !.reason = why]

\* hasUsableIdentity is r.named: a name or a collection image has arrived.
QualifiesByLaunchpad(r) ==
  \/ r.program = "bubblegum" /\ r.label = "LaunchMyNFT"
  \/ r.named /\ r.core

QualifiesByVolume(r) == r.named /\ r.observed >= Threshold

QualifiesByBurst(r) ==
  r.named /\ (Held(r.e60) >= BurstV60 \/ Held(r.e5m) >= BurstV5M)

\* Variant: the burst path without the identity gate.
TryPromote_Nameless(r) ==
  IF r.display = "shown" THEN r
  ELSE IF QualifiesByVolume(r) THEN Show(r, "threshold")
  ELSE IF Held(r.e60) >= BurstV60 THEN Show(r, "burst") ELSE r

TryPromote(r) ==
  IF r.display = "shown" THEN r
  ELSE IF QualifiesByLaunchpad(r) THEN Show(r, "launchpad")
  ELSE IF QualifiesByVolume(r) THEN Show(r, "threshold")
  ELSE IF QualifiesByBurst(r) THEN Show(r, "burst") ELSE r

\* A cooled row with an identity goes back to incubating on a fresh mint;
\* every other row is put to the promotion test.
AfterMint(r) ==
  IF r.display = "cooled" /\ r.named
  THEN [r EXCEPT !.display = "incubating", !.reason = "none"]
  ELSE TryPromote(r)

\* trimWindow: drop what is older than the window.
Within(window, held) == [a \in Age |-> IF a <= window THEN held[a] ELSE 0]

FreshRow(e) ==
  [program |-> e.program, label |-> e.label, core |-> e.core, named |-> FALSE,
   observed |-> 0, display |-> "incubating", reason |-> "none",
   e60 |-> NoMints, e5m |-> NoMints, idle |-> 0]

\* A grouping key is an address of one program.
FitsTheRow(e) == row # NoRow => row.program = e.program

\* The row a mint or a create event works on: the live one or a new one,
\* classified as the latest event says.
Classified(e) ==
  IF row = NoRow THEN FreshRow(e)
  ELSE [row EXCEPT !.label = e.label, !.core = e.core]

Counted(r) ==
  [r EXCEPT !.observed = @ + 1, !.idle = 0,
            !.e60 = [Within(Window60, r.e60) EXCEPT ![0] = @ + 1],
            !.e5m = [Within(Window5M, r.e5m) EXCEPT ![0] = @ + 1]]

\* Write the row and emit its mint_status frame.
WriteAndEmit(r) == row' = r /\ sent' = r.display

\* Variant: the evicted-group gate is missing.
RecordMint_Ungated(e) ==
  /\ FitsTheRow(e)
  /\ row # NoRow => row.observed < MaxObserved
  /\ WriteAndEmit(AfterMint(Counted(Classified(e))))
  /\ UNCHANGED memory

RecordMint(e) ==
  /\ ~evicted /\ FitsTheRow(e)
  /\ row # NoRow => row.observed < MaxObserved
  /\ WriteAndEmit(AfterMint(Counted(Classified(e))))
  /\ UNCHANGED memory

\* A CreateCollection event takes the early return: no counter, no promotion.
RecordCreate(e) ==
  /\ ~evicted /\ FitsTheRow(e)
  /\ WriteAndEmit(Classified(e))
  /\ UNCHANGED memory

----------------------------------------------------------------------------
(* Patches from the resolvers.  Each is dropped when the row is gone.      *)

\* Variant: the name is stored and promotion is left to the next mint.
PatchMeta_NoPromotion(usable) ==
  /\ row # NoRow
  /\ WriteAndEmit([row EXCEPT !.named = @ \/ usable])
  /\ UNCHANGED memory

\* patchAccumulatorMeta always re-tries promotion and emits, also when the
\* patch brings nothing usable.
PatchMeta(usable) ==
  /\ row # NoRow
  /\ WriteAndEmit(TryPromote([row EXCEPT !.named = @ \/ usable]))
  /\ UNCHANGED memory

\* patchAccumulatorLmnft returns early when nothing changed; what it brings
\* may or may not include a name.
PatchLmnft(name) ==
  /\ row # NoRow
  /\ WriteAndEmit(TryPromote([row EXCEPT !.named = @ \/ name]))
  /\ UNCHANGED memory

PatchRepresentativeImage ==
  /\ row # NoRow
  /\ WriteAndEmit(TryPromote(row))
  /\ UNCHANGED memory

\* The SFT override of the enricher.
PatchSourceLabel ==
  /\ row # NoRow
  /\ WriteAndEmit([row EXCEPT !.label = "Other"])
  /\ UNCHANGED memory

\* DAS says the group is not an NFT: remembered first, then the row goes.  A
\* group that is remembered already keeps its place in the set.
EvictMintGroup ==
  /\ evicted' = TRUE
  /\ younger' = IF evicted THEN younger ELSE 0
  /\ IF row = NoRow
     THEN UNCHANGED <<row, sent>>
     ELSE row' = NoRow /\ sent' = "cooled"

\* Variant: a full set is emptied.
EvictAnotherGroup_Clears ==
  /\ evicted /\ evicted' = FALSE
  /\ younger' = younger + 1
  /\ UNCHANGED <<row, sent>>

\* Another group is evicted: it goes to the back of evictedNonNft, and once
\* that many are behind this one the cap pushes this one out.
EvictAnotherGroup ==
  /\ evicted
  /\ younger' = younger + 1
  /\ evicted' = (younger' < EvictedNonNftMax)
  /\ UNCHANGED <<row, sent>>

----------------------------------------------------------------------------
(* Time, the sweep, a restart.                                             *)

\* Everything is one tick older; the last age stands for all greater ones.
Shifted(held) ==
  [a \in Age |-> IF a = 0 THEN 0
                 ELSE IF a <= IdleEvict THEN held[a - 1]
                 ELSE held[a - 1] + held[a]]

Tick ==
  /\ row # NoRow
  /\ row.idle <= IdleEvict
  /\ row' = [row EXCEPT !.idle = @ + 1, !.e60 = Shifted(@), !.e5m = Shifted(@)]
  /\ UNCHANGED <<memory, sent>>

Trimmed(r) ==
  [r EXCEPT !.e60 = Within(Window60, @), !.e5m = Within(Window5M, @)]

\* Variants: launchpad rows never go quiet; threshold rows do.
WentQuiet_BurstOnly(r) ==
  /\ r.display = "shown" /\ r.reason = "burst"
  /\ r.observed < Threshold /\ r.idle > Cooldown
WentQuiet_AnyReason(r) == r.display = "shown" /\ r.idle > Cooldown

WentQuiet(r) ==
  /\ r.display = "shown" /\ r.reason \in {"burst", "launchpad"}
  /\ r.observed < Threshold
  /\ r.idle > Cooldown

Swept(r) == IF WentQuiet(r) THEN [Trimmed(r) EXCEPT !.display = "cooled"] ELSE Trimmed(r)

\* Variant: a demotion sends no frame.
Sweep_SilentDemotion ==
  /\ row # NoRow
  /\ row' = IF row.idle > IdleEvict THEN NoRow ELSE Swept(row)
  /\ UNCHANGED <<memory, sent>>

\* A row idle for 24 h is dropped without a frame; a demoted or shown row is
\* re-emitted, the others are silent.
Sweep ==
  /\ row # NoRow
  /\ IF row.idle > IdleEvict
     THEN row' = NoRow /\ UNCHANGED sent
     ELSE /\ row' = Swept(row)
          /\ sent' = IF WentQuiet(row) \/ row.display = "shown"
                     THEN row'.display ELSE sent
  /\ UNCHANGED memory

\* Restart from a current snapshot: rows without a counted mint are not in
\* it, stale ones are dropped on load, the windows start empty and
\* evictedNonNft is not persisted.  Reconnecting clients get the rows again.
Restart ==
  /\ evicted' = FALSE /\ younger' = EvictedNonNftMax
  /\ IF row # NoRow /\ row.observed > 0 /\ row.idle <= SnapshotTTL
     THEN WriteAndEmit([row EXCEPT !.e60 = NoMints, !.e5m = NoMints])
     ELSE row' = NoRow /\ UNCHANGED sent

Next ==
  \/ \E e \in Events : RecordMint(e) \/ RecordCreate(e)
  \/ \E usable \in BOOLEAN : PatchMeta(usable) \/ PatchLmnft(usable)
  \/ PatchRepresentativeImage \/ PatchSourceLabel
  \/ EvictMintGroup \/ EvictAnotherGroup
  \/ Tick \/ Sweep \/ Restart

Spec == Init /\ [][Next]_vars

----------------------------------------------------------------------------
TypeOK ==
  /\ row \in Row \cup {NoRow}
  /\ evicted \in BOOLEAN
  /\ younger \in 0 .. EvictedNonNftMax
  /\ sent \in Display \cup {"none"}

\* A row without name or image is in ACTIVE only by the LaunchMyNFT cNFT
\* bypass, however mints, patches, revivals and restarts interleave.
NamelessIsShownByBypassOnly ==
  row # NoRow /\ row.display = "shown" /\ ~row.named =>
    row.program = "bubblegum" /\ row.reason = "launchpad"

\* What the connected clients last heard of a live row is its display state:
\* no promotion, revival or demotion is silent.
ClientsSeeTheRow == row # NoRow => sent = row.display

\* A group evicted as not an NFT has no row, whatever arrives for it later,
\* until the process restarts or EvictedNonNftMax other groups are evicted.
EvictedStaysOut == younger < EvictedNonNftMax => row = NoRow

\* What EvictedStaysOut rests on: the capped set forgets no group before that.
SetRemembers == evicted <=> younger < EvictedNonNftMax

\* A collection with an identity and more than Threshold mints is in ACTIVE,
\* in whatever order its mints, its name and its revivals came; a row revived
\* by the very mint that reaches the threshold waits for the next one.
VolumeIsActive ==
  row # NoRow /\ row.named /\ row.observed > Threshold => row.display = "shown"

\* What VolumeIsActive rests on: a cooled row with an identity is below the
\* threshold, so the mint that revives it reaches the threshold at most.
CooledIsBelowThreshold ==
  row # NoRow /\ row.named /\ row.display = "cooled" => row.observed < Threshold

\* What the two properties below rest on: a shown row has a reason, and the
\* volume reason is given to rows at the threshold and never taken back.
ReasonFits ==
  row # NoRow =>
    /\ row.display = "shown" => row.reason # "none"
    /\ row.reason = "threshold" => row.display = "shown" /\ row.observed >= Threshold

\* A row that reached ACTIVE by volume is never demoted: it leaves only by
\* eviction, idleness or a restart.
VolumeRowsStayActive ==
  [][row # NoRow /\ row' # NoRow /\ row.reason = "threshold" =>
       row'.display = "shown"]_vars

\* The sweep looks at rows shown by burst or launchpad only; still no row it
\* leaves in ACTIVE is both under the threshold and quiet for the cooldown,
\* whichever path had shown, renamed, revived or restored it.
QuietRowsLeaveActive ==
  [][Sweep /\ row' # NoRow /\ row'.display = "shown" =>
       row'.observed >= Threshold \/ row'.idle <= Cooldown]_vars
============================================================================
