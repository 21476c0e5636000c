------------------------------ MODULE MintFeed ------------------------------
(***************************************************************************)
(* The accumulator's row and the card sampler together: recordMint counts  *)
(* the mint, trims and fills the windows, and only then asks the sampler,  *)
(* with the length of the 5-minute window; the sweep that drops an idle    *)
(* row and evictMintGroup make the sampler forget the collection.          *)
(***************************************************************************)
EXTENDS MintRow, FeedSampler

feedVars == <<vars, samplerVars>>

FeedInit == Init /\ SamplerInit

MintIsSampled(e) == RecordMint(e) /\ ShouldEmitFeedCard(Held(row'.e5m))

\* The early return on a group without a row leaves the sampler alone.
GroupIsEvicted ==
  /\ EvictMintGroup
  /\ IF row = NoRow THEN UNCHANGED samplerVars ELSE ForgetFeedSampling

\* Variant: the sweep drops the row and keeps its statistics.
RowIsSwept_KeepsStats == Sweep /\ UNCHANGED samplerVars

RowIsSwept ==
  /\ Sweep
  /\ IF row' = NoRow THEN ForgetFeedSampling ELSE UNCHANGED samplerVars

\* The statistics are not in the snapshot.
ProcessRestarts == Restart /\ ForgetFeedSampling

\* A create event, the patches, the evictions of other groups and the clock.
OtherStep ==
  /\ \/ \E e \in Events : RecordCreate(e)
     \/ \E usable \in BOOLEAN : PatchMeta(usable) \/ PatchLmnft(usable)
     \/ PatchRepresentativeImage \/ PatchSourceLabel
     \/ EvictAnotherGroup \/ Tick
  /\ UNCHANGED samplerVars

FeedNext ==
  \/ \E e \in Events : MintIsSampled(e)
  \/ GroupIsEvicted \/ RowIsSwept \/ ProcessRestarts
  \/ OtherStep

FeedSpec == FeedInit /\ [][FeedNext]_feedVars

FeedTypeOK == TypeOK /\ SamplerTypeOK

\* The sampler keeps statistics for live rows with a mint only, so its map
\* cannot outgrow the accumulator's.
StatsBelongToRows == known => row # NoRow /\ row.observed > 0

\* Nothing is left of a collection that was dropped: a group evicted as not an
\* NFT has no row until a restart or the cap of evictedNonNft lets it return,
\* and one without a row has no statistics, so if it returns it starts with a
\* card.
EvictionIsComplete == EvictedStaysOut /\ StatsBelongToRows
=============================================================================
