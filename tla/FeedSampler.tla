---------------------------- MODULE FeedSampler ----------------------------
(***************************************************************************)
(* The live-feed card sampler of one collection: every mint is counted,    *)
(* but only one card in keepEvery is shown, keepEvery being read from the  *)
(* tier the collection's 5-minute velocity is in at that very mint.  The   *)
(* sequence number runs on while the tier changes under it.  MintFeed      *)
(* drives it with the mints of the accumulator's row.                      *)
(***************************************************************************)
EXTENDS Naturals, Sequences, FiniteSetsExt

CONSTANTS
  Tiers,        \* <<[maxPer5m, keepEvery], ...>>; the last one has no maximum
  Period        \* a common multiple of every keepEvery; seq is kept modulo it

ASSUME SamplerAssumption ==
  /\ Tiers \in Seq([maxPer5m : Nat, keepEvery : Nat \ {0}]) /\ Tiers # << >>
  /\ Period \in Nat \ {0}
  /\ \A i \in DOMAIN Tiers : Period % Tiers[i].keepEvery = 0

VARIABLES
  known,        \* stats has an entry for the collection
  seq,          \* stats.seq, modulo Period
  gap           \* history: mints since the last card of this entry

samplerVars == <<known, seq, gap>>

SamplerInit == known = FALSE /\ seq = 0 /\ gap = 0

\* The first tier whose maximum is not exceeded, else the last.
KeepEvery(v) ==
  LET fits == {i \in DOMAIN Tiers : v <= Tiers[i].maxPer5m}
  IN  Tiers[IF fits = {} THEN Len(Tiers) ELSE Min(fits)].keepEvery

\* Variant: a card at the end of each window, none for its first mint.
EmitsCard_AtTheEnd(v) == (seq + 1) % KeepEvery(v) = 0

EmitsCard(v) == seq % KeepEvery(v) = 0

\* shouldEmitFeedCard: v is the velocity with this mint in it.
ShouldEmitFeedCard(v) ==
  /\ known' = TRUE
  /\ seq' = (seq + 1) % Period
  /\ gap' = IF EmitsCard(v) THEN 0 ELSE gap + 1

\* forgetFeedSampling.
ForgetFeedSampling == known' = FALSE /\ seq' = 0 /\ gap' = 0

SamplerTypeOK ==
  /\ known \in BOOLEAN
  /\ seq \in 0 .. Period - 1
  /\ gap \in Nat

\* "Always periodically resurfaces": whatever the velocity does, no Period
\* mints in a row go without a card, and the first mint of a collection (and
\* of one that was evicted and came back) always has one.
Resurfaces == gap < Period /\ (seq # 0 => gap < seq)
============================================================================
