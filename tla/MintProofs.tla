----------------------------- MODULE MintProofs -----------------------------
(***************************************************************************)
(* The accumulator's row and the card sampler, for every choice of         *)
(* thresholds, windows, event kinds and tiers.  First the row on its own:  *)
(* its type, the identity gate, the frames clients get, and that volume    *)
(* always leads to ACTIVE.  Then the composition: it is an implementation  *)
(* of the row (so all of that holds of it), every collection resurfaces in *)
(* the feed, and the sampler keeps statistics for live rows only.  Last    *)
(* the counting across restarts, for every set of keys, rows, caps and     *)
(* environment faults: NoForgottenKey needs FlushCoversEntries to survive  *)
(* the rename, NoDoubleCount needs CountedOnce, and with clean signals no  *)
(* key is lost.                                                            *)
(***************************************************************************)
EXTENDS MintFeed, MCMintPersistence, SequenceTheorems, WellFoundedInduction, TLAPS

RowInv ==
  /\ TypeOK
  /\ NamelessIsShownByBypassOnly
  /\ ClientsSeeTheRow
  /\ EvictedStaysOut
  /\ SetRemembers
  /\ VolumeIsActive
  /\ CooledIsBelowThreshold
  /\ ReasonFits

\* What the invariant says of a row that is there.
GoodRow(r) ==
  /\ r \in Row
  /\ r.display = "shown" /\ ~r.named =>
       r.program = "bubblegum" /\ r.reason = "launchpad"
  /\ r.named /\ r.observed > Threshold => r.display = "shown"
  /\ r.named /\ r.display = "cooled" => r.observed < Threshold
  /\ r.display = "shown" => r.reason # "none"
  /\ r.reason = "threshold" => r.display = "shown" /\ r.observed >= Threshold

LEMMA RowInvSplit ==
  RowInv <=> /\ row \in Row \cup {NoRow} /\ evicted \in BOOLEAN
             /\ younger \in 0 .. EvictedNonNftMax
             /\ sent \in Display \cup {"none"}
             /\ row # NoRow => GoodRow(row) /\ sent = row.display
             /\ evicted => row = NoRow
             /\ evicted <=> younger < EvictedNonNftMax
BY DEF RowInv, TypeOK, NamelessIsShownByBypassOnly, ClientsSeeTheRow,
       EvictedStaysOut, SetRemembers, VolumeIsActive, CooledIsBelowThreshold, ReasonFits, GoodRow

LEMMA AgeFacts ==
  /\ 0 \in Age
  /\ NoMints \in [Age -> Nat]
  /\ \A w, h : h \in [Age -> Nat] => Within(w, h) \in [Age -> Nat]
  /\ \A h \in [Age -> Nat] : Shifted(h) \in [Age -> Nat]
<1>1. IdleEvict \in Nat
  BY RowAssumption
<1>2. \A h \in [Age -> Nat] : Shifted(h) \in [Age -> Nat]
  <2> SUFFICES ASSUME NEW h \in [Age -> Nat], NEW a \in Age
               PROVE  Shifted(h)[a] \in Nat
    BY DEF Shifted
  <2>1. CASE a = 0
    BY <2>1 DEF Shifted
  <2>2. CASE a # 0
    <3>1. a \in Age /\ a - 1 \in Age
      BY <1>1, <2>2 DEF Age
    <3>2. h[a] \in Nat /\ h[a - 1] \in Nat
      BY <3>1
    <3> QED BY <2>2, <3>2 DEF Shifted
  <2> QED BY <2>1, <2>2
<1> QED BY <1>1, <1>2 DEF Age, NoMints, Within

\* Promotion touches the display state and its reason only.
LEMMA PromotionFacts ==
  ASSUME NEW r \in Row
  PROVE  /\ TryPromote(r) \in Row
         /\ TryPromote(r).named = r.named
         /\ TryPromote(r).program = r.program
         /\ TryPromote(r).observed = r.observed
         /\ r.display = "shown" => TryPromote(r) = r
         /\ \/ TryPromote(r) = r
            \/ /\ r.display # "shown"
               /\ TryPromote(r).display = "shown"
               /\ TryPromote(r).reason # "none"
               /\ TryPromote(r).reason = "threshold" => r.observed >= Threshold
               /\ ~r.named =>
                    r.program = "bubblegum" /\ TryPromote(r).reason = "launchpad"
         /\ QualifiesByVolume(r) => TryPromote(r).display = "shown"
<1>1. \A why \in Reason :
        /\ Show(r, why) \in Row
        /\ Show(r, why).named = r.named
        /\ Show(r, why).program = r.program
        /\ Show(r, why).observed = r.observed
        /\ Show(r, why).display = "shown"
        /\ Show(r, why).reason = why
  BY DEF Show, Row, Display
<1>2. {"launchpad", "threshold", "burst"} \subseteq Reason
  BY DEF Reason
<1> HIDE DEF Row, Show
<1> QED BY <1>1, <1>2 DEF TryPromote, QualifiesByLaunchpad, QualifiesByVolume,
                         QualifiesByBurst

\* Whatever a patch does to the identity, the promoted row is good.
LEMMA PromotedIsGood ==
  ASSUME NEW r, GoodRow(r), NEW named \in BOOLEAN
  PROVE  LET p == TryPromote([r EXCEPT !.named = @ \/ named]) IN GoodRow(p)
<1> DEFINE q == [r EXCEPT !.named = @ \/ named]
<1>1. /\ q \in Row /\ q.display = r.display /\ q.reason = r.reason
      /\ q.observed = r.observed /\ q.program = r.program
      /\ (q.named <=> r.named \/ named)
  BY DEF GoodRow, Row
<1>2. q.observed \in Nat /\ Threshold \in Nat
  BY <1>1, RowAssumption DEF Row
<1> HIDE DEF q
<1>3. GoodRow(TryPromote(q))
  BY <1>1, <1>2, PromotionFacts DEF GoodRow, QualifiesByVolume
<1> QED BY <1>3 DEF q

LEMMA CountedFacts ==
  ASSUME NEW r \in Row
  PROVE  /\ Counted(r) \in Row
         /\ Counted(r).observed = r.observed + 1
         /\ Counted(r).display = r.display
         /\ Counted(r).reason = r.reason
         /\ Counted(r).named = r.named
         /\ Counted(r).program = r.program
<1> DEFINE h60 == [Within(Window60, r.e60) EXCEPT ![0] = @ + 1]
           h5m == [Within(Window5M, r.e5m) EXCEPT ![0] = @ + 1]
<1>1. h60 \in [Age -> Nat] /\ h5m \in [Age -> Nat]
  <2>1. /\ Within(Window60, r.e60) \in [Age -> Nat]
        /\ Within(Window5M, r.e5m) \in [Age -> Nat]
    BY AgeFacts DEF Row
  <2> QED BY <2>1, AgeFacts
<1>2. Counted(r) = [r EXCEPT !.observed = @ + 1, !.idle = 0, !.e60 = h60, !.e5m = h5m]
  BY DEF Counted, Row
<1>3. 0 \in Age /\ r.observed + 1 \in Nat
  BY AgeFacts DEF Row
<1> HIDE DEF h60, h5m
<1> QED BY <1>1, <1>2, <1>3 DEF Row

LEMMA ClassifiedFacts ==
  ASSUME RowInv, NEW e \in Events
  PROVE  GoodRow(Classified(e))
<1>1. e \in [program : {"bubblegum", "mpl_core", "mpl_token_metadata"},
            label : {"LaunchMyNFT", "Other"}, core : BOOLEAN]
  BY RowAssumption
<1>2. CASE row = NoRow
  <2>1. FreshRow(e) \in Row
    BY <1>1, AgeFacts DEF FreshRow, Row, Display, Reason
  <2>2. Threshold \in Nat
    BY RowAssumption
  <2> QED BY <1>2, <2>1, <2>2 DEF Classified, GoodRow, FreshRow
<1>3. CASE row # NoRow
  BY <1>1, <1>3, RowInvSplit DEF Classified, GoodRow, Row
<1> QED BY <1>2, <1>3

LEMMA MintedIsGood ==
  ASSUME NEW r, GoodRow(r)
  PROVE  GoodRow(AfterMint(Counted(r)))
<1> DEFINE c == Counted(r)
<1>1. /\ c \in Row /\ c.observed = r.observed + 1 /\ c.display = r.display
      /\ c.reason = r.reason /\ c.named = r.named /\ c.program = r.program
  BY CountedFacts DEF GoodRow
<1>2. r.observed \in Nat /\ Threshold \in Nat
  BY RowAssumption DEF GoodRow, Row
<1> HIDE DEF c
<1>3. CASE c.display = "cooled" /\ c.named
  <2> DEFINE w == [c EXCEPT !.display = "incubating", !.reason = "none"]
  <2>1. /\ w \in Row /\ w.display = "incubating" /\ w.named = c.named
        /\ w.observed = c.observed
    BY <1>1 DEF Row, Display, Reason
  <2>w. w.reason = "none"
    BY <1>1 DEF Row
  <2>2. AfterMint(c) = w
    BY <1>3 DEF AfterMint
  <2> HIDE DEF w
  <2>3. w.observed <= Threshold
    BY <1>1, <1>2, <1>3, <2>1 DEF GoodRow
  <2>4. GoodRow(w)
    BY <1>1, <1>2, <2>1, <2>w, <2>3 DEF GoodRow
  <2> QED BY <2>2, <2>4 DEF c
<1>4. CASE ~(c.display = "cooled" /\ c.named)
  <2>1. AfterMint(c) = TryPromote(c)
    BY <1>4 DEF AfterMint
  <2>2. GoodRow(TryPromote(c))
    BY <1>1, <1>2, <1>4, PromotionFacts DEF GoodRow, QualifiesByVolume
  <2> QED BY <2>1, <2>2 DEF c
<1> QED BY <1>3, <1>4

LEMMA SweptIsGood ==
  ASSUME NEW r, GoodRow(r)
  PROVE  GoodRow(Swept(r)) /\ (~WentQuiet(r) => Swept(r).display = r.display)
<1> DEFINE t == Trimmed(r)
<1>1. /\ t \in Row /\ t.observed = r.observed /\ t.display = r.display
      /\ t.reason = r.reason /\ t.named = r.named /\ t.program = r.program
  BY AgeFacts DEF Trimmed, GoodRow, Row
<1> HIDE DEF t
<1>2. GoodRow(t)
  BY <1>1 DEF GoodRow
<1>3. CASE WentQuiet(r)
  <2> DEFINE s == [t EXCEPT !.display = "cooled"]
  <2>1. /\ s \in Row /\ s.observed = t.observed /\ s.display = "cooled"
        /\ s.named = t.named /\ s.reason = t.reason
    BY <1>1 DEF Row, Display
  <2>2. r.reason # "threshold" /\ r.observed < Threshold /\ r.observed \in Nat /\ Threshold \in Nat
    BY <1>3, RowAssumption DEF WentQuiet, GoodRow, Row
  <2>3. Swept(r) = s
    BY <1>3 DEF Swept, t
  <2> HIDE DEF s
  <2>4. GoodRow(s)
    BY <1>1, <2>1, <2>2 DEF GoodRow
  <2> QED BY <1>3, <2>3, <2>4
<1>4. CASE ~WentQuiet(r)
  <2>1. Swept(r) = t
    BY <1>4 DEF Swept, t
  <2> QED BY <1>1, <1>2, <2>1
<1> QED BY <1>3, <1>4

----------------------------------------------------------------------------
LEMMA InitRow == Init => RowInv
<1>1. EvictedNonNftMax \in Nat \ {0}
  BY RowAssumption
<1>2. \A n \in Nat : n \in 0 .. n /\ ~(n < n)
  OBVIOUS
<1> QED BY <1>1, <1>2, RowInvSplit DEF Init

LEMMA WrittenRowKeepsInv ==
  ASSUME RowInv, ~evicted, UNCHANGED memory,
         NEW r, GoodRow(r), WriteAndEmit(r)
  PROVE  RowInv'
<1>1. r \in Row /\ r.display \in Display
  BY DEF GoodRow, Row
<1> QED BY <1>1, RowInvSplit, NoRowIsNoRecord DEF WriteAndEmit, memory, RowInv, TypeOK,
      NamelessIsShownByBypassOnly, ClientsSeeTheRow, EvictedStaysOut, SetRemembers,
      VolumeIsActive, CooledIsBelowThreshold, ReasonFits, GoodRow

LEMMA GoneRowKeepsInv ==
  ASSUME RowInv, row' = NoRow, sent' \in Display \cup {"none"},
         evicted' \in BOOLEAN, younger' \in 0 .. EvictedNonNftMax, SetRemembers'
  PROVE  RowInv'
BY DEF RowInv, TypeOK, NamelessIsShownByBypassOnly, ClientsSeeTheRow,
       EvictedStaysOut, VolumeIsActive, CooledIsBelowThreshold, ReasonFits

LEMMA NextRow == RowInv /\ [Next]_vars => RowInv'
<1> SUFFICES ASSUME RowInv, [Next]_vars PROVE RowInv'
  OBVIOUS
<1>0. /\ row # NoRow => GoodRow(row) /\ ~evicted /\ sent = row.display
      /\ evicted \in BOOLEAN /\ sent \in Display \cup {"none"}
      /\ younger \in 0 .. EvictedNonNftMax /\ EvictedNonNftMax \in Nat \ {0}
      /\ SetRemembers
  BY RowInvSplit, RowAssumption DEF SetRemembers
<1>1. ASSUME NEW e \in Events, RecordMint(e) PROVE RowInv'
  BY <1>1, ClassifiedFacts, MintedIsGood, WrittenRowKeepsInv DEF RecordMint
<1>2. ASSUME NEW e \in Events, RecordCreate(e) PROVE RowInv'
  BY <1>2, ClassifiedFacts, WrittenRowKeepsInv DEF RecordCreate
<1>3. ASSUME NEW u \in BOOLEAN, PatchMeta(u) \/ PatchLmnft(u) PROVE RowInv'
  BY <1>0, <1>3, PromotedIsGood, WrittenRowKeepsInv DEF PatchMeta, PatchLmnft
<1>4. CASE PatchRepresentativeImage
  <2>1. GoodRow(TryPromote(row))
    <3>1. row.observed \in Nat /\ Threshold \in Nat
      BY <1>0, <1>4, RowAssumption DEF PatchRepresentativeImage, GoodRow, Row
    <3> QED BY <1>0, <1>4, <3>1, PromotionFacts
            DEF PatchRepresentativeImage, GoodRow, QualifiesByVolume
  <2> QED BY <1>0, <1>4, <2>1, WrittenRowKeepsInv DEF PatchRepresentativeImage
<1>5. CASE PatchSourceLabel
  <2>1. GoodRow([row EXCEPT !.label = "Other"])
    BY <1>0, <1>5 DEF PatchSourceLabel, GoodRow, Row
  <2> QED BY <1>0, <1>5, <2>1, WrittenRowKeepsInv DEF PatchSourceLabel
<1>6. CASE EvictMintGroup
  <2>1. row' = NoRow /\ sent' \in Display \cup {"none"} /\ evicted' \in BOOLEAN
    BY <1>0, <1>6 DEF EvictMintGroup, Display
  <2>2. younger' \in 0 .. EvictedNonNftMax /\ SetRemembers'
    BY <1>0, <1>6 DEF EvictMintGroup, SetRemembers
  <2> QED BY <2>1, <2>2, GoneRowKeepsInv
<1>a. CASE EvictAnotherGroup
  <2>1. row = NoRow /\ row' = NoRow /\ sent' = sent
    BY <1>0, <1>a DEF EvictAnotherGroup
  <2>2. younger < EvictedNonNftMax /\ younger' = younger + 1
    BY <1>0, <1>a DEF EvictAnotherGroup, SetRemembers
  <2>3. /\ younger' \in 0 .. EvictedNonNftMax /\ SetRemembers'
        /\ evicted' \in BOOLEAN
    <3>1. younger' \in 0 .. EvictedNonNftMax
      BY <1>0, <2>2
    <3>2. evicted' = (younger' < EvictedNonNftMax)
      BY <1>a DEF EvictAnotherGroup
    <3>3. evicted' \in BOOLEAN
      BY <3>2
    <3>4. SetRemembers'
      BY <3>2 DEF SetRemembers
    <3> QED BY <3>1, <3>3, <3>4
  <2> QED BY <1>0, <2>1, <2>3, GoneRowKeepsInv
<1>7. CASE Tick
  <2> DEFINE r == [row EXCEPT !.idle = @ + 1, !.e60 = Shifted(@), !.e5m = Shifted(@)]
  <2>1. row \in Row /\ row.idle + 1 \in Age
    <3>1. row \in Row /\ row.idle \in Age /\ row.idle <= IdleEvict
      BY <1>0, <1>7 DEF Tick, GoodRow, Row
    <3> QED BY <3>1, RowAssumption DEF Age
  <2>2. GoodRow(r) /\ r.display = row.display
    <3>1. /\ Shifted(row.e60) \in [Age -> Nat]
          /\ Shifted(row.e5m) \in [Age -> Nat]
      BY <2>1, AgeFacts DEF Row
    <3> QED BY <1>0, <1>7, <2>1, <3>1 DEF Tick, GoodRow, Row
  <2>3. WriteAndEmit(r)
    BY <1>0, <1>7, <2>2 DEF Tick, WriteAndEmit
  <2> HIDE DEF r
  <2> QED BY <1>0, <1>7, <2>2, <2>3, WrittenRowKeepsInv DEF Tick
<1>8. CASE Sweep
  <2>1. CASE row.idle > IdleEvict
    BY <1>0, <1>8, <2>1, GoneRowKeepsInv DEF Sweep, memory, SetRemembers
  <2>2. CASE ~(row.idle > IdleEvict)
    <3>1. GoodRow(Swept(row)) /\ (~WentQuiet(row) => Swept(row).display = row.display)
      BY <1>0, <1>8, SweptIsGood DEF Sweep
    <3>2. WriteAndEmit(Swept(row))
      BY <1>0, <1>8, <2>2, <3>1 DEF Sweep, WriteAndEmit
    <3> QED BY <1>0, <1>8, <3>1, <3>2, WrittenRowKeepsInv DEF Sweep
  <2> QED BY <2>1, <2>2
<1>9. CASE Restart
  <2> DEFINE r == [row EXCEPT !.e60 = NoMints, !.e5m = NoMints]
  <2>0. /\ evicted' = FALSE /\ younger' = EvictedNonNftMax /\ SetRemembers'
        /\ younger' \in 0 .. EvictedNonNftMax
    BY <1>0, <1>9 DEF Restart, SetRemembers
  <2>1. CASE row' = NoRow /\ UNCHANGED sent
    BY <1>0, <2>0, <2>1, GoneRowKeepsInv
  <2>2. CASE row # NoRow /\ WriteAndEmit(r)
    <3>1. GoodRow(r)
      BY <1>0, <2>2, AgeFacts DEF GoodRow, Row
    <3>2. ~evicted /\ UNCHANGED memory
      <4>1. ~evicted /\ ~(younger < EvictedNonNftMax)
        BY <1>0, <2>2 DEF SetRemembers
      <4>2. younger = EvictedNonNftMax
        BY <1>0, <4>1
      <4>3. evicted = FALSE
        BY <1>0, <4>1
      <4> QED BY <2>0, <4>1, <4>2, <4>3 DEF memory
    <3> HIDE DEF r
    <3> QED BY <2>2, <3>1, <3>2, WrittenRowKeepsInv
  <2> QED BY <1>9, <2>1, <2>2 DEF Restart
<1>10. CASE UNCHANGED vars
  BY <1>10 DEF vars, memory, RowInv, TypeOK, NamelessIsShownByBypassOnly,
       ClientsSeeTheRow, EvictedStaysOut, SetRemembers, VolumeIsActive, CooledIsBelowThreshold, ReasonFits
<1> QED BY <1>1, <1>2, <1>3, <1>4, <1>5, <1>6, <1>a, <1>7, <1>8, <1>9, <1>10 DEF Next

LEMMA RowInvariant == Spec => []RowInv
BY InitRow, NextRow, PTL DEF Spec

\* Every reachable row is well typed.
THEOREM RowTypeCorrect == Spec => []TypeOK
<1>1. RowInv => TypeOK
  BY DEF RowInv
<1> QED BY <1>1, RowInvariant, PTL

\* The identity gate holds on every path into ACTIVE.
THEOREM IdentityGate == Spec => []NamelessIsShownByBypassOnly
<1>1. RowInv => NamelessIsShownByBypassOnly
  BY DEF RowInv
<1> QED BY <1>1, RowInvariant, PTL

\* No promotion, revival or demotion of a live row is silent.
THEOREM NoSilentChange == Spec => []ClientsSeeTheRow
<1>1. RowInv => ClientsSeeTheRow
  BY DEF RowInv
<1> QED BY <1>1, RowInvariant, PTL

\* A group evicted as not an NFT has no row, whatever arrives for it later,
\* until a restart or EvictedNonNftMax evictions of other groups.
THEOREM EvictionIsFinal == Spec => []EvictedStaysOut
<1>1. RowInv => EvictedStaysOut
  BY DEF RowInv
<1> QED BY <1>1, RowInvariant, PTL

\* A named collection past the threshold is in ACTIVE.
THEOREM VolumeLeadsToActive == Spec => []VolumeIsActive
<1>1. RowInv => VolumeIsActive
  BY DEF RowInv
<1> QED BY <1>1, RowInvariant, PTL

\* The volume reason is for life: no step demotes a row shown by volume.
THEOREM VolumeIsForLife == Spec => VolumeRowsStayActive
<1>1. RowInv /\ [Next]_vars =>
        [row # NoRow /\ row' # NoRow /\ row.reason = "threshold" =>
           row'.display = "shown"]_vars
  <2> SUFFICES ASSUME RowInv, [Next]_vars, row # NoRow, row' # NoRow,
                      row.reason = "threshold"
               PROVE  row'.display = "shown"
    OBVIOUS
  <2>1. GoodRow(row) /\ row.display = "shown" /\ row.observed >= Threshold
    BY RowInvSplit DEF GoodRow
  <2>2. ASSUME NEW e \in Events, RecordMint(e) \/ RecordCreate(e)
        PROVE  row'.display = "shown"
    <3>1. Classified(e) \in Row /\ Classified(e).display = "shown"
      BY <2>1, <2>2, ClassifiedFacts DEF Classified, GoodRow, Row
    <3>2. AfterMint(Counted(Classified(e))).display = "shown"
      BY <3>1, CountedFacts DEF AfterMint, TryPromote
    <3> QED BY <2>2, <3>1, <3>2 DEF RecordMint, RecordCreate, WriteAndEmit
  <2>3. ASSUME NEW u \in BOOLEAN, PatchMeta(u) \/ PatchLmnft(u)
        PROVE  row'.display = "shown"
    <3>1. [row EXCEPT !.named = @ \/ u].display = "shown"
      BY <2>1 DEF GoodRow, Row
    <3> QED BY <2>3, <3>1 DEF PatchMeta, PatchLmnft, WriteAndEmit, TryPromote
  <2>4. CASE PatchRepresentativeImage \/ PatchSourceLabel
    BY <2>1, <2>4 DEF PatchRepresentativeImage, PatchSourceLabel, WriteAndEmit,
                      TryPromote, GoodRow, Row
  <2>5. CASE EvictMintGroup \/ EvictAnotherGroup
    BY <2>1, <2>5 DEF EvictMintGroup, EvictAnotherGroup
  <2>6. CASE Tick \/ Restart
    BY <2>1, <2>6 DEF Tick, Restart, WriteAndEmit, GoodRow, Row
  <2>7. CASE Sweep
    <3>1. ~WentQuiet(row)
      BY <2>1 DEF WentQuiet
    <3>2. Swept(row).display = "shown"
      BY <2>1, <3>1, SweptIsGood
    <3> QED BY <2>7, <3>2 DEF Sweep
  <2>8. CASE UNCHANGED vars
    BY <2>1, <2>8 DEF vars
  <2> QED BY <2>2, <2>3, <2>4, <2>5, <2>6, <2>7, <2>8 DEF Next
<1> QED BY <1>1, RowInvariant, PTL DEF Spec, VolumeRowsStayActive

\* No sweep leaves a row in ACTIVE that is under the threshold and quiet.
THEOREM QuietRowsGo == Spec => QuietRowsLeaveActive
<1>1. RowInv /\ [Next]_vars =>
        [Sweep /\ row' # NoRow /\ row'.display = "shown" =>
           row'.observed >= Threshold \/ row'.idle <= Cooldown]_vars
  <2> SUFFICES ASSUME RowInv, Sweep, row' # NoRow, row'.display = "shown"
               PROVE  row'.observed >= Threshold \/ row'.idle <= Cooldown
    OBVIOUS
  <2>1. row # NoRow /\ row' = Swept(row) /\ GoodRow(row)
    BY RowInvSplit DEF Sweep
  <2>2. ~WentQuiet(row) /\ row' = Trimmed(row)
    BY <2>1 DEF Swept, Trimmed, GoodRow, Row
  <2>3. /\ row'.observed = row.observed /\ row'.idle = row.idle
        /\ row.display = "shown"
    BY <2>1, <2>2 DEF Trimmed, GoodRow, Row
  <2>4. row.reason \in {"burst", "launchpad"} \/ row.observed >= Threshold
    BY <2>1, <2>3 DEF GoodRow, Row, Reason
  <2>5. /\ row.observed \in Nat /\ row.idle \in Nat
        /\ Threshold \in Nat /\ Cooldown \in Nat
    BY <2>1, RowAssumption DEF GoodRow, Row, Age
  <2> QED BY <2>2, <2>3, <2>4, <2>5 DEF WentQuiet
<1> QED BY <1>1, RowInvariant, PTL DEF Spec, QuietRowsLeaveActive

----------------------------------------------------------------------------
(* The composition.                                                        *)

\* Each step of the composition is a step of the row, or leaves it alone.
LEMMA FeedStepIsRowStep == [FeedNext]_feedVars => [Next]_vars
BY DEF FeedNext, feedVars, MintIsSampled, GroupIsEvicted, RowIsSwept,
       ProcessRestarts, OtherStep, Next

\* The row with the sampler beside it is still the row: whatever holds of
\* MintRow holds of the composition.
THEOREM FeedImplementsRow == FeedSpec => Spec
<1>1. FeedInit => Init
  BY DEF FeedInit
<1> QED BY <1>1, FeedStepIsRowStep, PTL DEF FeedSpec, Spec

\* A non-empty set of naturals has a least element.
LEMMA LeastExists ==
  ASSUME NEW S \in SUBSET Nat, S # {}
  PROVE  Min(S) \in S
<1>1. PICK x \in S : \A y \in S : ~ (<<y, x>> \in OpToRel(<, Nat))
  BY NatLessThanWellFounded, WFMin
<1>2. ASSUME NEW y \in S PROVE x <= y
  <2>1. ~ (y < x)
    BY <1>1 DEF OpToRel
  <2> QED BY <2>1
<1> QED BY <1>2 DEF Min

LEMMA KeepEveryIsPositive ==
  ASSUME NEW v
  PROVE  KeepEvery(v) \in Nat \ {0}
<1> DEFINE fits == {i \in DOMAIN Tiers : v <= Tiers[i].maxPer5m}
           t == IF fits = {} THEN Len(Tiers) ELSE Min(fits)
<1>1. Tiers \in Seq([maxPer5m : Nat, keepEvery : Nat \ {0}]) /\ Tiers # << >>
  BY SamplerAssumption
<1>2. DOMAIN Tiers = 1 .. Len(Tiers) /\ Len(Tiers) \in Nat /\ Len(Tiers) # 0
  BY <1>1
<1>3. t \in DOMAIN Tiers
  <2>1. CASE fits = {}
    BY <1>2, <2>1
  <2>2. CASE fits # {}
    <3>1. fits \in SUBSET Nat
      BY <1>2
    <3> HIDE DEF fits
    <3>2. Min(fits) \in fits
      BY <2>2, <3>1, LeastExists
    <3> QED BY <2>2, <3>2 DEF fits
  <2> QED BY <2>1, <2>2
<1>4. KeepEvery(v) = Tiers[t].keepEvery
  BY DEF KeepEvery
<1> HIDE DEF t
<1>5. \A S, s : s \in Seq(S) => \A i \in 1 .. Len(s) : s[i] \in S
  OBVIOUS
<1>6. Tiers[t] \in [maxPer5m : Nat, keepEvery : Nat \ {0}]
  BY <1>1, <1>2, <1>3, <1>5
<1> QED BY <1>4, <1>6

\* The first mint of an entry has a card in every tier.
LEMMA FirstHasCard ==
  ASSUME NEW v, seq = 0
  PROVE  EmitsCard(v)
<1>1. \A k \in Nat \ {0} : 0 % k = 0
  OBVIOUS
<1> QED BY <1>1, KeepEveryIsPositive DEF EmitsCard

SamplerInv == SamplerTypeOK /\ Resurfaces

LEMMA CardKeepsSampler ==
  ASSUME SamplerInv, NEW v, ShouldEmitFeedCard(v)
  PROVE  SamplerInv'
<1>1. /\ Period \in Nat \ {0} /\ seq \in 0 .. Period - 1
      /\ gap \in Nat /\ gap < Period /\ (seq # 0 => gap < seq)
  BY SamplerAssumption DEF SamplerInv, SamplerTypeOK, Resurfaces
<1>2. seq' = IF seq + 1 = Period THEN 0 ELSE seq + 1
  <2>1. CASE seq + 1 = Period
    <3>1. \A p \in Nat \ {0} : p % p = 0
      OBVIOUS
    <3> QED BY <1>1, <2>1, <3>1 DEF ShouldEmitFeedCard
  <2>2. CASE seq + 1 # Period
    <3>1. \A p \in Nat \ {0}, n \in Nat : n < p => n % p = n
      OBVIOUS
    <3>2. seq + 1 \in Nat /\ seq + 1 < Period
      BY <1>1, <2>2
    <3> QED BY <1>1, <2>2, <3>1, <3>2 DEF ShouldEmitFeedCard
  <2> QED BY <2>1, <2>2
<1>3. CASE EmitsCard(v)
  BY <1>1, <1>2, <1>3 DEF ShouldEmitFeedCard, SamplerInv, SamplerTypeOK, Resurfaces
<1>4. CASE ~EmitsCard(v)
  <2>1. seq # 0
    BY <1>4, FirstHasCard
  <2>2. gap' = gap + 1 /\ known' = TRUE
    BY <1>4 DEF ShouldEmitFeedCard
  <2> QED BY <1>1, <1>2, <2>1, <2>2 DEF SamplerInv, SamplerTypeOK, Resurfaces
<1> QED BY <1>3, <1>4

FeedInv == RowInv /\ SamplerInv /\ StatsBelongToRows

LEMMA ZeroIsASeq == Period \in Nat /\ 0 < Period /\ 0 \in 0 .. Period - 1
BY SamplerAssumption

LEMMA InitFeed == FeedInit => FeedInv
<1> SUFFICES ASSUME FeedInit PROVE FeedInv
  OBVIOUS
<1>1. RowInv
  BY InitRow DEF FeedInit
<1>2. SamplerInv
  BY ZeroIsASeq DEF FeedInit, SamplerInit, SamplerInv, SamplerTypeOK, Resurfaces
<1> QED BY <1>1, <1>2 DEF FeedInv, FeedInit, SamplerInit, StatsBelongToRows

\* The row a mint leaves has that mint.
LEMMA MintedRowIsCounted ==
  ASSUME RowInv, NEW e \in Events, RecordMint(e)
  PROVE  row' # NoRow /\ row'.observed > 0
<1>1. GoodRow(Classified(e))
  BY ClassifiedFacts
<1> DEFINE c == Counted(Classified(e))
<1>2. c \in Row /\ c.observed = Classified(e).observed + 1 /\ Classified(e).observed \in Nat
  BY <1>1, CountedFacts DEF GoodRow, Row
<1>3. row' = AfterMint(c)
  BY DEF RecordMint, WriteAndEmit
<1>4. row' \in Row
  BY <1>1, <1>3, MintedIsGood DEF GoodRow
<1> HIDE DEF c
<1>5. row'.observed = c.observed
  <2>1. CASE c.display = "cooled" /\ c.named
    BY <1>2, <1>3, <2>1 DEF AfterMint, Row
  <2>2. CASE ~(c.display = "cooled" /\ c.named)
    BY <1>2, <1>3, <2>2, PromotionFacts DEF AfterMint
  <2> QED BY <2>1, <2>2
<1> QED BY <1>2, <1>4, <1>5, NoRowIsNoRecord

\* No step but an eviction, the sweep or a restart drops a row or its mints.
LEMMA RowStays ==
  ASSUME RowInv, row # NoRow, row.observed > 0,
         \/ OtherStep
         \/ Sweep /\ row' # NoRow
         \/ UNCHANGED vars
  PROVE  row' # NoRow /\ row'.observed > 0
<1>0. GoodRow(row) /\ row \in Row
  BY RowInvSplit DEF GoodRow
<1>1. ASSUME NEW e \in Events, RecordCreate(e)
      PROVE  row' # NoRow /\ row'.observed > 0
  <2>1. row' = [row EXCEPT !.label = e.label, !.core = e.core]
    BY <1>1 DEF RecordCreate, WriteAndEmit, Classified
  <2>2. row' \in Row
    BY <1>1, ClassifiedFacts DEF RecordCreate, WriteAndEmit, GoodRow
  <2> QED BY <1>0, <2>1, <2>2, NoRowIsNoRecord DEF Row
<1>2. ASSUME NEW u \in BOOLEAN, PatchMeta(u) \/ PatchLmnft(u)
      PROVE  row' # NoRow /\ row'.observed > 0
  <2> DEFINE q == [row EXCEPT !.named = @ \/ u]
  <2>1. q \in Row /\ q.observed = row.observed
    BY <1>0 DEF Row
  <2>2. row' = TryPromote(q)
    BY <1>2 DEF PatchMeta, PatchLmnft, WriteAndEmit
  <2> HIDE DEF q
  <2> QED BY <2>1, <2>2, PromotionFacts, NoRowIsNoRecord
<1>3. CASE PatchRepresentativeImage
  BY <1>0, <1>3, PromotionFacts, NoRowIsNoRecord DEF PatchRepresentativeImage, WriteAndEmit
<1>4. CASE PatchSourceLabel
  <2>1. row' = [row EXCEPT !.label = "Other"] /\ row' \in Row
    BY <1>0, <1>4 DEF PatchSourceLabel, WriteAndEmit, Row
  <2> QED BY <1>0, <2>1, NoRowIsNoRecord DEF Row
<1>5. CASE Tick
  <2>1. row.e60 \in [Age -> Nat] /\ row.e5m \in [Age -> Nat] /\ row.idle + 1 \in Age
    BY <1>0, <1>5, RowAssumption DEF Tick, Row, Age
  <2>2. Shifted(row.e60) \in [Age -> Nat] /\ Shifted(row.e5m) \in [Age -> Nat]
    BY <2>1, AgeFacts
  <2>3. row' \in Row /\ row'.observed = row.observed
    BY <1>0, <1>5, <2>1, <2>2 DEF Tick, Row
  <2> QED BY <2>3, NoRowIsNoRecord
<1>6. CASE Sweep /\ row' # NoRow
  <2>1. row' = Swept(row)
    BY <1>6 DEF Sweep
  <2> QED BY <1>0, <1>6, <2>1 DEF Swept, Trimmed, Row
<1>7. CASE UNCHANGED vars \/ EvictAnotherGroup
  BY <1>7 DEF vars, EvictAnotherGroup
<1> QED BY <1>1, <1>2, <1>3, <1>4, <1>5, <1>6, <1>7 DEF OtherStep

LEMMA NextFeed == FeedInv /\ [FeedNext]_feedVars => FeedInv'
<1> SUFFICES ASSUME FeedInv, [FeedNext]_feedVars PROVE FeedInv'
  OBVIOUS
<1>1. RowInv' /\ RowInv /\ SamplerInv
  BY NextRow, FeedStepIsRowStep DEF FeedInv
<1>2. ASSUME NEW e \in Events, MintIsSampled(e) PROVE FeedInv'
  <2>1. SamplerInv'
    BY <1>1, <1>2, CardKeepsSampler DEF MintIsSampled
  <2>2. row' # NoRow /\ row'.observed > 0
    BY <1>1, <1>2, MintedRowIsCounted DEF MintIsSampled
  <2> QED BY <1>1, <2>1, <2>2 DEF FeedInv, StatsBelongToRows
<1>3. ASSUME ForgetFeedSampling PROVE FeedInv'
  <2>1. SamplerInv'
    BY <1>3, ZeroIsASeq DEF ForgetFeedSampling, SamplerInv, SamplerTypeOK, Resurfaces
  <2> QED BY <1>1, <1>3, <2>1 DEF ForgetFeedSampling, FeedInv, StatsBelongToRows
<1>4. ASSUME UNCHANGED samplerVars,
             \/ OtherStep
             \/ Sweep /\ row' # NoRow
             \/ UNCHANGED vars
      PROVE  FeedInv'
  <2>1. SamplerInv'
    BY <1>1, <1>4 DEF samplerVars, SamplerInv, SamplerTypeOK, Resurfaces
  <2>2. StatsBelongToRows'
    BY <1>1, <1>4, RowStays DEF samplerVars, StatsBelongToRows, FeedInv
  <2> QED BY <1>1, <2>1, <2>2 DEF FeedInv
<1>5. ASSUME UNCHANGED samplerVars, row = NoRow, row' = NoRow PROVE FeedInv'
  BY <1>1, <1>5 DEF samplerVars, SamplerInv, SamplerTypeOK, Resurfaces, FeedInv,
                    StatsBelongToRows
<1>6. CASE GroupIsEvicted
  BY <1>3, <1>5, <1>6 DEF GroupIsEvicted, EvictMintGroup
<1>7. CASE RowIsSwept
  BY <1>3, <1>4, <1>7 DEF RowIsSwept
<1>8. CASE ProcessRestarts
  BY <1>3, <1>8 DEF ProcessRestarts
<1>9. CASE OtherStep
  BY <1>4, <1>9 DEF OtherStep
<1>10. CASE UNCHANGED feedVars
  BY <1>4, <1>10 DEF feedVars
<1> QED BY <1>2, <1>6, <1>7, <1>8, <1>9, <1>10 DEF FeedNext

LEMMA FeedInvariant == FeedSpec => []FeedInv
BY InitFeed, NextFeed, PTL DEF FeedSpec

\* The composed state is well typed.
THEOREM FeedTypeCorrect == FeedSpec => []FeedTypeOK
<1>1. FeedInv => FeedTypeOK
  BY DEF FeedInv, RowInv, SamplerInv, FeedTypeOK
<1> QED BY <1>1, FeedInvariant, PTL

\* Every collection keeps resurfacing in the feed, for every set of tiers and
\* every course of the velocity.
THEOREM CollectionsResurface == FeedSpec => []Resurfaces
<1>1. FeedInv => Resurfaces
  BY DEF FeedInv, SamplerInv
<1> QED BY <1>1, FeedInvariant, PTL

\* Nothing is left of a dropped collection, neither a row nor statistics.
THEOREM NothingIsLeft == FeedSpec => []EvictionIsComplete
<1>1. FeedInv => EvictionIsComplete
  BY DEF FeedInv, RowInv, EvictionIsComplete
<1> QED BY <1>1, FeedInvariant, PTL

----------------------------------------------------------------------------
(* What the capped insertion-ordered set keeps, for every cap and element. *)

\* The elements of a sequence over S are in S.
LEMMA RangeInType ==
  ASSUME NEW S, NEW s \in Seq(S)
  PROVE  L!Range(s) \subseteq S
<1> SUFFICES ASSUME NEW i \in DOMAIN s PROVE s[i] \in S
  BY DEF L!Range
<1> QED BY LenProperties, ElementOfSeq

\* Trimming keeps a sequence of the same elements' type, at most cap of them,
\* and invents none (hydrateCountedMints, appendCountedLedger).
THEOREM FifoTrimProperties ==
  ASSUME NEW S, NEW s \in Seq(S), NEW cap \in Nat
  PROVE  /\ L!FifoTrim(s, cap) \in Seq(S)
         /\ Len(L!FifoTrim(s, cap)) <= cap
         /\ L!Range(L!FifoTrim(s, cap)) \subseteq L!Range(s)
<1>1. CASE Len(s) <= cap
  BY <1>1, LenProperties DEF L!FifoTrim
<1>2. CASE Len(s) > cap
  <2> DEFINE m == Len(s) - cap + 1
             t == SubSeq(s, m, Len(s))
  <2>1. Len(s) \in Nat /\ m \in 1 .. Len(s) + 1
    BY <1>2, LenProperties
  <2>2. \A i \in m .. Len(s) : s[i] \in S
    BY <2>1, ElementOfSeq
  <2>3. /\ t \in Seq(S)
        /\ Len(t) = IF m <= Len(s) THEN Len(s) - m + 1 ELSE 0
        /\ \A i \in 1 .. Len(s) - m + 1 : t[i] = s[m + i - 1]
    <3> HIDE DEF m
    <3> QED BY <2>1, <2>2, SubSeqProperties
  <2>4. L!FifoTrim(s, cap) = t
    BY <1>2 DEF L!FifoTrim
  <2>5. Len(t) = cap
    BY <2>1, <2>3
  <2>6. L!Range(t) \subseteq L!Range(s)
    <3> SUFFICES ASSUME NEW i \in 1 .. Len(t) PROVE t[i] \in L!Range(s)
      BY <2>3, LenProperties DEF L!Range
    <3>1. t[i] = s[m + i - 1] /\ m + i - 1 \in 1 .. Len(s)
      BY <2>1, <2>3, <2>5
    <3> HIDE DEF m, t
    <3> QED BY <3>1, LenProperties DEF L!Range
  <2> QED BY <2>3, <2>4, <2>5, <2>6
<1> QED BY <1>1, <1>2, LenProperties

\* Adding puts the element in, and the others are old ones
\* (rememberCountedMint).
THEOREM FifoAddProperties ==
  ASSUME NEW S, NEW s \in Seq(S), NEW x \in S, NEW cap \in Nat \ {0}
  PROVE  /\ L!FifoAdd(s, x, cap) \in Seq(S)
         /\ L!Range(L!FifoAdd(s, x, cap)) \subseteq L!Range(s) \cup {x}
         /\ x \in L!Range(L!FifoAdd(s, x, cap))
<1>1. CASE x \in L!Range(s)
  BY <1>1 DEF L!FifoAdd
<1>2. CASE x \notin L!Range(s)
  <2> DEFINE a == Append(s, x)
             n == Len(a)
  <2>1. /\ a \in Seq(S) /\ n = Len(s) + 1 /\ n \in Nat /\ a[n] = x
        /\ \A i \in 1 .. Len(s) : a[i] = s[i]
    BY LenProperties
  <2>2. L!Range(a) \subseteq L!Range(s) \cup {x}
    BY <2>1, LenProperties DEF L!Range
  <2>3. L!FifoAdd(s, x, cap) = L!FifoTrim(a, cap)
    BY <1>2 DEF L!FifoAdd
  <2>4. /\ L!FifoTrim(a, cap) \in Seq(S)
        /\ L!Range(L!FifoTrim(a, cap)) \subseteq L!Range(a)
    BY <2>1, FifoTrimProperties
  <2>5. x \in L!Range(L!FifoTrim(a, cap))
    <3>1. CASE n <= cap
      <4>1. L!FifoTrim(a, cap) = a
        BY <2>1, <3>1 DEF L!FifoTrim
      <4>2. n \in DOMAIN a
        BY <2>1, LenProperties
      <4> QED BY <2>1, <4>1, <4>2 DEF L!Range
    <3>2. CASE n > cap
      <4> DEFINE m == n - cap + 1
                 t == SubSeq(a, m, n)
      <4>1. m \in 1 .. n /\ m \in Int
        BY <2>1, <3>2
      <4>2. \A i \in m .. n : a[i] \in S
        BY <2>1, <4>1, ElementOfSeq
      <4> HIDE DEF m, a
      <4>3. /\ t \in Seq(S) /\ Len(t) = IF m <= n THEN n - m + 1 ELSE 0
            /\ \A i \in 1 .. n - m + 1 : t[i] = a[m + i - 1]
        BY <2>1, <4>1, <4>2, SubSeqProperties
      <4>4. cap = n - m + 1 /\ cap \in 1 .. n - m + 1
        BY <2>1, <3>2 DEF m
      <4>5. t[cap] = a[m + cap - 1] /\ m + cap - 1 = n /\ cap \in 1 .. Len(t)
        BY <2>1, <4>1, <4>3, <4>4
      <4>6. t[cap] = x /\ cap \in DOMAIN t
        BY <2>1, <4>3, <4>5, LenProperties
      <4>7. L!FifoTrim(a, cap) = t
        BY <3>2 DEF L!FifoTrim, m
      <4> HIDE DEF t
      <4> QED BY <4>6, <4>7 DEF L!Range
    <3> QED BY <2>1, <3>1, <3>2
  <2> QED BY <2>2, <2>3, <2>4, <2>5
<1> QED BY <1>1, <1>2

\* A part of a sequence has the elements of its positions (serialize).
LEMMA PartOfSeq ==
  ASSUME NEW S, NEW s \in Seq(S), NEW m \in Nat, NEW n \in Nat,
         1 <= m, m <= n + 1, n <= Len(s)
  PROVE  /\ SubSeq(s, m, n) \in Seq(S)
         /\ L!Range(SubSeq(s, m, n)) = {s[i] : i \in m .. n}
<1> DEFINE t == SubSeq(s, m, n)
<1>1. \A i \in m .. n : s[i] \in S
  BY LenProperties, ElementOfSeq
<1>2. /\ t \in Seq(S)
      /\ Len(t) = IF m <= n THEN n - m + 1 ELSE 0
      /\ \A i \in 1 .. n - m + 1 : t[i] = s[m + i - 1]
  BY <1>1, SubSeqProperties
<1>3. DOMAIN t = 1 .. n - m + 1
  BY <1>2, LenProperties
<1> HIDE DEF t
<1>4. ASSUME NEW x \in L!Range(t) PROVE x \in {s[i] : i \in m .. n}
  <2>1. PICK i \in 1 .. n - m + 1 : x = t[i]
    BY <1>3 DEF L!Range
  <2>2. x = s[m + i - 1] /\ m + i - 1 \in m .. n
    BY <1>2, <2>1
  <2> QED BY <2>2
<1>5. ASSUME NEW i \in m .. n PROVE s[i] \in L!Range(t)
  <2>1. i - m + 1 \in 1 .. n - m + 1 /\ m + (i - m + 1) - 1 = i
    OBVIOUS
  <2>2. t[i - m + 1] = s[i]
    BY <1>2, <2>1
  <2> QED BY <1>3, <2>1, <2>2 DEF L!Range
<1>6. L!Range(t) = {s[i] : i \in m .. n}
  BY <1>4, <1>5
<1> QED BY <1>2, <1>6 DEF t

----------------------------------------------------------------------------
USE LedgerIsBounded DEF L!PersistenceAssumption

\* The entries older than TTL_MS.
Expired == {entries[i] : i \in 1 .. stale}

LEMMA PartFacts ==
  ASSUME NEW es \in Seq(Key), NEW st \in Nat, st <= Len(es)
  PROVE  /\ SubSeq(es, st + 1, Len(es)) \in Seq(Key)
         /\ L!Range(SubSeq(es, st + 1, Len(es))) = {es[i] : i \in st + 1 .. Len(es)}
         /\ L!Range(SubSeq(es, st + 1, Len(es))) \subseteq L!Range(es)
         /\ L!Range(es) \subseteq
              L!Range(SubSeq(es, st + 1, Len(es))) \cup {es[i] : i \in 1 .. st}
<1>1. Len(es) \in Nat /\ DOMAIN es = 1 .. Len(es)
  BY LenProperties
<1>2. /\ st + 1 \in Nat /\ 1 <= st + 1 /\ st + 1 <= Len(es) + 1
      /\ Len(es) <= Len(es)
  BY <1>1
<1>3. /\ SubSeq(es, st + 1, Len(es)) \in Seq(Key)
      /\ L!Range(SubSeq(es, st + 1, Len(es))) = {es[i] : i \in st + 1 .. Len(es)}
  BY <1>1, <1>2, PartOfSeq
<1>4. \A i \in st + 1 .. Len(es) : i \in DOMAIN es
  BY <1>1
<1>5. \A i \in DOMAIN es : i \in st + 1 .. Len(es) \/ i \in 1 .. st
  BY <1>1
<1> QED BY <1>3, <1>4, <1>5 DEF L!Range

LEMMA YoungFacts ==
  ASSUME L!TypeOK
  PROVE  /\ L!Young \in Seq(Key)
         /\ L!Range(L!Young) = {entries[i] : i \in stale + 1 .. Len(entries)}
         /\ L!Range(L!Young) \subseteq L!Range(entries)
         /\ L!Range(entries) \subseteq L!Range(L!Young) \cup Expired
<1>1. entries \in Seq(Key) /\ Len(entries) \in Nat /\ stale \in Nat /\ stale <= Len(entries)
  BY LenProperties DEF L!TypeOK
<1> QED BY <1>1, PartFacts DEF L!Young, Expired

\* What turns old does not turn young again.
LEMMA ExpiryShrinks ==
  ASSUME L!TypeOK, L!EntriesExpire
  PROVE  L!Range(L!Young') \subseteq L!Range(L!Young)
<1>1. /\ entries \in Seq(Key) /\ Len(entries) \in Nat /\ stale \in Nat
      /\ entries' = entries /\ stale' \in Nat /\ stale' <= Len(entries) /\ stale < stale'
  BY LenProperties DEF L!TypeOK, L!EntriesExpire
<1>2. L!Range(L!Young') = {entries[i] : i \in stale' + 1 .. Len(entries)}
  BY <1>1, PartFacts DEF L!Young
<1>a. \A a, b, n \in Nat : a < b => \A i \in b + 1 .. n : i \in a + 1 .. n
  OBVIOUS
<1>3. \A i \in stale' + 1 .. Len(entries) : i \in stale + 1 .. Len(entries)
  BY <1>1, <1>a
<1> QED BY <1>2, <1>3, YoungFacts

LEMMA NothingIsEmpty ==
  Len(<< >>) = 0 /\ SubSeq(<< >>, 0 + 1, 0) = << >> /\ L!Range(<< >>) = {}
BY DEF L!Range

LEMMA InitTypeOK == L!Init => L!TypeOK
<1>1. /\ << >> \in Seq(Key) /\ {} \subseteq Key
      /\ L!NoRows \in [Group -> Nat] /\ L!NoTally \in [Key -> Nat]
  BY DEF L!NoRows, L!NoTally
<1>2. L!Idle \in [pc : {"idle", "mkdir", "written", "failed"}, data : Seq(Key)]
  BY <1>1 DEF L!Idle
<1>3. 0 \in 0 .. Len(<< >>)
  OBVIOUS
<1> QED BY <1>1, <1>2, <1>3 DEF L!Init, L!TypeOK

\* What loadCountedLedger keeps of the file, and that the rest is gone.
LEMMA LoadFacts ==
  ASSUME L!TypeOK, L!Boot
  PROVE  /\ entries' \in Seq(Key) /\ counted' \in Seq(Key) /\ gone' \subseteq Key
         /\ gone \subseteq gone'
         /\ L!Range(ledgerFile) \subseteq L!Range(entries') \cup gone'
         /\ L!Range(entries') \subseteq L!Range(counted') \cup gone'
         /\ L!Range(counted') \subseteq L!Range(entries')
         /\ L!Range(entries') \subseteq L!Range(ledgerFile)
<1>t. ledgerFile \in Seq(Key) /\ gone \subseteq Key
  BY DEF L!TypeOK
<1>1. CASE \E n \in 0 .. Len(ledgerFile) :
             /\ entries' = SubSeq(ledgerFile, n + 1, Len(ledgerFile))
             /\ gone' = gone \cup L!Range(SubSeq(ledgerFile, 1, n))
                       \cup (L!Range(entries') \ L!Range(L!FifoTrim(entries', Cap)))
  <2>1. PICK n \in 0 .. Len(ledgerFile) :
             /\ entries' = SubSeq(ledgerFile, n + 1, Len(ledgerFile))
             /\ gone' = gone \cup L!Range(SubSeq(ledgerFile, 1, n))
                       \cup (L!Range(entries') \ L!Range(L!FifoTrim(entries', Cap)))
    BY <1>1
  <2>2. /\ Len(ledgerFile) \in Nat /\ DOMAIN ledgerFile = 1 .. Len(ledgerFile)
        /\ n \in Nat /\ n <= Len(ledgerFile)
    BY <1>t, LenProperties
  <2>3. /\ entries' \in Seq(Key)
        /\ L!Range(entries') = {ledgerFile[i] : i \in n + 1 .. Len(ledgerFile)}
    BY <1>t, <2>1, <2>2, PartOfSeq
  <2>4. /\ SubSeq(ledgerFile, 1, n) \in Seq(Key)
        /\ L!Range(SubSeq(ledgerFile, 1, n)) = {ledgerFile[i] : i \in 1 .. n}
    <3>1. 1 \in Nat /\ n \in Nat /\ 1 <= 1 /\ 1 <= n + 1 /\ n <= Len(ledgerFile)
      BY <2>2
    <3> DEFINE one == 1
    <3>2. one \in Nat /\ one <= n + 1 /\ 1 <= one
      BY <3>1
    <3> HIDE DEF one
    <3>3. /\ SubSeq(ledgerFile, one, n) \in Seq(Key)
          /\ L!Range(SubSeq(ledgerFile, one, n)) = {ledgerFile[i] : i \in one .. n}
      BY <1>t, <3>1, <3>2, PartOfSeq
    <3> QED BY <3>3 DEF one
  <2>5. \A i \in DOMAIN ledgerFile : i \in 1 .. n \/ i \in n + 1 .. Len(ledgerFile)
    BY <2>2
  <2>6. L!Range(ledgerFile) \subseteq L!Range(entries') \cup L!Range(SubSeq(ledgerFile, 1, n))
    BY <2>3, <2>4, <2>5 DEF L!Range
  <2>e. L!Range(entries') \subseteq L!Range(ledgerFile)
    <3>1. \A i \in n + 1 .. Len(ledgerFile) : i \in DOMAIN ledgerFile
      BY <2>2
    <3> QED BY <2>3, <3>1 DEF L!Range
  <2>7. /\ counted' = L!FifoTrim(entries', Cap) /\ counted' \in Seq(Key)
        /\ L!Range(counted') \subseteq L!Range(entries')
    BY <2>3, FifoTrimProperties DEF L!Boot
  <2>8. L!Range(entries') \subseteq Key /\ L!Range(SubSeq(ledgerFile, 1, n)) \subseteq Key
    BY <2>3, <2>4, RangeInType
  <2> QED BY <1>t, <2>1, <2>3, <2>e, <2>6, <2>7, <2>8
<1>2. CASE entries' = << >> /\ gone' = gone \cup L!Range(ledgerFile)
  <2>1. entries' \in Seq(Key) /\ L!Range(entries') = {} /\ L!Range(ledgerFile) \subseteq Key
    BY <1>t, <1>2, RangeInType DEF L!Range
  <2>2. counted' \in Seq(Key) /\ L!Range(counted') \subseteq L!Range(entries')
    BY <2>1, FifoTrimProperties DEF L!Boot
  <2> QED BY <1>t, <1>2, <2>1, <2>2
<1> QED BY <1>1, <1>2 DEF L!Boot, L!LoadCountedLedger

\* The cap takes the oldest entries, so what is young after an append was
\* young before or is the new key.
LEMMA AppendFacts ==
  ASSUME L!TypeOK, NEW k \in Key, L!AppendLedger(k)
  PROVE  /\ entries' \in Seq(Key) /\ stale' \in 0 .. Len(entries')
         /\ dirty' \in BOOLEAN /\ timer' \in BOOLEAN
         /\ k \in L!Range(entries')
         /\ \A i \in stale' + 1 .. Len(entries') :
              entries'[i] \in L!Range(L!Young) \cup {k}
<1>t. /\ entries \in Seq(Key) /\ stale \in Nat /\ stale <= Len(entries)
      /\ Len(entries) \in Nat /\ DOMAIN entries = 1 .. Len(entries)
      /\ dirty \in BOOLEAN /\ timer \in BOOLEAN
  BY LenProperties DEF L!TypeOK
<1>y. L!Range(L!Young) = {entries[i] : i \in stale + 1 .. Len(entries)}
  BY YoungFacts
<1>1. CASE k \in L!Range(entries)
  <2>1. entries' = entries /\ stale' = stale /\ dirty' = dirty /\ timer' = timer
    BY <1>1 DEF L!AppendLedger, L!ledger
  <2> QED BY <1>1, <1>t, <1>y, <2>1
<1>2. CASE k \notin L!Range(entries)
  <2> DEFINE a == Append(entries, k)
             n == Len(entries) + 1
             d == n - Len(entries')
  <2>1. /\ entries' = L!FifoTrim(a, Cap) /\ dirty' = TRUE /\ timer' = TRUE
        /\ stale' = IF stale > d THEN stale - d ELSE 0
    BY <1>2 DEF L!AppendLedger, L!FifoAdd
  <2>2. /\ a \in Seq(Key) /\ Len(a) = n /\ n \in Nat /\ a[n] = k
        /\ \A i \in 1 .. Len(entries) : a[i] = entries[i]
    BY <1>t, LenProperties
  <2>3. k \in L!Range(entries') /\ entries' \in Seq(Key)
    <3>1. entries' = L!FifoAdd(entries, k, Cap)
      BY <1>2 DEF L!AppendLedger
    <3> QED BY <1>t, <3>1, FifoAddProperties
  <2> HIDE DEF a
  <2>4. /\ Len(entries') \in Nat /\ d \in Nat
        /\ \A i \in 1 .. Len(entries') : i + d \in 1 .. n /\ entries'[i] = a[i + d]
    <3>1. CASE n <= Cap
      <4>1. entries' = a
        BY <2>1, <2>2, <3>1 DEF L!FifoTrim
      <4> QED BY <2>2, <4>1
    <3>2. CASE n > Cap
      <4> DEFINE m == n - Cap + 1
      <4>1. m \in 1 .. n /\ Cap \in Nat \ {0} /\ m \in Nat
        BY <2>2, <3>2
      <4>2. entries' = SubSeq(a, m, n)
        BY <2>1, <2>2, <3>2 DEF L!FifoTrim
      <4>3. \A i \in m .. n : a[i] \in Key
        BY <2>2, <4>1, ElementOfSeq
      <4>4. m = n - Cap + 1
        OBVIOUS
      <4> HIDE DEF m
      <4>5. /\ Len(entries') = n - m + 1
            /\ \A i \in 1 .. n - m + 1 : entries'[i] = a[m + i - 1]
        BY <2>2, <4>1, <4>2, <4>3, SubSeqProperties
      <4>6. Len(entries') = Cap /\ d = n - Cap /\ n - m + 1 = Cap
        BY <2>2, <4>1, <4>4, <4>5
      <4>7. ASSUME NEW i \in 1 .. Len(entries')
            PROVE  i + d \in 1 .. n /\ entries'[i] = a[i + d]
        <5>1. m + i - 1 = i + d /\ i \in 1 .. n - m + 1 /\ i + d \in 1 .. n
          BY <2>2, <3>2, <4>1, <4>4, <4>6
        <5> QED BY <4>5, <5>1
      <4> QED BY <2>2, <3>2, <4>1, <4>6, <4>7
    <3> QED BY <2>2, <3>1, <3>2
  <2> HIDE DEF d
  <2>5. stale' \in 0 .. Len(entries')
    <3>1. stale <= Len(entries') + d - 1 /\ Len(entries') + d = n
      BY <1>t, <2>2, <2>4 DEF d
    <3> QED BY <1>t, <2>1, <2>4, <3>1
  <2>6. ASSUME NEW i \in stale' + 1 .. Len(entries')
        PROVE  entries'[i] \in L!Range(L!Young) \cup {k}
    <3>1. i \in 1 .. Len(entries') /\ i + d \in stale + 1 .. n
      <4>a. stale' \in Nat
        BY <2>5
      <4>n. \A p, q \in Nat : \A j \in p + 1 .. q : j \in 1 .. q
        OBVIOUS
      <4>b. i \in 1 .. Len(entries')
        BY <2>4, <4>a, <4>n
      <4>1. i \in 1 .. Len(entries') /\ i + d \in 1 .. n
        BY <2>4, <4>b
      <4> QED BY <1>t, <2>1, <2>4, <4>1
    <3>2. entries'[i] = a[i + d]
      BY <2>4, <3>1
    <3>3. CASE i + d = n
      BY <2>2, <3>2, <3>3
    <3>4. CASE i + d # n
      <4>1. i + d \in stale + 1 .. Len(entries) /\ i + d \in 1 .. Len(entries)
        BY <1>t, <2>2, <3>1, <3>4
      <4> QED BY <1>y, <2>2, <3>2, <4>1
    <3> QED BY <3>3, <3>4
  <2> QED BY <2>1, <2>3, <2>5, <2>6
<1> QED BY <1>1, <1>2

LEMMA NextTypeOK == L!TypeOK /\ [L!Next]_(L!vars) => L!TypeOK'
<1> SUFFICES ASSUME L!TypeOK, [L!Next]_(L!vars) PROVE L!TypeOK'
  OBVIOUS
<1> USE DEF L!disk, L!Idle
<1>0. /\ << >> \in Seq(Key) /\ L!NoRows \in [Group -> Nat]
      /\ L!NoTally \in [Key -> Nat] /\ 0 \in 0 .. Len(<< >>)
  BY DEF L!NoRows, L!NoTally
<1>y. /\ L!Young \in Seq(Key) /\ L!Range(entries) \subseteq Key
      /\ L!Range(counted) \subseteq Key /\ Len(entries) \in Nat
  BY YoungFacts, RangeInType, LenProperties DEF L!TypeOK
<1>1. CASE L!Boot
  <2>1. /\ entries' \in Seq(Key) /\ counted' \in Seq(Key) /\ gone' \subseteq Key
        /\ Len(entries') \in Nat
    BY <1>1, LoadFacts, LenProperties
  <2>2. stale' \in 0 .. Len(entries')
    BY <1>1, <2>1 DEF L!Boot
  <2> QED BY <1>0, <1>1, <2>1, <2>2 DEF L!Boot, L!TypeOK
<1>2. ASSUME NEW k \in Key, L!RecordMint(k) PROVE L!TypeOK'
  <2>1. /\ entries' \in Seq(Key) /\ stale' \in 0 .. Len(entries')
        /\ dirty' \in BOOLEAN /\ timer' \in BOOLEAN
    BY <1>2, AppendFacts DEF L!RecordMint
  <2>2. counted' \in Seq(Key)
    BY <1>2, FifoAddProperties DEF L!RecordMint, L!TypeOK
  <2>4. gone' \subseteq Key
    BY <1>2, <1>y DEF L!RecordMint, L!TypeOK
  <2>5. observed' \in [Group -> Nat] /\ tally' \in [Key -> Nat]
    BY <1>2 DEF L!RecordMint, L!TypeOK
  <2>6. UNCHANGED <<up, flush, lastSaved, ledgerFile, snapFile, snapTally>>
    BY <1>2 DEF L!RecordMint
  <2> QED BY <2>1, <2>2, <2>4, <2>5, <2>6 DEF L!TypeOK
<1>a. CASE L!EntriesExpire
  <2>1. stale' \in 0 .. Len(entries')
    BY <1>a, <1>y DEF L!EntriesExpire, L!TypeOK
  <2> QED BY <1>a, <2>1 DEF L!EntriesExpire, L!TypeOK
<1>3. CASE L!FlushTimerFires
  <2>1. [pc |-> "mkdir", data |-> << >>] \in
          [pc : {"idle", "mkdir", "written", "failed"}, data : Seq(Key)]
    BY <1>0
  <2> QED BY <1>3, <2>1 DEF L!FlushTimerFires, L!TypeOK, L!ledger
<1>4. CASE L!FlushWrites
  <2>1. flush' \in [pc : {"idle", "mkdir", "written", "failed"}, data : Seq(Key)]
    BY <1>4, <1>y DEF L!FlushWrites
  <2> QED BY <1>4, <2>1 DEF L!FlushWrites, L!TypeOK, L!ledger
<1>5. CASE L!FlushRenames
  BY <1>0, <1>5 DEF L!FlushRenames, L!TypeOK, L!ledger
<1>6. CASE L!FlushFails
  BY <1>0, <1>6 DEF L!FlushFails, L!TypeOK, L!ledger
<1>7. CASE L!SnapshotTick
  BY <1>7 DEF L!SnapshotTick, L!TypeOK, L!ledger
<1>8. CASE L!StopBySignal
  <2>1. ledgerFile' \in Seq(Key)
    BY <1>8, <1>y DEF L!StopBySignal, L!FlushCountedLedgerNow, L!TypeOK
  <2> QED BY <1>0, <1>8, <1>y, <2>1 DEF L!StopBySignal, L!MemoryIsGone, L!TypeOK
<1>9. CASE L!Kill
  BY <1>0, <1>9, <1>y DEF L!Kill, L!MemoryIsGone, L!TypeOK
<1>10. CASE UNCHANGED L!vars
  BY <1>10 DEF L!vars, L!memory, L!ledger, L!TypeOK
<1> QED BY <1>1, <1>2, <1>a, <1>3, <1>4, <1>5, <1>6, <1>7, <1>8, <1>9, <1>10 DEF L!Next

\* Every reachable state is well typed.
THEOREM LedgerTypeCorrect == L!Spec => []L!TypeOK
BY InitTypeOK, NextTypeOK, PTL DEF L!Spec

----------------------------------------------------------------------------
KeysInv == L!TypeOK /\ L!NoForgottenKey /\ L!FlushCoversEntries

LEMMA InitKeys == L!Init => KeysInv
<1> SUFFICES ASSUME L!Init PROVE L!NoForgottenKey /\ L!FlushCoversEntries
  BY InitTypeOK DEF KeysInv
<1>1. L!Range(L!Young) = {}
  BY NothingIsEmpty DEF L!Init, L!Young
<1> QED BY <1>1 DEF L!Init, L!NoForgottenKey, L!FlushCoversEntries, L!Idle

LEMMA NextKeys == KeysInv /\ [L!Next]_(L!vars) => KeysInv'
<1> SUFFICES ASSUME KeysInv, [L!Next]_(L!vars)
             PROVE  (L!NoForgottenKey /\ L!FlushCoversEntries)'
  BY NextTypeOK DEF KeysInv
<1> USE DEF KeysInv, L!NoForgottenKey, L!FlushCoversEntries, L!Idle, L!Flushing, L!disk
<1>u. UNCHANGED L!ledger => L!Young' = L!Young
  BY DEF L!ledger, L!Young
<1>1. CASE L!Boot
  <2>1. /\ entries' \in Seq(Key) /\ Len(entries') \in Nat /\ stale' = 0
        /\ L!Range(entries') \subseteq L!Range(ledgerFile)
    BY <1>1, LoadFacts, LenProperties DEF L!Boot
  <2>2. L!Range(L!Young') \subseteq L!Range(entries')
    BY <2>1, PartFacts DEF L!Young
  <2> QED BY <1>1, <2>1, <2>2 DEF L!Boot
<1>2. ASSUME NEW k \in Key, L!RecordMint(k)
      PROVE  (L!NoForgottenKey /\ L!FlushCoversEntries)'
  BY <1>2, <1>u DEF L!RecordMint, L!AppendLedger
<1>a. CASE L!EntriesExpire
  <2>1. L!Range(L!Young') \subseteq L!Range(L!Young)
    BY <1>a, ExpiryShrinks
  <2> QED BY <1>a, <2>1 DEF L!EntriesExpire
<1>3. CASE L!FlushTimerFires
  BY <1>3, <1>u DEF L!FlushTimerFires, L!TypeOK
<1>4. CASE L!FlushWrites
  BY <1>4, <1>u DEF L!FlushWrites, L!TypeOK
<1>5. CASE L!FlushRenames
  BY <1>5, <1>u DEF L!FlushRenames, L!TypeOK
<1>6. CASE L!FlushFails
  BY <1>6, <1>u DEF L!FlushFails
<1>7. CASE L!SnapshotTick
  BY <1>7, <1>u DEF L!SnapshotTick
<1>8. CASE L!StopBySignal \/ L!Kill
  <2>1. entries' = << >> /\ stale' = 0 /\ flush'.pc = "idle"
    BY <1>8 DEF L!StopBySignal, L!Kill, L!MemoryIsGone
  <2>2. L!Range(L!Young') = {}
    BY <2>1, NothingIsEmpty DEF L!Young
  <2> QED BY <2>1, <2>2
<1>10. CASE UNCHANGED L!vars
  BY <1>10, <1>u DEF L!vars, L!memory
<1> QED BY <1>1, <1>2, <1>a, <1>3, <1>4, <1>5, <1>6, <1>7, <1>8, <1>10 DEF L!Next

\* A running process never forgets to write a counted key of the last TTL_MS,
\* under every fault.
THEOREM KeysAreNotForgotten == L!Spec => []NoForgottenKey
<1>1. KeysInv => NoForgottenKey
  BY DEF KeysInv, NoForgottenKey
<1> QED BY <1>1, InitKeys, NextKeys, PTL DEF L!Spec

----------------------------------------------------------------------------
OnceInv == KeysInv /\ L!CountedOnce

LEMMA InitOnce == L!Init => OnceInv
BY InitKeys DEF L!Init, OnceInv, L!CountedOnce, L!NoTally, L!Idle

LEMMA NextOnce == OnceInv /\ [L!Next]_(L!vars) => OnceInv'
<1> SUFFICES ASSUME OnceInv, [L!Next]_(L!vars) PROVE L!CountedOnce'
  BY NextKeys DEF OnceInv
<1> USE DEF OnceInv, L!CountedOnce, L!Flushing, L!disk, L!ledger
<1>t. L!TypeOK
  BY DEF KeysInv
<1>e. L!Range(<< >>) = {}
  BY DEF L!Range
<1>1. CASE L!Boot
  <2>1. /\ up' /\ ~up /\ tally' = snapTally /\ snapTally' = snapTally
        /\ ledgerFile' = ledgerFile /\ flush'.data = << >>
    BY <1>1 DEF L!Boot, L!Idle
  <2> QED BY <1>1, <1>t, <1>e, <2>1, LoadFacts
<1>2. ASSUME NEW k \in Key, L!RecordMint(k) PROVE L!CountedOnce'
  <2>1. /\ k \in L!Range(counted')
        /\ L!Range(counted') \subseteq L!Range(counted) \cup {k}
    BY <1>2, <1>t, FifoAddProperties DEF L!RecordMint, L!TypeOK
  <2>2. k \in L!Range(entries')
    BY <1>2, <1>t, AppendFacts DEF L!RecordMint
  <2>3. /\ gone \subseteq gone'
        /\ L!Range(counted) \subseteq L!Range(counted') \cup gone'
        /\ L!Range(entries) \subseteq L!Range(entries') \cup gone'
        /\ up /\ up' /\ flush' = flush /\ ledgerFile' = ledgerFile
        /\ snapTally' = snapTally
    BY <1>2 DEF L!RecordMint
  <2>4. k \notin gone => tally[k] = 0
    BY <1>2 DEF L!RecordMint
  <2>5. \A j \in Key : tally'[j] = IF j = k THEN tally[k] + 1 ELSE tally[j]
    BY <1>2, <1>t DEF L!RecordMint, L!TypeOK
  <2>6. \A j \in Key \ gone' : tally'[j] <= 1 /\ snapTally'[j] <= 1
    BY <2>3, <2>4, <2>5
  <2>7. \A j \in Key \ gone' : tally'[j] # 0 => j \in L!Range(counted')
    BY <2>1, <2>3, <2>5
  <2>8. \A j \in Key \ gone' : snapTally'[j] # 0 => j \in L!Range(entries')
    BY <2>3
  <2>9. /\ L!Range(counted') \subseteq L!Range(entries') \cup gone'
        /\ L!Range(ledgerFile') \subseteq L!Range(entries') \cup gone'
        /\ L!Range((flush.data)') \subseteq L!Range(entries') \cup gone'
    BY <2>1, <2>2, <2>3
  <2> QED BY <2>3, <2>6, <2>7, <2>8, <2>9
<1>a. CASE L!EntriesExpire
  BY <1>a DEF L!EntriesExpire
<1>3. CASE L!FlushTimerFires
  BY <1>3, <1>e DEF L!FlushTimerFires
<1>4. CASE L!FlushWrites
  BY <1>4, <1>t, YoungFacts DEF L!FlushWrites
<1>5. CASE L!FlushRenames
  BY <1>5, <1>e DEF L!FlushRenames, L!Idle
<1>6. CASE L!FlushFails
  BY <1>6, <1>e DEF L!FlushFails, L!Idle
<1>7. CASE L!SnapshotTick
  BY <1>7 DEF L!SnapshotTick
<1>8. CASE L!StopBySignal \/ L!Kill
  <2>1. /\ up /\ ~up' /\ entries' = << >> /\ tally' = L!NoTally
        /\ snapTally' = snapTally
        /\ gone' = gone \cup (L!Range(entries) \ L!Range(ledgerFile'))
    BY <1>8 DEF L!StopBySignal, L!Kill, L!MemoryIsGone
  <2> QED BY <2>1 DEF L!NoTally
<1>10. CASE UNCHANGED L!vars
  BY <1>10 DEF L!vars, L!memory
<1> QED BY <1>1, <1>2, <1>a, <1>3, <1>4, <1>5, <1>6, <1>7, <1>8, <1>10 DEF L!Next

\* A mint whose key never left the dedupe window is counted at most once, over
\* any number of restarts and under every fault.
THEOREM CountedAtMostOnce == L!Spec => []NoDoubleCount
<1>1. OnceInv => NoDoubleCount
  BY DEF OnceInv, L!CountedOnce, L!NoDoubleCount, NoDoubleCount
<1> QED BY <1>1, InitOnce, NextOnce, PTL DEF L!Spec

----------------------------------------------------------------------------
\* Only a kill, a failed write or a stop in the middle of a flush ends a
\* process with a key of the last TTL_MS unsaved: flushCountedLedgerNow at exit
\* covers every clean signal.
THEOREM CleanStopsKeepKeys == L!Spec => L!CleanStopsLoseNothing
<1>1. KeysInv /\ Faults = {} /\ [L!Next]_(L!vars) =>
        [up /\ ~up' => L!Range(L!Young) \subseteq L!Range(ledgerFile')]_(L!vars)
  <2> SUFFICES ASSUME KeysInv, Faults = {}, [L!Next]_(L!vars), up, ~up'
               PROVE  L!Range(L!Young) \subseteq L!Range(ledgerFile')
    OBVIOUS
  <2>1. CASE L!StopBySignal
    BY <2>1 DEF L!StopBySignal, L!FlushCountedLedgerNow, KeysInv, L!NoForgottenKey
  <2>2. CASE L!Kill
    BY <2>2 DEF L!Kill
  <2> QED BY <2>1, <2>2 DEF L!Next, L!Boot, L!RecordMint, L!EntriesExpire,
                L!FlushTimerFires, L!FlushWrites, L!FlushRenames, L!FlushFails,
                L!SnapshotTick, L!vars
<1>2. CASE Faults = {}
  BY <1>1, <1>2, InitKeys, NextKeys, PTL DEF L!Spec, L!CleanStopsLoseNothing
<1>3. CASE Faults # {}
  BY <1>3 DEF L!CleanStopsLoseNothing
<1> QED BY <1>2, <1>3

----------------------------------------------------------------------------
\* A flush in flight writes no young key less than the file has.
WriteKeepsFile ==
  flush.pc = "written" =>
    L!Range(ledgerFile) \cap L!Range(L!Young) \subseteq L!Range(flush.data) \cup gone

\* A key that reached the file stays there, unless a cap or the TTL pushed it
\* out, or a process did not read the file it was in.
FileKeeps == L!Range(ledgerFile) \subseteq L!Range(ledgerFile') \cup Expired \cup gone'

DiskInv == OnceInv /\ WriteKeepsFile

LEMMA NextDisk == DiskInv /\ [L!Next]_(L!vars) => WriteKeepsFile' /\ FileKeeps
<1> SUFFICES ASSUME DiskInv, [L!Next]_(L!vars) PROVE WriteKeepsFile' /\ FileKeeps
  OBVIOUS
<1> USE DEF WriteKeepsFile, FileKeeps, L!Idle, L!disk
<1>t. L!TypeOK
  BY DEF DiskInv, OnceInv, KeysInv
<1>i. /\ WriteKeepsFile
      /\ up => L!Range(ledgerFile) \subseteq L!Range(entries) \cup gone
  BY DEF DiskInv, OnceInv, L!CountedOnce
<1>y. L!Range(entries) \subseteq L!Range(L!Young) \cup Expired
  BY <1>t, YoungFacts
<1>u. UNCHANGED L!ledger => L!Young' = L!Young
  BY DEF L!ledger, L!Young
<1>1. CASE L!Boot
  BY <1>1 DEF L!Boot
<1>2. ASSUME NEW k \in Key, L!RecordMint(k) PROVE WriteKeepsFile' /\ FileKeeps
  <2>1. up /\ flush' = flush /\ ledgerFile' = ledgerFile /\ gone \subseteq gone'
    BY <1>2 DEF L!RecordMint
  <2>2. CASE k \in L!Range(entries)
    <3>1. UNCHANGED L!ledger
      BY <1>2, <2>2 DEF L!RecordMint, L!AppendLedger
    <3> QED BY <1>i, <1>u, <2>1, <3>1
  <2>3. CASE k \notin L!Range(entries)
    <3>1. L!Range(L!Young') \subseteq L!Range(L!Young) \cup {k}
      <4>1. /\ entries' \in Seq(Key) /\ stale' \in Nat /\ stale' <= Len(entries')
            /\ \A i \in stale' + 1 .. Len(entries') :
                 entries'[i] \in L!Range(L!Young) \cup {k}
        BY <1>2, <1>t, AppendFacts, LenProperties DEF L!RecordMint
      <4>2. L!Range(L!Young') = {entries'[i] : i \in stale' + 1 .. Len(entries')}
        BY <4>1, PartFacts DEF L!Young
      <4> QED BY <4>1, <4>2
    <3>2. k \in L!Range(ledgerFile) => k \in gone
      BY <1>i, <2>1, <2>3
    <3> QED BY <1>i, <2>1, <3>1, <3>2
  <2> QED BY <2>2, <2>3
<1>a. CASE L!EntriesExpire
  BY <1>a, <1>i, <1>t, ExpiryShrinks DEF L!EntriesExpire
<1>3. CASE L!FlushTimerFires
  BY <1>3, <1>i, <1>u DEF L!FlushTimerFires
<1>4. CASE L!FlushWrites
  BY <1>4, <1>u DEF L!FlushWrites
<1>5. CASE L!FlushRenames
  BY <1>5, <1>i, <1>y DEF L!FlushRenames
<1>6. CASE L!FlushFails
  BY <1>6 DEF L!FlushFails
<1>7. CASE L!SnapshotTick
  BY <1>7, <1>i, <1>u DEF L!SnapshotTick
<1>8. CASE L!StopBySignal
  BY <1>8, <1>i, <1>y DEF L!StopBySignal, L!FlushCountedLedgerNow, L!MemoryIsGone
<1>9. CASE L!Kill
  BY <1>9 DEF L!Kill, L!MemoryIsGone
<1>10. CASE UNCHANGED L!vars
  BY <1>10, <1>i, <1>u DEF L!vars, L!memory
<1> QED BY <1>1, <1>2, <1>a, <1>3, <1>4, <1>5, <1>6, <1>7, <1>8, <1>9, <1>10 DEF L!Next

\* Whatever is killed, fails or restarts, a write of the ledger (flush,
\* flushCountedLedgerNow) takes no key out of the file but those that are older
\* than TTL_MS or have left the dedupe window already: a restart never replaces
\* the file with what a shorter memory holds.
THEOREM LedgerFileKeepsKeys == L!Spec => [][FileKeeps]_(L!vars)
<1>1. L!Init => DiskInv
  BY InitOnce DEF L!Init, DiskInv, WriteKeepsFile, L!Idle
<1>2. DiskInv /\ [L!Next]_(L!vars) => DiskInv'
  BY NextOnce, NextDisk DEF DiskInv
<1> QED BY <1>1, <1>2, NextDisk, PTL DEF L!Spec
=============================================================================
