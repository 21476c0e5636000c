----------------------------- MODULE MCMintFeed -----------------------------
(* The two kinds of collections with a way of their own into ACTIVE: cNFT   *)
(* drops of LaunchMyNFT and Core drops of a recognized launchpad.  Three    *)
(* tiers, reached by the mints the 5-minute window can hold here.           *)
EXTENDS MintFeed

LmnftEvents == [program : {"bubblegum"}, label : {"LaunchMyNFT", "Other"}, core : {FALSE}]
CoreEvents == [program : {"mpl_core"}, label : {"Other"}, core : BOOLEAN]
AllEvents == LmnftEvents \cup CoreEvents

MCTiers == << [maxPer5m |-> 1, keepEvery |-> 1], [maxPer5m |-> 3, keepEvery |-> 3],
              [maxPer5m |-> 5, keepEvery |-> 4] >>
=============================================================================
