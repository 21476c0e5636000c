----------------------------- MODULE MCListings -----------------------------
(***************************************************************************)
(* The store of one collection's listings (ListingsStore), instanced so    *)
(* that a module about other pages too can name it.                        *)
(***************************************************************************)
CONSTANTS Mints, Owners, Pool, Sources, NoListing, MaxMeRetries, MaxMoves, MaxFaults
VARIABLES owner, listed, upstream, news, rows, suppressed, warm, fetched, snapshot,
          tensorLast, tensorPending, late, meRetry, tab, moves, faults

Store == INSTANCE ListingsStore

ASSUME ListingsAreBounded == Store!ListingsAssumption

ListingsSpec == Store!FairSpec

\* No row of a mint whose sale was heard and still suppresses it (add).
SoldStaysAway == Store!SoldStaysAway

\* The store and the page come to show what is listed (ensureFresh).
PageConverges == Store!PageConverges
=============================================================================
