---------------------------- MODULE MCSaleInsert ----------------------------
(* Two sales of one mint. *)
EXTENDS SaleInsert

CONSTANTS s1, s2, m1

MCSale == {s1, s2}
MCMint == {m1}
MCMintOf == [s \in MCSale |-> m1]

Sort(i, k, b) == [identity |-> i, known |-> k, belowMin |-> b]
MCKinds == {Sort("clean", FALSE, FALSE), Sort("clean", TRUE, TRUE),
            Sort("clean", FALSE, TRUE), Sort("enrichment", FALSE, TRUE),
            Sort("enrichment", FALSE, FALSE), Sort("enrichment", TRUE, FALSE),
            Sort("imageRetry", FALSE, FALSE)}
============================================================================
