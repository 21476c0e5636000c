------------------------ MODULE MCMintPersistence ------------------------
(* Counting across restarts (MintPersistence): three mints in two rows.     *)

CONSTANTS Key, Group, GroupOf, Cap, MaxCount, Faults
VARIABLES up, counted, observed, entries, stale, dirty, timer, flush, ledgerFile, snapFile,
          lastSaved, tally, snapTally, gone

L == INSTANCE MintPersistence

ASSUME LedgerIsBounded == L!PersistenceAssumption

LedgerSpec == L!FairSpec

\* A counted key of the last TTL_MS that is not on disk is due to be written (flush).
NoForgottenKey == L!NoForgottenKey

\* A key that never left the dedupe window is counted once (recordMint).
NoDoubleCount == L!NoDoubleCount

\* Every counted key reaches the file while it is young (appendCountedLedger).
LedgerCatchesUp == L!LedgerCatchesUp

CONSTANTS k1, k2, k3, g1, g2

MCKey == {k1, k2, k3}
MCGroup == {g1, g2}
MCGroupOf == [k \in MCKey |-> IF k = k3 THEN g2 ELSE g1]
===========================================================================
