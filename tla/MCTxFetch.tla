----------------------------- MODULE MCTxFetch -----------------------------
EXTENDS TxFetch
=============================================================================
