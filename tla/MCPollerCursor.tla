--------------------------- MODULE MCPollerCursor ---------------------------
EXTENDS PollerCursor
=============================================================================
