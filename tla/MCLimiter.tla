----------------------------- MODULE MCLimiter -----------------------------
(* Four calls and two slots. *)
EXTENDS Limiter
CONSTANTS t1, t2, t3, t4
=============================================================================
