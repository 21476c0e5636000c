------------------------------ MODULE MCSseHub ------------------------------
(* One page that comes from two addresses and leaves dead connections       *)
(* behind.  A behaviour has changes of the row, or counts, or patches of    *)
(* the enrichment: what the reducer keeps of them is apart, and all take    *)
(* one queue and one connection.  The floor, and only it, is found by the   *)
(* image retry.                                                             *)
EXTENDS SseHub

OneTopic ==
  LET row == version > 0
      counts == \E s \in Sales : sale[s] = "counted"
      patches == \E s \in Sales : enriched[s].step # "none"
  IN  ~ (row /\ counts) /\ ~ (row /\ patches) /\ ~ (counts /\ patches)

FloorIsLate ==
  \A s \in Sales : LET e == enriched[s] IN
    CASE e.step = "none" -> TRUE
      [] e.step = "enriched" -> "floor" \notin e.sent
      [] e.step = "retried" -> e.sent = {"floor"}

MCSpec == Init /\ [][Next /\ (OneTopic /\ FloorIsLate)']_vars /\ Fairness
=============================================================================
