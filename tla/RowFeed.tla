------------------------------ MODULE RowFeed ------------------------------
(***************************************************************************)
(* What the event stream promises the pages that follow one row: a page    *)
(* that joins is sent the row as it is, and whenever announcements are      *)
(* delivered every page that still listens is.  A page shows what it was    *)
(* sent, one announcement after the other: an old one that was delivered    *)
(* after a newer one is shown until the last one is.  A page that does not  *)
(* listen keeps what it shows.  SseHub implements it with a replay,         *)
(* batches and sockets that die unnoticed.                                 *)
(***************************************************************************)
EXTENDS Naturals

CONSTANTS Pages, MaxVersion

VARIABLES
  row,            \* its version
  due,            \* an announcement is not delivered yet
  sent,           \* the version each page was sent last, as far as it took it
  coming,         \* the pages that something is on its way to
  shown,          \* the version each page shows
  listening       \* the pages that hear what is delivered

feedVars == <<row, due, sent, coming, shown, listening>>

Init ==
  /\ row = 0 /\ due = FALSE /\ coming = {} /\ listening = {}
  /\ sent = [p \in Pages |-> 0] /\ shown = [p \in Pages |-> 0]

\* Everything due goes out.  Who cannot be written to stops listening.
Delivered ==
  /\ due' = FALSE /\ listening' \subseteq listening
  /\ sent' = [p \in Pages |-> IF p \in listening' THEN row' ELSE sent[p]]
  /\ coming' = coming \cup listening'
  /\ UNCHANGED shown

Deliver == Delivered /\ UNCHANGED row

Change ==
  /\ row < MaxVersion /\ row' = row + 1
  /\ \/ due' = TRUE /\ UNCHANGED <<sent, coming, shown, listening>>
     \/ Delivered

Join(p) ==
  /\ p \notin listening /\ listening' = listening \cup {p}
  /\ sent' = [sent EXCEPT ![p] = row] /\ coming' = coming \cup {p}
  /\ UNCHANGED <<row, due, shown>>

\* Something that was sent to p is shown; what is shown last is what was sent
\* last.
Show(p) ==
  /\ p \in coming
  /\ \E v \in 0 .. row : shown' = [shown EXCEPT ![p] = v]
  /\ \/ UNCHANGED coming
     \/ coming' = coming \ {p} /\ shown'[p] = sent[p]
  /\ UNCHANGED <<row, due, sent, listening>>

\* Pages stop listening; some lose what is on its way to them.
Leave ==
  /\ listening' \subseteq listening
  /\ coming' \subseteq coming /\ (coming \ coming') \cap listening' = {}
  /\ sent' = [p \in Pages |-> IF p \in coming \ coming' THEN shown[p] ELSE sent[p]]
  /\ UNCHANGED <<row, due, shown>>

Next == Deliver \/ Change \/ (\E p \in Pages : Join(p) \/ Show(p)) \/ Leave

Spec == Init /\ [][Next]_feedVars

----------------------------------------------------------------------------
\* A page shows a version the row had, the last one if it listens, nothing is
\* due and nothing is on its way to it.
OnlyTheRow ==
  /\ \A p \in Pages : shown[p] \in 0 .. row
  /\ ~ due => \A p \in listening \ coming : shown[p] = row
=============================================================================
