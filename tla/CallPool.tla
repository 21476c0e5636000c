------------------------------ MODULE CallPool ------------------------------
(***************************************************************************)
(* What the concurrency limiter promises its callers: at most Max calls    *)
(* hold a slot, a call waits only while every slot is held, and a call     *)
(* that waits is given a freed slot or is refused.                         *)
(***************************************************************************)
EXTENDS Naturals, FiniteSets

CONSTANTS Calls, Max

VARIABLES waiting, serving

Init == waiting = {} /\ serving = {}

Begin(c) ==
  /\ c \notin serving \cup waiting
  /\ waiting = {} /\ Cardinality(serving) < Max
  /\ serving' = serving \cup {c}
  /\ UNCHANGED waiting

Wait(c) ==
  /\ c \notin serving \cup waiting
  /\ Cardinality(serving) = Max
  /\ waiting' = waiting \cup {c}
  /\ UNCHANGED serving

\* A slot is given up; of the calls that wait some are refused and, if any
\* is left, one takes the slot.
HandOver(c, refused) ==
  /\ c \in serving /\ refused \subseteq waiting
  /\ \/ /\ waiting = refused
        /\ serving' = serving \ {c} /\ waiting' = {}
     \/ \E d \in waiting \ refused :
          /\ serving' = (serving \ {c}) \cup {d}
          /\ waiting' = waiting \ (refused \cup {d})

RefuseAll == waiting # {} /\ waiting' = {} /\ UNCHANGED serving

Next ==
  \/ \E c \in Calls : Begin(c) \/ Wait(c)
  \/ \E c \in Calls, refused \in SUBSET Calls : HandOver(c, refused)
  \/ RefuseAll

Spec == Init /\ [][Next]_<<waiting, serving>>
=============================================================================
