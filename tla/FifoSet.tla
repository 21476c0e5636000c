------------------------------ MODULE FifoSet ------------------------------
(***************************************************************************)
(* The bounded insertion-ordered sets this backend keeps everywhere: a     *)
(* JavaScript Set or Map whose size is capped by deleting from the front.  *)
(* A value is the sequence of its elements, oldest first.                  *)
(***************************************************************************)
EXTENDS Naturals, Sequences, Functions

\* Keep the youngest cap elements.
FifoTrim(s, cap) ==
  IF Len(s) > cap THEN SubSeq(s, Len(s) - cap + 1, Len(s)) ELSE s

\* Add x: an element already present keeps its place, a new one goes to the
\* back and pushes the oldest out once the cap is passed.
FifoAdd(s, x, cap) ==
  IF x \in Range(s) THEN s ELSE FifoTrim(Append(s, x), cap)
============================================================================
