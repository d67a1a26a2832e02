----------------------------- MODULE Selection ------------------------------
(* The elements at some places of a sequence, in their order: what         *)
(* SelectSeq leaves of it, without its recursion.                          *)
EXTENDS Integers, Sequences, FiniteSets

Selected(s, places) ==
  LET Nth(n) == CHOOSE k \in places : Cardinality({ j \in places : j <= k }) = n
  IN  [ n \in 1 .. Cardinality(places) |-> s[Nth(n)] ]
=============================================================================
