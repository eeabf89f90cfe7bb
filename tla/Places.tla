-------------------------------- MODULE Places --------------------------------
(***************************************************************************)
(* The part of a sequence at some of its places, in the same order:        *)
(* SelectSeq without recursion, so that it can be proved about.  And the   *)
(* least and the most of two numbers.                                      *)
(***************************************************************************)
EXTENDS Integers, FiniteSets

Most(a, b)  == IF a > b THEN a ELSE b
Least(a, b) == IF a < b THEN a ELSE b

\* How many of the places in I come up to place i.
Rank(I, i) == Cardinality({k \in I : k <= i})

AtPlaces(q, I) ==
  [j \in 1 .. Cardinality(I) |-> q[CHOOSE i \in I : Rank(I, i) = j]]
=============================================================================
