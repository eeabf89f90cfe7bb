------------------------------- MODULE MCSweep -------------------------------
(***************************************************************************)
(* Instances of SweepSched for two nodes.                                  *)
(***************************************************************************)
EXTENDS SweepSched

\* Node "a" has two candidates, "b" one, and somebody takes that one away or
\* one of the two.
MCListings == {[n \in Nodes |-> IF n = "a" THEN 2 ELSE 1],
               [n \in Nodes |-> IF n = "a" THEN 2 ELSE 0],
               [n \in Nodes |-> 1]}

\* Schedules that fit in the minimum distance between rounds.
CalmInterval == [n \in Nodes |-> IF n = "a" THEN 5 ELSE 4]

\* "a" is to be asked as often as possible: its interval is shorter than the
\* minimum distance.
BusyInterval == [n \in Nodes |-> IF n = "a" THEN 1 ELSE 4]
=============================================================================
