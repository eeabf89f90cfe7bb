----------------------------- MODULE FifoTracker -----------------------------
(***************************************************************************)
(* The tracker with the least it may assume of a server: at any time the   *)
(* server may confirm Q messages that were handed to the radio, and a T1F  *)
(* that reaches the tracker names only messages that were confirmed.  One  *)
(* that reaches it late, twice or never, alone or together with another,   *)
(* names some part of them.                                                *)
(*                                                                         *)
(* FifoSystem puts the real server in this place, and implements this      *)
(* specification.                                                          *)
(***************************************************************************)
EXTENDS MtFifo

VARIABLE confirmed   \* numbers of Q messages in the T1F messages on the air

fifoVars == <<gps, seq, pts, fifo, disk, fl, sent, sentI, txw, air, repeated,
              owed, confirmed>>

\* The numbers of the Q messages on the air.
Drained == {m.seq : m \in {n \in air : n.kind = "Q"}}

Confirm(S) ==
  /\ S \subseteq Drained
  /\ confirmed' = confirmed \cup S
  /\ UNCHANGED trackerVars

TrackerInit == Init /\ confirmed = {}

TrackerAlone ==
  /\ TrackerStep \/ \E S \in SUBSET confirmed : HandleT1F(S)
  /\ UNCHANGED confirmed

TrackerNext ==
  \/ TrackerAlone
  \/ \E S \in SUBSET Drained : Confirm(S)

TrackerSpec == TrackerInit /\ [][TrackerNext]_fifoVars
-----------------------------------------------------------------------------
\* Every variable of the tracker has its type.
TrackerTypeOK == TypeOK /\ confirmed \subseteq Seqs

\* The points of the messages that a repeater was heard repeating, and those
\* of the messages that the server confirmed.
Heard  == UNION {m.pts : m \in {n \in air : n.seq \in repeated}}
Served == UNION {m.pts : m \in {n \in air : n.seq \in confirmed}}

\* A point that is kept is on the tracker, or a repeater repeated a message
\* that carried it, or the server confirmed one.  The code never looks
\* at a message again: it decides by ranges of times and lists of numbers that
\* must have stayed true while other points came and went, watches were
\* displaced and the tracker restarted (pts_heard, flush_done, txw_add,
\* fifo_confirm_seqs).
NothingLost == owed \subseteq DOMAIN pts \cup fifo \cup Heard \cup Served

\* The outcome that flush_done applies belongs to the message under way: at
\* most one Q message is watched, it is the one of s_fl_seq, and as long as a
\* message is under way somebody watches it (else only the 90 s alarm of
\* step_fifo ends it).  So no point is ever on its way twice.
WatchedOnce ==
  LET flush == {i \in DOMAIN txw : txw[i].on /\ txw[i].kind = "Q"}
  IN /\ Cardinality(flush) = IF fl.seq # 0 THEN 1 ELSE 0
     /\ \A i \in flush : txw[i].seq = fl.seq

\* Neither the queue nor the buffer outgrows its array, also when the buffer
\* spills many points at once or the file is read back.
FifoBounded == Cardinality(fifo) <= FifoMax /\ Cardinality(DOMAIN pts) <= PtsMax
=============================================================================
