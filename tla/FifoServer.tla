----------------------------- MODULE FifoServer -----------------------------
(***************************************************************************)
(* The MeshTrack server as the drain of one tracker sees it:               *)
(*                                                                         *)
(*   - ingest.handle stores the points of a position message, unless a row *)
(*     with that sequence number exists within the window (a repetition),  *)
(*     and skips the points whose time it already has;                     *)
(*   - on_channel then puts the number of every valid Q message on the     *)
(*     list to confirm, also when the message was a repetition;            *)
(*   - fifo_tick sends T1F messages with numbers from that list.           *)
(*                                                                         *)
(* When a T1F is sent, and how the trackers of a channel share it, is      *)
(* T1fSched; here it is sent at any time, with any part of the list, which *)
(* is list and out of T1fList together.                                    *)
(***************************************************************************)
EXTENDS FifoTracker

CONSTANT MaxFails   \* bound: errors of the database in a run

VARIABLES
  stored,     \* points (times) in the table positions
  rows,       \* <<seq, kind>> of the rows of the last dedup_window_s
  pending,    \* _fifo_pending: sequence numbers to confirm
  torn        \* history: messages whose storing an error broke off half way

serverVars == <<stored, rows, pending, torn, confirmed>>

ServerTypeOK ==
  /\ stored \subseteq Times
  /\ rows \subseteq Seqs \X {"M", "Q"}
  /\ pending \subseteq Seqs /\ torn \subseteq Message

ServerInit == stored = {} /\ rows = {} /\ pending = {} /\ torn = {}

\* Putting the number of every message on the list.
ServerRx_AnyKind(m) ==
  LET repetition == <<m.seq, m.kind>> \in rows
      new == IF repetition THEN {} ELSE m.pts \ stored
      row == ~repetition /\ (new # {} \/ m.kind = "M")
  IN /\ stored' = stored \cup new
     /\ rows' = IF row THEN rows \cup {<<m.seq, m.kind>>} ELSE rows
     /\ pending' = pending \cup {m.seq}
     /\ UNCHANGED <<torn, confirmed>>

\* A message arrives: soon or late, again, or out of order.  Extra points and
\* the main point of a Q message are stored when their time is new; the main
\* point of another message always is.
ServerRx(m) ==
  LET repetition == <<m.seq, m.kind>> \in rows
      new == IF repetition THEN {} ELSE m.pts \ stored
      row == ~repetition /\ (new # {} \/ m.kind = "M")
  IN /\ stored' = stored \cup new
     /\ rows' = IF row THEN rows \cup {<<m.seq, m.kind>>} ELSE rows
     /\ pending' = IF m.kind = "Q" THEN pending \cup {m.seq} ELSE pending
     /\ UNCHANGED <<torn, confirmed>>

\* An error of the database between two points of a message: each is a commit,
\* the extra points come first, the oldest of them before the others, and the
\* row of the first one makes the next copy a repetition.  The error ends
\* on_channel too, before the number is put on the list.  (With an error before
\* the first point it is as if the message did not arrive.)
ServerRxFails(m) ==
  LET extras == {p \in m.pts \ stored : \E q \in m.pts : q > p}
  IN /\ Cardinality(torn) < MaxFails /\ <<m.seq, m.kind>> \notin rows
     /\ \E last \in extras : stored' = stored \cup {p \in extras : p <= last}
     /\ rows' = rows \cup {<<m.seq, m.kind>>}
     /\ torn' = torn \cup {m}
     /\ UNCHANGED <<pending, confirmed>>

\* The rows of an old message fall out of the window of is_duplicate.
WindowPasses(r) ==
  /\ r \in rows
  /\ rows' = rows \ {r}
  /\ UNCHANGED <<stored, pending, torn, confirmed>>

\* A list compressed to ranges over the numbers in between.
SendT1F_Range(S, kept) ==
  /\ S # {} /\ S \subseteq pending
  /\ confirmed' = confirmed \cup {s \in Seqs : \E r \in S : s <= r}
  /\ pending' = (pending \ S) \cup kept
  /\ UNCHANGED <<stored, rows, torn>>

\* fifo_tick sends the part S of the list.  kept: what is on the list again
\* when sending ends.  That is all of S after an error, though the mesh may have
\* it (_fifo_merge), and else what was asked for again meanwhile.
SendT1F(S, kept) ==
  /\ S # {} /\ S \subseteq pending
  /\ confirmed' = confirmed \cup S
  /\ pending' = (pending \ S) \cup kept
  /\ UNCHANGED <<stored, rows, torn>>

\* The list lives in memory only.
ServerRestart ==
  /\ pending # {}
  /\ pending' = {}
  /\ UNCHANGED <<stored, rows, torn, confirmed>>

ServerStep ==
  \/ \E m \in air : ServerRx(m) \/ ServerRxFails(m)
  \/ \E r \in rows : WindowPasses(r)
  \/ \E S \in SUBSET pending : \E kept \in SUBSET S : SendT1F(S, kept)
  \/ ServerRestart
=============================================================================
