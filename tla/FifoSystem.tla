----------------------------- MODULE FifoSystem -----------------------------
(***************************************************************************)
(* The tracker and the server over the mesh.  The radio keeps every        *)
(* message that was ever handed to it (air, confirmed): receiving one of   *)
(* them now, later, twice, out of order or never covers delay,             *)
(* duplication, reordering and loss in both directions.                    *)
(***************************************************************************)
EXTENDS FifoServer

vars == <<gps, seq, pts, fifo, disk, fl, sent, sentI, txw, air, repeated,
          owed, confirmed, stored, rows, pending, torn>>

SystemInit == TrackerInit /\ ServerInit

Next ==
  \/ TrackerAlone /\ UNCHANGED <<stored, rows, pending, torn>>
  \/ ServerStep /\ UNCHANGED trackerVars

Spec == SystemInit /\ [][Next]_vars
-----------------------------------------------------------------------------
\* Every variable of the tracker, the radio and the server has its type.
SystemTypeOK == TrackerTypeOK /\ ServerTypeOK

\* What the server confirms it has: every message of a T1F, in whatever order
\* messages, confirmations and restarts of both sides come, and also when a
\* message was called a repetition and stored nothing (on_channel, fifo_tick;
\* the loss that version 0.9.4 repaired).  Only an error of the database half way
\* a message makes the next copy a repetition too soon.
ConfirmedIsStored ==
  \A m \in air \ torn : m.kind = "Q" /\ m.seq \in confirmed \cup pending => m.pts \subseteq stored

\* The server is one the tracker may rely on: the tracker and this server
\* together are one of the systems that FifoTracker allows.  This is TrackerSpec;
\* what the server does on its own comes first, so that TLC need not look for a
\* step of the tracker.
ImplementsTracker == TrackerInit /\ [][UNCHANGED fifoVars \/ TrackerNext]_fifoVars

\* From end to end: a point that is kept is on the tracker, or a repeater
\* repeated a message with it, or it is in the database of the server, unless an
\* error of the database broke off the storing of a message with it.
NothingLostInSystem ==
  owed \subseteq DOMAIN pts \cup fifo \cup Heard \cup stored \cup UNION {m.pts : m \in torn}
=============================================================================
