------------------------------- MODULE MtFifo -------------------------------
(***************************************************************************)
(* The store-and-forward core of the MeshTrack tracker firmware            *)
(* (meshtrack/firmware/meshtrack/MtTracker.cpp, track_mode fifo):          *)
(*                                                                         *)
(*   - the FastTrack buffer s_pts, whose points ride along with every      *)
(*     position message until such a message is heard back;                *)
(*   - the FIFO queue s_fifo of points that left the buffer unheard, kept  *)
(*     in flash (/mt_fifo.dat) and drained by Q messages, one at a time;   *)
(*   - the watch list s_txw that waits for a repeater to repeat a message; *)
(*   - the table s_sent of Q messages, by which the server confirms (T1F)  *)
(*     a message by its sequence number;                                   *)
(*   - restarts, which lose the RAM and keep what was saved.               *)
(*                                                                         *)
(* A point is its GPS time.  Coordinates, and the geometry that decides    *)
(* which point adds least to the track, are left out: the point that a     *)
(* full queue gives up, and whether a straight road is thinned, is a       *)
(* choice.  Time is left out: a wait that is over is a step that happens   *)
(* or does not.  So is the question when a drain message may be sent and   *)
(* which points it takes: here it takes any of them at any time, and       *)
(* FifoDrain models rounds, attempts, waits and coverage.  MtSeq models    *)
(* the counter behind "seq".                                               *)
(***************************************************************************)
EXTENDS Integers, SequencesExt

CONSTANTS
  MaxTs,      \* GPS times are 1 .. MaxTs
  MaxSeq,     \* sequence numbers are 1 .. MaxSeq: the messages of a run
  PtsMax,     \* MT_PTS: places in the FastTrack buffer
  FifoMax,    \* fifo_max: places in the queue
  ExtraMax,   \* earlier points that fit in a position message
  SentMax,    \* MT_SENT_MSGS: Q messages remembered for T1F
  TxwMax,     \* MT_TXW: messages watched at the same time
  Hoofd,      \* fifo_punten_hoofd: only main points enter the queue
  Dun         \* fifo_dun: straight roads are thinned

ASSUME CountsAssumption ==
  /\ MaxTs \in Nat /\ MaxSeq \in Nat
  /\ PtsMax \in Nat \ {0} /\ ExtraMax \in Nat
  /\ SentMax \in Nat \ {0} /\ TxwMax \in Nat \ {0}
  /\ FifoMax \in Nat /\ FifoMax >= 3      \* fifo_cap() is at least 20
ASSUME FlagsAssumption == Hoofd \in BOOLEAN /\ Dun \in BOOLEAN

VARIABLES
  gps,        \* time of the newest fix, 0 before the first
  seq,        \* the last sequence number used
  pts,        \* s_pts: its points, with the flag PT_MAIN
  fifo,       \* s_fifo: its points
  disk,       \* the queue as saved in flash
  fl,         \* the drain message under way: s_fl_seq and s_fl_ts
  sent,       \* s_sent, a ring of SentMax places
  sentI,      \* s_sent_i, the next place
  txw,        \* s_txw, the oldest entry first
  \* history, read by no action:
  air,        \* the messages handed to the radio
  repeated,   \* sequence numbers the tracker heard a repeater repeat
  owed        \* the points kept, and since not given up for a reason the
              \* README names: overflow, thinning, clearing, a restart before
              \* they were saved

trackerVars == <<gps, seq, pts, fifo, disk, fl, sent, sentI, txw, air,
                 repeated, owed>>
-----------------------------------------------------------------------------
Times == 1 .. MaxTs
Seqs  == 1 .. MaxSeq

\* The function f without the arguments in S.
Without(f, S) == Restrict(f, DOMAIN f \ S)

\* A message as the radio carries it: "M" is any position message, "Q" a
\* drain message.
Message == [seq : Seqs, kind : {"M", "Q"}, pts : SUBSET Times]
\* TxWatch.  on: the flag TXW_FIFO or TXW_FLUSH is still set.
Watch   == [seq : Seqs, kind : {"M", "Q"}, lo : 0 .. MaxTs, hi : 0 .. MaxTs,
            sent : BOOLEAN, rep : BOOLEAN, on : BOOLEAN]
\* MtSentMsg; seq 0: the place is free (ms = 0).  The message under way; seq 0:
\* none (s_fl_inflight is false, and the number and the points of a message
\* that is over are never read again).
SentMsg == [seq : 0 .. MaxSeq, pts : SUBSET Times]
NoMsg   == [seq |-> 0, pts |-> {}]
EmptyRing   == [i \in 0 .. SentMax - 1 |-> NoMsg]
EmptyBuffer == [p \in {} |-> FALSE]

\* The buffer: its points, and whether each is a main point.
Buffers == UNION {[D -> BOOLEAN] : D \in SUBSET Times}

TypeOK ==
  /\ gps \in 0 .. MaxTs /\ seq \in 0 .. MaxSeq
  /\ pts \in Buffers /\ fifo \subseteq Times /\ disk \subseteq Times
  /\ fl \in SentMsg
  /\ sent \in [0 .. SentMax - 1 -> SentMsg] /\ sentI \in 0 .. SentMax - 1
  /\ txw \in Seq(Watch)
  /\ air \subseteq Message /\ repeated \subseteq Seqs /\ owed \subseteq Times
-----------------------------------------------------------------------------
(***************************************************************************)
(* The helpers of the code change several pieces of state and call each    *)
(* other, so each is an operator from a state record to the set of state   *)
(* records it may leave: St is the record before a handler, Becomes(s) the *)
(* end of the handler.                                                     *)
(***************************************************************************)
St == [pts |-> pts, fifo |-> fifo, disk |-> disk, fl |-> fl, sent |-> sent,
       owed |-> owed]

Becomes(s) ==
  /\ pts' = s.pts /\ fifo' = s.fifo /\ disk' = s.disk /\ fl' = s.fl
  /\ sent' = s.sent /\ owed' = s.owed

\* fifo_save: the file holds the queue, or the old one when writing failed.
Saved(s) == {s, [s EXCEPT !.disk = s.fifo]}

\* What fifo_add and fifo_evict_one leave of the queue f after the new points
\* N were added one by one: the oldest and the newest point always stay, so
\* does the one that was added last; a full queue gives up one point per
\* addition, and thinning only takes points when the end of the queue moved.
Kept(f, N) ==
  LET all == f \cup N IN
  {g \in SUBSET all :
     /\ {Min(all), Max(all), Max(N)} \subseteq g
     /\ Cardinality(g) <= FifoMax
     /\ \/ Cardinality(g) = Min({Cardinality(all), FifoMax})
        \/ Dun /\ Max(all) \in N}

\* fifo_add for every point of S, oldest first; a time that is already in the
\* queue is not added again.
FifoAdd(s, S) ==
  IF S \subseteq s.fifo THEN {s}
  ELSE {[s EXCEPT !.fifo = g, !.owed = @ \ (((s.fifo \cup S) \ g) \ DOMAIN s.pts)] :
          g \in Kept(s.fifo, S \ s.fifo)}

\* The points S leave the FastTrack buffer without ever having been in a
\* message that was heard (pt_lost_to_fifo, fifo_take_main).
Spill(s, S) ==
  LET toFifo == {p \in S : s.pts[p] \/ ~Hoofd}
  IN FifoAdd([s EXCEPT !.pts = Without(s.pts, S),
                       !.owed = @ \ ((S \ toFifo) \ s.fifo)], toFifo)

\* pts_push: a fix joins the buffer; a full buffer spills its oldest point.
PtsPush(s, ts, main) ==
  LET D == DOMAIN s.pts
      room == IF Cardinality(D) = PtsMax THEN Spill(s, {Min(D)}) ELSE {s}
  IN IF \E p \in D : p >= ts
     THEN IF main /\ ts \in D /\ Max(D) = ts
          THEN {[s EXCEPT !.pts[ts] = TRUE]}
          ELSE {s}
     ELSE {[u EXCEPT !.pts = [p \in DOMAIN u.pts \cup {ts} |->
                                IF p = ts THEN main ELSE u.pts[p]]] : u \in room}

PtsHeard_UpTo(s, lo, hi) ==
  {[s EXCEPT !.pts = Without(s.pts, {p \in DOMAIN s.pts : p <= hi})]}

\* pts_heard: a message with the points lo .. hi was repeated.  They are in;
\* older ones no longer fit in any message and go to the queue.
PtsHeard(s, lo, hi) ==
  LET D == DOMAIN s.pts
  IN Spill([s EXCEPT !.pts = Without(s.pts, {p \in D : lo <= p /\ p <= hi})],
           {p \in D : p < lo})

\* flush_done: the outcome of the drain message under way.  Heard: its points
\* leave the queue; not heard: they stay, for another attempt.
FlushDone(s, heard) ==
  IF s.fl.seq = 0 THEN {s}
  ELSE Saved([s EXCEPT !.fl = NoMsg, !.fifo = IF heard THEN @ \ s.fl.pts ELSE @])

\* txw_finish: the watch on a message ends.
TxwFinish(s, w) ==
  IF ~w.on THEN {s}
  ELSE IF w.kind = "Q" THEN FlushDone(s, w.rep)
  ELSE IF w.rep THEN PtsHeard(s, w.lo, w.hi)
  ELSE {s}

\* txw_add, when every place is taken: the oldest watch gives way.
Displaced(s) == IF Len(txw) = TxwMax THEN TxwFinish(s, Head(txw)) ELSE {s}
TxwAdd(w) == Append(IF Len(txw) = TxwMax THEN Tail(txw) ELSE txw, w)
-----------------------------------------------------------------------------
\* The c newest points of S.
NewestOf(S, c) == {p \in S : Cardinality({q \in S : q > p}) < c}
-----------------------------------------------------------------------------
Init ==
  /\ gps = 0 /\ seq = 0
  /\ pts = EmptyBuffer /\ fifo = {} /\ disk = {}
  /\ fl = NoMsg
  /\ sent = EmptyRing /\ sentI = 0 /\ txw = <<>>
  /\ air = {} /\ repeated = {} /\ owed = {}

\* A point that is kept from now on.
Owing(ts) == [St EXCEPT !.owed = @ \cup {ts}]

\* A new fix.  keep: the tracker moves, and the fix is sampled (pts_sample).
Fix(keep) ==
  /\ gps < MaxTs
  /\ gps' = gps + 1
  /\ \E s \in IF keep THEN PtsPush(Owing(gps + 1), gps + 1, FALSE) ELSE {St} : Becomes(s)
  /\ UNCHANGED <<seq, sentI, txw, air, repeated>>

\* slow_take in fifo mode: the fix goes straight into the queue.
SlowTake ==
  /\ gps > 0
  /\ \E s \in FifoAdd(Owing(gps), {gps}) : Becomes(s)
  /\ UNCHANGED <<gps, seq, sentI, txw, air, repeated>>

\* send_report with a position: the fix and the k newest buffered points
\* before it that fit.  The range lo .. hi of what was carried goes with the
\* watch, and the main point joins the buffer before the message is sent.
SendReport(k) ==
  /\ gps > 0 /\ seq < MaxSeq
  /\ seq' = seq + 1
  /\ LET carried == NewestOf({p \in DOMAIN pts : p < gps}, k) \cup {gps}
     IN /\ \E s \in PtsPush(Owing(gps), gps, TRUE) : \E u \in Displaced(s) : Becomes(u)
        /\ txw' = TxwAdd([seq |-> seq + 1, kind |-> "M", lo |-> Min(carried),
                          hi |-> gps, sent |-> FALSE, rep |-> FALSE, on |-> TRUE])
        /\ air' = air \cup {[seq |-> seq + 1, kind |-> "M", pts |-> carried]}
  /\ UNCHANGED <<gps, sentI, repeated>>

\* send_report while the channel is missing or the radio refuses: nothing is
\* watched, the points stay in the buffer.
SendReportFails ==
  /\ gps > 0 /\ seq < MaxSeq
  /\ seq' = seq + 1
  /\ \E s \in PtsPush(Owing(gps), gps, TRUE) : Becomes(s)
  /\ UNCHANGED <<gps, sentI, txw, air, repeated>>

\* pts_age_out: points that waited ten minutes for a repeated message.
AgeOut(cut) ==
  LET old == {p \in DOMAIN pts : p <= cut /\ (pts[p] \/ ~Hoofd)}
  IN /\ old # {}
     /\ \E s \in Spill(St, old) : Becomes(s)
     /\ UNCHANGED <<gps, seq, sentI, txw, air, repeated>>

\* step_fifo, the periodic save of points that were not saved yet.
FifoSave ==
  /\ disk # fifo
  /\ disk' = fifo
  /\ UNCHANGED <<gps, seq, pts, fifo, fl, sent, sentI, txw, air, repeated, owed>>
-----------------------------------------------------------------------------
\* The message send_flush makes of the points S.
FlushOut(S) == [St EXCEPT !.fl = [seq |-> seq + 1, pts |-> S]]

\* send_flush without the care to remember what the message really carried.
SendFlush_RemembersAll(S) ==
  /\ fl.seq = 0 /\ S # {} /\ seq < MaxSeq
  /\ seq' = seq + 1
  /\ sentI' = (sentI + 1) % SentMax
  /\ \E u \in Displaced(FlushOut(S)) :
       Becomes([u EXCEPT !.sent[sentI] = [seq |-> seq + 1, pts |-> fifo]])
  /\ txw' = TxwAdd([seq |-> seq + 1, kind |-> "Q", lo |-> 0, hi |-> 0,
                    sent |-> FALSE, rep |-> FALSE, on |-> TRUE])
  /\ air' = air \cup {[seq |-> seq + 1, kind |-> "Q", pts |-> S]}
  /\ UNCHANGED <<gps, repeated>>

\* send_flush with the next place of the ring not taken modulo its length.
SendFlush_NoWrap(S) ==
  /\ fl.seq = 0 /\ S # {} /\ seq < MaxSeq
  /\ seq' = seq + 1
  /\ sentI' = sentI + 1
  /\ \E u \in Displaced(FlushOut(S)) :
       Becomes([u EXCEPT !.sent[sentI] = [seq |-> seq + 1, pts |-> S]])
  /\ txw' = TxwAdd([seq |-> seq + 1, kind |-> "Q", lo |-> 0, hi |-> 0,
                    sent |-> FALSE, rep |-> FALSE, on |-> TRUE])
  /\ air' = air \cup {[seq |-> seq + 1, kind |-> "Q", pts |-> S]}
  /\ UNCHANGED <<gps, repeated>>

\* send_flush: a Q message carries the points S.  on_send_done runs inside it:
\* the message is watched (the watch it displaces ends first), and remembered
\* for T1F in the place of the oldest one.
SendFlush(S) ==
  /\ fl.seq = 0 /\ S # {} /\ seq < MaxSeq
  /\ seq' = seq + 1
  /\ sentI' = (sentI + 1) % SentMax
  /\ \E u \in Displaced(FlushOut(S)) :
       Becomes([u EXCEPT !.sent[sentI] = [seq |-> seq + 1, pts |-> S]])
  /\ txw' = TxwAdd([seq |-> seq + 1, kind |-> "Q", lo |-> 0, hi |-> 0,
                    sent |-> FALSE, rep |-> FALSE, on |-> TRUE])
  /\ air' = air \cup {[seq |-> seq + 1, kind |-> "Q", pts |-> S]}
  /\ UNCHANGED <<gps, repeated>>

\* send_flush when the radio refuses the packet: as not heard, at once.
SendFlushFails(S) ==
  /\ fl.seq = 0 /\ S # {} /\ seq < MaxSeq
  /\ seq' = seq + 1
  /\ \E u \in FlushDone(FlushOut(S), FALSE) : Becomes(u)
  /\ UNCHANGED <<gps, sentI, txw, air, repeated>>
-----------------------------------------------------------------------------
\* mt_tx_packet: the radio really sends the watched packet; its listening
\* time starts now.  A packet nobody listens for is no longer watched.
TxPacket(i) ==
  /\ ~txw[i].sent
  /\ txw' = IF txw[i].on THEN Append(RemoveAt(txw, i), [txw[i] EXCEPT !.sent = TRUE])
            ELSE RemoveAt(txw, i)
  /\ UNCHANGED <<gps, seq, pts, fifo, disk, fl, sent, sentI, air, repeated, owed>>

\* mt_rx_raw: a repeater repeats a watched message.
Repeat(i) ==
  /\ txw[i].sent /\ txw[i].on
  /\ txw' = [txw EXCEPT ![i].rep = TRUE]
  /\ repeated' = repeated \cup {txw[i].seq}
  /\ UNCHANGED <<gps, seq, pts, fifo, disk, fl, sent, sentI, air, owed>>

\* step_watch_auto: the repetition of a watched message takes effect.
WatchHeard(i) ==
  /\ txw[i].on /\ txw[i].rep
  /\ \E s \in TxwFinish(St, txw[i]) : Becomes(s)
  /\ txw' = [txw EXCEPT ![i].on = FALSE]
  /\ UNCHANGED <<gps, seq, sentI, air, repeated>>

\* step_watch_auto: never sent for 60 s, or listened to for MT_HEAR_MS.
WatchExpires(i) ==
  /\ ~(txw[i].on /\ txw[i].rep)
  /\ \E s \in TxwFinish(St, txw[i]) : Becomes(s)
  /\ txw' = RemoveAt(txw, i)
  /\ UNCHANGED <<gps, seq, sentI, air, repeated>>
-----------------------------------------------------------------------------
\* handle_t1f and fifo_confirm_seqs: the server has the Q messages with the
\* sequence numbers S.  Exactly the points of those messages leave the queue,
\* which is saved when something changed.
HandleT1F(S) ==
  LET known == {i \in DOMAIN sent : sent[i].seq \in S}
      gone  == UNION {sent[i].pts : i \in known}
      s1 == [St EXCEPT !.fifo = fifo \ gone,
                       !.sent = [i \in DOMAIN sent |->
                                   IF i \in known THEN NoMsg ELSE sent[i]]]
  IN /\ \E s \in IF known # {} THEN Saved(s1) ELSE {s1} : Becomes(s)
     /\ UNCHANGED <<gps, seq, sentI, txw, air, repeated>>

\* Clearing without letting go of the message under way.
FifoClear_KeepsWatch ==
  /\ \E s \in Saved([St EXCEPT !.fifo = {}, !.fl = NoMsg,
                               !.owed = @ \ (fifo \ DOMAIN pts)]) : Becomes(s)
  /\ UNCHANGED <<gps, seq, sentI, txw, air, repeated>>

\* mt_tracker_fifo_clear: the user empties the queue; the outcome of a message
\* under way no longer matters.
FifoClear ==
  /\ \E s \in Saved([St EXCEPT !.fifo = {}, !.fl = NoMsg,
                               !.owed = @ \ (fifo \ DOMAIN pts)]) : Becomes(s)
  /\ txw' = [i \in DOMAIN txw |-> [txw[i] EXCEPT !.on = @ /\ txw[i].kind # "Q"]]
  /\ UNCHANGED <<gps, seq, sentI, air, repeated>>

\* A restart at any moment: the RAM is lost, the queue is read back, and the
\* sequence number moves past everything that was used (MtSeq).
Reboot ==
  /\ pts' = EmptyBuffer /\ fifo' = disk /\ fl' = NoMsg
  /\ sent' = EmptyRing /\ sentI' = 0 /\ txw' = <<>>
  /\ owed' = (owed \ (DOMAIN pts \cup fifo)) \cup disk
  /\ UNCHANGED <<gps, seq, disk, air, repeated>>

\* Every step of the tracker but the receipt of a T1F.
TrackerStep ==
  \/ \E keep \in BOOLEAN : Fix(keep)
  \/ SlowTake
  \/ \E k \in 0 .. ExtraMax : SendReport(k)
  \/ SendReportFails
  \/ \E cut \in Times : AgeOut(cut)
  \/ FifoSave
  \/ \E S \in SUBSET fifo : SendFlush(S)
  \/ \E S \in SUBSET fifo : SendFlushFails(S)
  \/ \E i \in DOMAIN txw : TxPacket(i)
  \/ \E i \in DOMAIN txw : Repeat(i)
  \/ \E i \in DOMAIN txw : WatchHeard(i)
  \/ \E i \in DOMAIN txw : WatchExpires(i)
  \/ FifoClear
  \/ Reboot
=============================================================================
