------------------------------ MODULE FifoDrain ------------------------------
(***************************************************************************)
(* When the tracker drains its queue (step_fifo in MtTracker.cpp): rounds  *)
(* that begin on stable coverage, full and partial messages, unheard       *)
(* attempts with their waits, parked points, the two limits per hour, and  *)
(* what of it survives a restart.                                          *)
(*                                                                         *)
(* MtFifo models the queue, the watch on a message and the T1F; here a     *)
(* message under way just gets its outcome, the queue never overflows, and *)
(* saving never fails.  Waits, the age of coverage and the hour are steps  *)
(* that happen, and whether the tracker rests is a choice.  Points come    *)
(* without end: the name (time) of one that is forgotten everywhere is     *)
(* free for a new one.                                                     *)
(***************************************************************************)
EXTENDS Integers, SequencesExt

CONSTANTS
  MaxTs,      \* bound: points that are remembered at a time
  Pogingen,   \* fifo_pogingen: unheard attempts until a point is parked
  FifoMin,    \* fifo_min: points that begin a round
  PerMsg,     \* mt_fifo_per_msg: points that make a full message
  PerHour,    \* fifo_per_uur
  MaxBoots    \* bound: restarts of a run

ASSUME DrainAssumption ==
  /\ {MaxTs, Pogingen, FifoMin, PerMsg, PerHour} \subseteq Nat \ {0}
  /\ MaxBoots \in Nat

VARIABLES
  wacht,      \* fifo_wacht is not "uit"; a setting, the same throughout
  items,      \* s_fifo: its points, with tries and whether retry_min lies ahead
  disk,       \* the points and tries of the file
  round,      \* s_fl_active, s_fl_pending and s_fifo_full
  fly,        \* the points of the message under way, {} if there is none
  cov,        \* s_cov_stable, younger than 30 s and than the last stop; partial_snr_ok
  waited,     \* fifo_wacht is over, and is so according to the file
  hour,       \* the attempts of the last hour, the oldest first
  boots

vars == <<wacht, items, disk, round, fly, cov, waited, hour, boots>>
-----------------------------------------------------------------------------
Times == 1 .. MaxTs
Item  == [tries : 0 .. Pogingen, wait : BOOLEAN]
New   == [tries |-> 0, wait |-> FALSE]
Queue == UNION {[D -> Item] : D \in SUBSET Times}

\* An attempt: its points, whether a repeater was heard (MtSentMsg.ok), whether
\* the ring of attempts has it and how often that of counted messages does, in
\* RAM and in the file, and whether s_sent remembers it.
Attempt == [pts : SUBSET Times, heard : BOOLEAN, try : BOOLEAN, cnt : Nat,
            tryFile : BOOLEAN, cntFile : Nat, known : BOOLEAN]

DrainTypeOK ==
  /\ wacht \in BOOLEAN /\ items \in Queue /\ disk \in Queue
  /\ round \in [active : BOOLEAN, pending : BOOLEAN, full : BOOLEAN]
  /\ fly \subseteq Times /\ cov \in [stable : BOOLEAN, strong : BOOLEAN]
  /\ waited \in [ram : BOOLEAN, file : BOOLEAN]
  /\ hour \in Seq(Attempt) /\ boots \in 0 .. MaxBoots

Without(f, S) == Restrict(f, DOMAIN f \ S)
OldestOf(S, c) == {p \in S : Cardinality({q \in S : q < p}) < c}
Queued == DOMAIN items

\* fifo_is_parked, fifo_due and fifo_pick: what the next message may take;
\* parked points only when no other point is due.
Parked == {p \in Queued : items[p].tries >= Pogingen}
Due    == {p \in Queued : ~items[p].wait}
Pick   == IF Due \ Parked # {} THEN Due \ Parked ELSE Due
Full   == Cardinality(Pick) >= PerMsg

\* fl_cap
Tried   == Cardinality({i \in DOMAIN hour : hour[i].try})
Counted == Cardinality({i \in DOMAIN hour : hour[i].cnt > 0})
             + Cardinality({i \in DOMAIN hour : hour[i].cnt > 1})
Capped_Counted == Counted >= PerHour     \* without the limit on attempts
Capped_Tried   == Tried >= 2 * PerHour   \* without that on counted messages
Capped  == Tried >= 2 * PerHour \/ Counted >= PerHour

\* fifo_keep_awake
Awake == fly # {} \/ (round.active /\ round.full /\ ~Capped)

\* fifo_save: the file gets the queue f, the attempts h and the wait w.  A wait
\* of a point is not kept over a restart (fifo_load).
Save(f, h, w) ==
  /\ disk' = [p \in DOMAIN f |-> [f[p] EXCEPT !.wait = FALSE]]
  /\ hour' = [i \in DOMAIN h |-> [h[i] EXCEPT !.tryFile = h[i].try, !.cntFile = h[i].cnt]]
  /\ waited' = [ram |-> w, file |-> w]

\* fifo_stop: coverage from before the stop no longer counts.
Stopped(f) == [round EXCEPT !.active = FALSE, !.pending = DOMAIN f # {}]
StopsCov   == [cov EXCEPT !.stable = FALSE]

Init ==
  /\ wacht \in BOOLEAN /\ items = [p \in {} |-> New] /\ disk = items
  /\ round = [active |-> FALSE, pending |-> FALSE, full |-> FALSE]
  /\ fly = {} /\ cov = [stable |-> FALSE, strong |-> FALSE]
  /\ waited = [ram |-> wacht, file |-> wacht] /\ hour = <<>> /\ boots = 0
-----------------------------------------------------------------------------
\* Names that the queue, the file and s_sent do not know (any more).
Free == Times \ (Queued \cup DOMAIN disk \cup UNION {hour[i].pts : i \in DOMAIN hour})

\* A new point enters the queue (fifo_add).  Its name p is beyond those of the
\* queue, so that the order of names is that of times.
Arrive(p) ==
  /\ p \in Free /\ \A q \in Queued : q < p
  /\ items' = [q \in Queued \cup {p} |-> IF q = p THEN New ELSE items[q]]
  /\ UNCHANGED <<wacht, disk, round, fly, cov, waited, hour, boots>>

\* step_fifo saves points that were not saved yet.
SaveNew ==
  /\ ~(Queued \subseteq DOMAIN disk)
  /\ Save(items, hour, waited.ram)
  /\ UNCHANGED <<wacht, items, round, fly, cov, boots>>

\* fifo_coverage: a repeater was heard.  firm: a strong packet, or the second
\* within a minute.
Coverage(firm, strong) ==
  /\ strong => firm
  /\ cov' = [stable |-> firm \/ cov.stable, strong |-> strong]
  /\ UNCHANGED <<wacht, items, disk, round, fly, waited, hour, boots>>

\* Thirty seconds without coverage.
CoverageOld ==
  /\ cov' = [stable |-> FALSE, strong |-> FALSE]
  /\ UNCHANGED <<wacht, items, disk, round, fly, waited, hour, boots>>

\* retry_min of a point is over.
RetryDue(p) ==
  /\ p \in Queued /\ items[p].wait
  /\ items' = [items EXCEPT ![p].wait = FALSE]
  /\ UNCHANGED <<wacht, disk, round, fly, cov, waited, hour, boots>>

\* fifo_wacht is over; never when it is "uit" (partial_wait).
WachtOver ==
  /\ wacht
  /\ waited' = [ram |-> TRUE, file |-> TRUE]
  /\ UNCHANGED <<wacht, items, disk, round, fly, cov, hour, boots>>

\* The oldest attempt is an hour ago; a message under way is younger.
HourOver ==
  /\ hour # <<>> /\ (fly # {} => Len(hour) > 1)
  /\ hour' = Tail(hour)
  /\ UNCHANGED <<wacht, items, disk, round, fly, cov, waited, boots>>
-----------------------------------------------------------------------------
\* step_fifo gets past its first returns.
Looks == fly = {} /\ Queued # {}

\* A full message may go; a partial one if fifo_wacht is over, the coverage is
\* strong and the radio awake (partial).
Ready(partial) == Full \/ (Pick # {} /\ partial /\ waited.ram /\ cov.strong)

\* A round begins: enough points (one is enough after an interruption, and at
\* rest) and stable coverage.
Begins(rest, partial) ==
  /\ ~round.active /\ Ready(partial) /\ cov.stable /\ ~Capped
  /\ Cardinality(Queued) >= (IF round.pending \/ rest THEN 1 ELSE FifoMin)


\* step_fifo, at rest and with strong coverage: parked points start anew.
ParkedReset ==
  /\ Looks /\ cov.strong /\ Parked # {}
  /\ items' = [p \in Queued |-> IF p \in Parked THEN New ELSE items[p]]
  /\ Save(items', hour, waited.ram)
  /\ UNCHANGED <<wacht, round, fly, cov, boots>>

\* step_fifo without sending: there is no round, or fifo_gap or a limit holds
\* the next message back.
FlushWaits ==
  /\ Looks
  /\ ~round.active \/ \E partial \in BOOLEAN : Ready(partial)
  /\ round' = [round EXCEPT !.full = Full]
  /\ UNCHANGED <<wacht, items, disk, fly, cov, waited, hour, boots>>

\* step_fifo: a round begins, and fifo_gap still holds the first message back.
FlushBegin ==
  /\ Looks /\ \E rest, partial \in BOOLEAN : Begins(rest, partial)
  /\ round' = [active |-> TRUE, pending |-> TRUE, full |-> Full]
  /\ UNCHANGED <<wacht, items, disk, fly, cov, waited, hour, boots>>

\* step_fifo: all points wait, or what is left is partial and may not go.
FlushPause ==
  /\ Looks /\ round.active /\ \E partial \in BOOLEAN : ~Ready(partial)
  /\ round' = [round EXCEPT !.active = FALSE, !.full = Full]
  /\ UNCHANGED <<wacht, items, disk, fly, cov, waited, hour, boots>>

\* step_fifo: classic mode, tracking is off, or the tracking channel is gone.
FlushStop ==
  /\ round.active
  /\ round' = Stopped(items) /\ cov' = StopsCov
  /\ UNCHANGED <<wacht, items, disk, fly, waited, hour, boots>>

\* What step_fifo requires of a message.
MaySend(partial) ==
  /\ Looks /\ Ready(partial) /\ ~Capped
  /\ round.active \/ \E rest \in BOOLEAN : Begins(rest, partial)

\* The attempt with the points S, as send_flush notes it.
Note(S, known) == Append(hour, [pts |-> S, heard |-> FALSE, try |-> TRUE, cnt |-> 0,
                                tryFile |-> FALSE, cntFile |-> 0, known |-> known])

\* The points S after an attempt that nobody was heard repeating.
Unheard(S) == [p \in Queued |->
  IF p \in S THEN [tries |-> IF items[p].tries < Pogingen THEN items[p].tries + 1 ELSE Pogingen,
                   wait |-> TRUE]
  ELSE items[p]]

\* send_flush: the c oldest of the picked points go.
SendFlush(c, partial) ==
  /\ MaySend(partial) /\ c <= Cardinality(Pick)
  /\ fly' = OldestOf(Pick, c)
  /\ hour' = Note(fly', TRUE)
  /\ round' = [active |-> TRUE, pending |-> TRUE, full |-> Full]
  /\ waited' = [waited EXCEPT !.ram = @ /\ Full]
  /\ UNCHANGED <<wacht, items, disk, cov, boots>>

\* send_flush when the radio refuses: an attempt like any other.
SendFlushFails(c, partial) ==
  /\ MaySend(partial) /\ c <= Cardinality(Pick)
  /\ LET S == OldestOf(Pick, c)
     IN /\ items' = Unheard(S)
        /\ Save(items', Note(S, FALSE), waited.ram /\ Full)
  /\ round' = [Stopped(items) EXCEPT !.full = Full] /\ cov' = StopsCov
  /\ UNCHANGED <<wacht, fly, boots>>

\* flush_done(true), and the coverage that goes with the repetition.
Heard(firm, strong) ==
  /\ fly # {} /\ (strong => firm)
  /\ items' = Without(items, fly) /\ fly' = {}
  /\ Save(items', [hour EXCEPT ![Len(hour)].cnt = @ + 1, ![Len(hour)].heard = TRUE], FALSE)
  /\ round' = IF DOMAIN items' = {} THEN [round EXCEPT !.active = FALSE, !.pending = FALSE]
              ELSE round
  /\ cov' = [stable |-> firm \/ cov.stable, strong |-> strong]
  /\ UNCHANGED <<wacht, boots>>

\* flush_done(false): one attempt more and a wait for each point; the round
\* stops until there is new coverage.
NotHeard ==
  /\ fly # {}
  /\ items' = Unheard(fly) /\ fly' = {}
  /\ Save(items', hour, waited.ram)
  /\ round' = Stopped(items') /\ cov' = StopsCov
  /\ UNCHANGED <<wacht, boots>>

\* fifo_confirm_seqs: a T1F confirms the attempt i.  One that was not heard is
\* counted after all (and again, when its repetition is heard later).  A T1F is
\* strong coverage.
Confirmed(i) ==
  /\ hour[i].known
  /\ items' = Without(items, hour[i].pts)
  /\ LET late == ~hour[i].heard
         h == [hour EXCEPT ![i].cnt = IF late THEN @ + 1 ELSE @, ![i].known = FALSE]
         changed == items' # items \/ late
     IN \E w \in {waited.ram, FALSE} :
          /\ late \/ w = waited.ram
          /\ IF changed THEN Save(items', h, w)
             ELSE hour' = h /\ UNCHANGED <<disk, waited>>
  /\ cov' = [stable |-> TRUE, strong |-> TRUE]
  /\ UNCHANGED <<wacht, round, fly, boots>>

\* A restart: the queue, the rings and the time for fifo_wacht come from the
\* file (fifo_load).
Reboot ==
  /\ boots < MaxBoots /\ boots' = boots + 1
  /\ items' = disk
  /\ round' = [active |-> FALSE, pending |-> FALSE, full |-> FALSE]
  /\ fly' = {} /\ cov' = [stable |-> FALSE, strong |-> FALSE]
  /\ waited' = [waited EXCEPT !.ram = waited.file]
  /\ hour' = [i \in DOMAIN hour |-> [hour[i] EXCEPT !.try = hour[i].tryFile,
                                       !.cnt = hour[i].cntFile, !.known = FALSE]]
  /\ UNCHANGED <<wacht, disk>>

Next ==
  \/ SaveNew \/ CoverageOld \/ WachtOver \/ HourOver
  \/ \E firm, strong \in BOOLEAN : Coverage(firm, strong) \/ Heard(firm, strong)
  \/ \E p \in Times : Arrive(p) \/ RetryDue(p)
  \/ ParkedReset \/ FlushWaits \/ FlushBegin \/ FlushPause \/ FlushStop
  \/ \E c \in Times, partial \in BOOLEAN : SendFlush(c, partial) \/ SendFlushFails(c, partial)
  \/ NotHeard
  \/ \E i \in DOMAIN hour : Confirmed(i)
  \/ Reboot

\* Waits end.  The tracker gets strong coverage now and then; then it is, often
\* enough, at rest with its radio awake, where parked points start anew and a
\* message may go.  Whether the radio takes it and a repeater is heard does not
\* depend on its points: a point that may go again and again is sent, and one that
\* is sent again and again is heard.
Fairness ==
  /\ WF_vars(WachtOver) /\ WF_vars(HourOver) /\ WF_vars(Coverage(TRUE, TRUE))
  /\ SF_vars(ParkedReset) /\ WF_vars(NotHeard \/ Heard(TRUE, TRUE))
  /\ \A p \in Times :
       /\ WF_vars(RetryDue(p))
       /\ SF_vars(\E c \in Times : SendFlush(c, TRUE) /\ p \in fly')
       /\ SF_vars(p \in fly /\ Heard(TRUE, TRUE))

Spec == Init /\ [][Next]_vars /\ Fairness
-----------------------------------------------------------------------------
\* "Vast plafond: hoogstens 2 x fifo_per_uur pogingen per uur in totaal":
\* whatever mixture of full, partial, refused and confirmed messages (fl_cap).
\* A restart forgets an attempt whose outcome was not known (send_flush notes
\* it, flush_done saves it), so each restart allows one more.
AttemptsCapped == Len(hour) <= 2 * PerHour + boots

\* "hoogstens fifo_per_uur herhaalde Q-berichten per uur": also though the
\* outcome of a message comes after the limit was looked at, and a T1F counts
\* messages of earlier (fl_cap, flush_done, fifo_confirm_seqs).
RepeatedCapped == Cardinality({i \in DOMAIN hour : hour[i].heard}) <= PerHour


\* "In trackermodus slaapt ook de radio zodra er niets te verzenden of te
\* ontvangen valt": an empty queue does not keep the radio awake for ever.
EmptyQueueSleeps == (Queued = {} /\ Awake) ~> ~(Queued = {} /\ Awake)
=============================================================================
