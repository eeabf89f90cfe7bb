-------------------------------- MODULE Sos --------------------------------
(***************************************************************************)
(* A SOS from end to end.  The tracker sends a series of messages          *)
(* (MtTracker.cpp, step_sos); the server stores each one, reports it to    *)
(* the recipients of an alert rule (alerts.py) and confirms it with a T1A, *)
(* after which the tracker sounds a tone.                                  *)
(*                                                                         *)
(* The server is one event loop: a handler stands still where it awaits    *)
(* the browsers (Hub.send), the 4 s before a T1A, or the companion; then   *)
(* other messages, other copies of the same one and the sender of reports  *)
(* go on.  The mesh loses, delays and repeats.  There is one tracker, and  *)
(* one rule with one recipient.                                            *)
(***************************************************************************)
EXTENDS Naturals, SequencesExt

CONSTANTS
  MaxSos,     \* bound: how often the button is held
  Series,     \* messages of a SOS (3, also the size of s_sos_seq)
  MaxCopies,  \* bound: copies of messages that reach the server
  Rounds,     \* alert_rounds
  MaxFaults   \* bound: errors of the database and restarts of the server

ASSUME SosAssumption ==
  /\ {MaxSos, MaxCopies, MaxFaults} \subseteq Nat
  /\ Series \in Nat \ {0} /\ Rounds \in Nat \ {0}

VARIABLES
  seq,        \* numbers given so far: those of the messages sent
  left,       \* s_sos_left
  series,     \* s_sos_seq[0 .. s_sos_n - 1]
  conf,       \* s_sos_conf: places in it that were confirmed
  since,      \* ghost: seq when the button was last held
  acks,       \* numbers of the T1A messages handed to the mesh
  rows,       \* numbers that is_duplicate finds in positions
  stored,     \* those whose own point is there
  halfway,    \* handlers of process between storing and fire
  later,      \* how many _sos_ack_later are asleep, per number
  acked,      \* _sos_acked
  sending,    \* how many sos_ack await send_channel, per number
  connected,  \* S.mesh.connected
  hot,        \* the cooldown of the rule: over, running, or running without
              \* the report that it was for
  queue,      \* reports to send: their number and round, and if it is due
  running,    \* the task of AlertManager.run is alive
  reported,   \* ghost: in a report, or within the cooldown of one
  told,       \* ghost: a T1A was sent in the last hour of this process
  lost,       \* ghost: numbers whose handling a failure cut short
  copies, faults

tracker == <<seq, left, series, conf, since>>
link    == <<connected, copies, faults>>
store   == <<rows, stored, halfway, lost>>
tasks   == <<later, acked, sending, acks, told>>
alerts  == <<hot, queue, running, reported>>
vars    == <<tracker, link, store, tasks, alerts>>
server  == <<link, store, tasks, alerts>>
-----------------------------------------------------------------------------
Numbers == 1 .. MaxSos * Series
Nobody  == [n \in Numbers |-> 0]
Job     == [n : Numbers, round : 1 .. Rounds, due : BOOLEAN]

Init ==
  /\ seq = 0 /\ left = 0 /\ series = <<>> /\ conf = {} /\ since = 0
  /\ connected = FALSE /\ copies = 0 /\ faults = 0
  /\ rows = {} /\ stored = {} /\ halfway = {} /\ lost = {}
  /\ later = Nobody /\ acked = {} /\ sending = Nobody /\ acks = {} /\ told = {}
  /\ hot = "over" /\ queue = <<>> /\ running = TRUE /\ reported = {}

\* A failure: one of the few that the bound allows.
Fault == faults < MaxFaults /\ faults' = faults + 1
-----------------------------------------------------------------------------
(* The tracker. *)

\* step_sos with send_report, when the list is s.  The number counts also when
\* there is no channel to send on: a message that never left is one that
\* never arrives.
SendsOne(remaining, s) ==
  /\ seq' = seq + 1 /\ left' = remaining - 1
  /\ series' = IF Len(s) < Series THEN Append(s, seq + 1) ELSE s

\* MUTANT: the list of the last series stays.
Hold_KeepsSeries ==
  /\ seq + Series <= MaxSos * Series
  /\ SendsOne(Series, series)
  /\ conf' = {} /\ since' = seq
  /\ UNCHANGED server

\* The button, with a channel to send on: a new series, also in the middle of
\* another.
Hold ==
  /\ seq + Series <= MaxSos * Series
  /\ SendsOne(Series, <<>>)
  /\ conf' = {} /\ since' = seq
  /\ UNCHANGED server

\* 60 s after the one before.
StepSos ==
  /\ left > 0
  /\ SendsOne(left, series)
  /\ UNCHANGED <<conf, since, server>>

\* A T1A reaches the tracker: now, later, again or never.
ChannelText(n) ==
  /\ n \in acks
  /\ \E k \in DOMAIN series :
       /\ series[k] = n /\ k \notin conf
       /\ conf' = conf \cup {k}
  /\ UNCHANGED <<seq, left, series, since, server>>

\* The tracker restarts; its numbers go on (MtSeq).
Reboot ==
  /\ left > 0 \/ series # <<>>
  /\ left' = 0 /\ series' = <<>> /\ conf' = {}
  /\ UNCHANGED <<seq, since, server>>
-----------------------------------------------------------------------------
(* The handlers of the server. *)

\* Companion and server find or lose each other.
MeshTurns ==
  /\ connected' = ~connected
  /\ UNCHANGED <<tracker, copies, faults, store, tasks, alerts>>

\* A message reaches the companion, which hands it to the server.
Copy(n) == connected /\ n <= seq /\ copies < MaxCopies /\ copies' = copies + 1

\* on_channel until its first await.  A repetition of what is in the table is
\* confirmed at once, and nothing else is done with it.
OnChannel(n) ==
  /\ Copy(n)
  /\ \/ /\ n \in rows
        /\ later' = [later EXCEPT ![n] = @ + 1]
        /\ UNCHANGED store
     \/ /\ n \notin rows
        /\ rows' = rows \cup {n} /\ stored' = stored \cup {n} /\ halfway' = halfway \cup {n}
        /\ UNCHANGED <<later, lost>>
  /\ UNCHANGED <<tracker, connected, faults, acked, sending, acks, told, alerts>>

\* ingest.handle fails, maybe with earlier points of the message stored and
\* its own point not: every statement is a commit.
HandleFails(n) ==
  /\ Copy(n) /\ n \notin rows /\ Fault
  /\ \/ rows' = rows \cup {n} /\ lost' = lost \cup {n}
     \/ UNCHANGED <<rows, lost>>
  /\ UNCHANGED <<tracker, connected, stored, halfway, tasks, alerts>>

\* MUTANT: nothing is queued while there is nobody to send it to.
Fire_Connected(n) ==
  /\ n \in halfway /\ halfway' = halfway \ {n}
  /\ hot' = IF hot = "over" THEN "running" ELSE hot
  /\ queue' = IF hot = "over" /\ connected THEN Append(queue, [n |-> n, round |-> 1, due |-> TRUE]) ELSE queue
  /\ reported' = IF hot = "running" \/ (hot = "over" /\ connected) THEN reported \cup {n} ELSE reported
  /\ lost' = IF hot = "mute" THEN lost \cup {n} ELSE lost
  /\ later' \in {later, [later EXCEPT ![n] = @ + 1]}
  /\ UNCHANGED <<tracker, link, rows, stored, acked, sending, acks, told, running>>

\* process goes on: alerts.fire, and what follows it in on_channel until the
\* T1A is planned.  An error in what follows costs the T1A.
Fire(n) ==
  /\ n \in halfway /\ halfway' = halfway \ {n}
  /\ \/ /\ hot = "over" /\ hot' = "running"
        /\ queue' = Append(queue, [n |-> n, round |-> 1, due |-> TRUE])
        /\ reported' = reported \cup {n}
        /\ UNCHANGED lost
     \/ /\ hot = "running" /\ reported' = reported \cup {n}
        /\ UNCHANGED <<hot, queue, lost>>
     \/ /\ hot = "mute" /\ lost' = lost \cup {n}
        /\ UNCHANGED <<hot, queue, reported>>
  /\ later' \in {later, [later EXCEPT ![n] = @ + 1]}
  /\ UNCHANGED <<tracker, link, rows, stored, acked, sending, acks, told, running>>

\* process fails before fire, or add_alert_log fails when fire has already
\* noted the time for the cooldown.
ProcessFails(n) ==
  /\ n \in halfway /\ halfway' = halfway \ {n} /\ lost' = lost \cup {n} /\ Fault
  /\ \/ hot = "over" /\ hot' = "mute"
     \/ UNCHANGED hot
  /\ UNCHANGED <<tracker, connected, copies, rows, stored, tasks, queue, running, reported>>

CooldownOver ==
  /\ hot # "over" /\ hot' = "over"
  /\ UNCHANGED <<tracker, link, store, tasks, queue, running, reported>>
-----------------------------------------------------------------------------
(* Confirming. *)

\* MUTANT: the number is noted when it was sent.
SosAck_NotesAfter(n) ==
  /\ later[n] > 0 /\ later' = [later EXCEPT ![n] = @ - 1]
  /\ IF n \in told \/ ~connected
     THEN UNCHANGED <<acked, sending>>
     ELSE acked' = acked \cup {n} /\ sending' = [sending EXCEPT ![n] = @ + 1]
  /\ UNCHANGED <<tracker, link, store, acks, told, alerts>>

\* _sos_ack_later wakes: sos_ack until it awaits the companion.
SosAck(n) ==
  /\ later[n] > 0 /\ later' = [later EXCEPT ![n] = @ - 1]
  /\ IF n \in acked \/ ~connected
     THEN UNCHANGED <<acked, sending>>
     ELSE acked' = acked \cup {n} /\ sending' = [sending EXCEPT ![n] = @ + 1]
  /\ UNCHANGED <<tracker, link, store, acks, told, alerts>>

\* What follows the await: it was sent, or it failed though it may have left.
SosAckEnds(n) ==
  /\ sending[n] > 0 /\ sending' = [sending EXCEPT ![n] = @ - 1]
  /\ \/ acks' = acks \cup {n} /\ told' = told \cup {n} /\ UNCHANGED acked
     \/ acks' \in {acks, acks \cup {n}} /\ acked' = acked \ {n} /\ UNCHANGED told
  /\ UNCHANGED <<tracker, link, store, later, alerts>>

\* An hour later, sos_ack forgets the number.
Forget(n) ==
  /\ n \in acked /\ sending[n] = 0
  /\ acked' = acked \ {n} /\ told' = told \ {n}
  /\ UNCHANGED <<tracker, link, store, later, sending, acks, alerts>>
-----------------------------------------------------------------------------
(* Sending the reports: AlertManager.run. *)

Later(job) == [job EXCEPT !.round = @ + 1, !.due = FALSE]

\* Not its turn yet: behind the others.
Postpone ==
  /\ running /\ queue # <<>> /\ ~Head(queue).due
  /\ queue' = Append(Tail(queue), Head(queue))
  /\ UNCHANGED <<tracker, link, store, tasks, hot, running, reported>>

\* MUTANT: the rounds are not counted.
Send_Again ==
  /\ running /\ queue # <<>> /\ Head(queue).due
  /\ \/ /\ connected \/ Head(queue).round = Rounds
        /\ queue' = Tail(queue)
     \/ queue' = Append(Tail(queue), [Head(queue) EXCEPT !.due = FALSE])
  /\ UNCHANGED <<tracker, link, store, tasks, hot, running, reported>>

\* It arrives, it fails for the last time, or it waits for a next round.
Send ==
  /\ running /\ queue # <<>> /\ Head(queue).due
  /\ \/ /\ connected \/ Head(queue).round = Rounds
        /\ queue' = Tail(queue)
     \/ /\ Head(queue).round < Rounds
        /\ queue' = Append(Tail(queue), Later(Head(queue)))
  /\ UNCHANGED <<tracker, link, store, tasks, hot, running, reported>>

\* finish_alert_log fails: nothing catches it, and nothing starts run again.
RunDies ==
  /\ running /\ queue # <<>> /\ Head(queue).due /\ Fault
  /\ running' = FALSE /\ queue' = Tail(queue)
  /\ UNCHANGED <<tracker, connected, copies, store, tasks, hot, reported>>

\* alert_round_pause_s went by.
TurnComes ==
  /\ \E i \in DOMAIN queue : ~queue[i].due /\ queue' = [queue EXCEPT ![i].due = TRUE]
  /\ UNCHANGED <<tracker, link, store, tasks, hot, running, reported>>

\* Everything but the tables is in memory.
Restart ==
  /\ Fault
  /\ halfway' = {} /\ lost' = lost \cup halfway
  /\ later' = Nobody /\ sending' = Nobody /\ acked' = {} /\ told' = {}
  /\ connected' = FALSE /\ hot' = "over" /\ queue' = <<>> /\ running' = TRUE
  /\ UNCHANGED <<tracker, copies, rows, stored, acks, reported>>
-----------------------------------------------------------------------------
Next ==
  \/ Hold \/ StepSos \/ Reboot \/ MeshTurns \/ CooldownOver
  \/ \E n \in Numbers :
       \/ ChannelText(n) \/ OnChannel(n) \/ HandleFails(n) \/ Fire(n) \/ ProcessFails(n)
       \/ SosAck(n) \/ SosAckEnds(n) \/ Forget(n)
  \/ Postpone \/ Send \/ RunDies \/ TurnComes \/ Restart

\* The task that sends the reports runs on, and so does the clock.
Spec == Init /\ [][Next]_vars /\ WF_vars(Postpone \/ Send) /\ WF_vars(TurnComes)
-----------------------------------------------------------------------------
\* Every variable has its type.
SosTypeOK ==
  /\ seq \in 0 .. MaxSos * Series /\ since \in 0 .. seq
  /\ left \in 0 .. Series - 1 /\ series \in Seq(Numbers) /\ Len(series) <= Series
  /\ conf \subseteq DOMAIN series
  /\ acks \cup rows \cup stored \cup halfway \subseteq Numbers
  /\ acked \cup reported \cup told \cup lost \subseteq Numbers
  /\ later \in [Numbers -> Nat] /\ sending \in [Numbers -> Nat]
  /\ connected \in BOOLEAN /\ running \in BOOLEAN
  /\ hot \in {"over", "running", "mute"} /\ queue \in Seq(Job)
  /\ copies \in 0 .. MaxCopies /\ faults \in 0 .. MaxFaults

\* The tone is about the SOS that the wearer sent last, and true: the server
\* has a message of that series, not of an earlier one, whatever T1A comes
\* late (mt_tracker_sos, mt_channel_text, sos_ack).  Only a failure half way
\* through storing it makes the tone untrue.
ToneIsTrue == \A k \in conf : series[k] > since /\ series[k] \in stored \cup lost

\* Nobody believes to be heard of whom nobody is told: a confirmed SOS is in a
\* report or within the cooldown of one, or the handler of its first copy is
\* still on its way to it, unless a failure cut that handler short.  A
\* repetition is confirmed without a report of its own (on_channel, fire).
ConfirmedIsReported == acks \subseteq reported \cup halfway \cup lost

\* "One signed confirmation per SOS message": copies whose tasks wake while
\* another one is being sent, or was in the last hour, send none (sos_ack).
OneAckAtATime == \A n \in Numbers : sending[n] + (IF n \in told THEN 1 ELSE 0) <= 1

\* A report is sent or given up in the end, also when reports of other SOS
\* come between its rounds, as long as the task lives (AlertManager.run).
EveryReportEnds ==
  \A n \in Numbers :
    (\E i \in DOMAIN queue : queue[i].n = n) ~> (~running \/ \A i \in DOMAIN queue : queue[i].n # n)
=============================================================================
