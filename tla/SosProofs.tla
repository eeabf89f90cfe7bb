----------------------------- MODULE SosProofs -----------------------------
(***************************************************************************)
(* Proofs about Sos, for series of any length, any number of copies,       *)
(* rounds and failures.                                                    *)
(***************************************************************************)
EXTENDS Sos, SequenceTheorems, TLAPS

(***************************************************************************)
(* The parts of the inductive invariant.  What the properties say of the   *)
(* T1A messages must hold before they are sent: of every number that the   *)
(* server may come to confirm, because it has a row, a task that sleeps or *)
(* a task that sends.                                                      *)
(***************************************************************************)
TrackerOK ==
  /\ seq \in Nat /\ since \in Nat /\ since <= seq
  /\ left \in 0 .. Series - 1 /\ seq + left <= MaxSos * Series
  /\ series \in Seq(Numbers) /\ Len(series) <= Series
  /\ \A k \in DOMAIN series : since < series[k]
  /\ conf \subseteq DOMAIN series

SetsOK ==
  /\ acks \subseteq Numbers /\ rows \subseteq Numbers /\ stored \subseteq Numbers
  /\ halfway \subseteq Numbers /\ lost \subseteq Numbers
  /\ acked \subseteq Numbers /\ told \subseteq Numbers /\ reported \subseteq Numbers
  /\ later \in [Numbers -> Nat] /\ sending \in [Numbers -> Nat]

LinkOK ==
  /\ connected \in BOOLEAN /\ running \in BOOLEAN
  /\ hot \in {"over", "running", "mute"}
  /\ copies \in 0 .. MaxCopies /\ faults \in 0 .. MaxFaults

Known == stored \cup lost
Dealt == reported \cup halfway \cup lost
Confirms == rows \cup halfway \cup acks \cup {n \in Numbers : later[n] > 0 \/ sending[n] > 0}

Backed == Confirms \subseteq Known /\ Confirms \subseteq Dealt

ToneKnown == \A k \in conf : series[k] \in Known

Once ==
  /\ told \subseteq acked
  /\ \A n \in Numbers : sending[n] <= 1 /\ (sending[n] > 0 => n \in acked \ told)

SosInv == TrackerOK /\ SetsOK /\ LinkOK /\ queue \in Seq(Job) /\ Backed /\ ToneKnown /\ Once

LEMMA SosInvInit == Init => SosInv
<1>. SUFFICES ASSUME Init PROVE SosInv
  OBVIOUS
<1>. USE SosAssumption
<1>1. MaxSos * Series \in Nat
  OBVIOUS
<1>2. TrackerOK
  BY <1>1 DEF Init, TrackerOK
<1>3. SetsOK
  BY DEF Init, SetsOK, Nobody
<1>5. LinkOK
  <2>1. connected \in BOOLEAN /\ running \in BOOLEAN /\ hot \in {"over", "running", "mute"}
    BY Zenon DEF Init
  <2>2. copies \in 0 .. MaxCopies /\ faults \in 0 .. MaxFaults
    BY DEF Init
  <2>. QED  BY <2>1, <2>2, Zenon DEF LinkOK
<1>4. Backed /\ ToneKnown /\ Once
  BY DEF Init, Backed, Confirms, ToneKnown, Once, Nobody
<1>. QED
  BY <1>2, <1>3, <1>4, <1>5 DEF SosInv, Init

-----------------------------------------------------------------------------
(* The tracker. *)

LEMMA SendsOneOK ==
  ASSUME seq \in Nat, NEW remaining \in 1 .. Series, NEW s \in Seq(Numbers),
         Len(s) <= Series, seq + remaining <= MaxSos * Series, SendsOne(remaining, s)
  PROVE  /\ seq' = seq + 1 /\ left' \in 0 .. Series - 1 /\ seq' + left' <= MaxSos * Series
         /\ series' \in Seq(Numbers) /\ Len(series') <= Series
         /\ DOMAIN s \subseteq DOMAIN series'
         /\ \A k \in DOMAIN s : series'[k] = s[k]
         /\ \A k \in DOMAIN series' : k \in DOMAIN s \/ series'[k] = seq + 1
<1>. USE SosAssumption
<1>1. MaxSos * Series \in Nat
  OBVIOUS
<1>2. seq + 1 \in Numbers
  BY <1>1 DEF Numbers
<1>3. seq' = seq + 1 /\ left' \in 0 .. Series - 1 /\ seq' + left' <= MaxSos * Series
  BY <1>1 DEF SendsOne
<1>4. CASE Len(s) < Series
  BY <1>2, <1>3, <1>4 DEF SendsOne
<1>5. CASE ~(Len(s) < Series)
  BY <1>3, <1>5 DEF SendsOne
<1>. QED
  BY <1>4, <1>5

LEMMA TrackerStep ==
  ASSUME TrackerOK, SetsOK, Backed, ToneKnown,
         Hold \/ StepSos \/ Reboot \/ \E n \in Numbers : ChannelText(n)
  PROVE  TrackerOK' /\ ToneKnown' /\ UNCHANGED server
<1>. USE SosAssumption
<1>1. CASE Hold
  <2>1. SendsOne(Series, <<>>) /\ seq + Series <= MaxSos * Series
        /\ conf' = {} /\ since' = seq /\ UNCHANGED server
    BY <1>1 DEF Hold
  <2>a. <<>> \in Seq(Numbers) /\ Len(<<>>) <= Series /\ Series \in 1 .. Series
    OBVIOUS
  <2>2. /\ seq' = seq + 1 /\ left' \in 0 .. Series - 1 /\ seq' + left' <= MaxSos * Series
        /\ series' \in Seq(Numbers) /\ Len(series') <= Series
        /\ \A k \in DOMAIN series' : k \in DOMAIN <<>> \/ series'[k] = seq + 1
    BY <2>1, <2>a, SendsOneOK, Zenon DEF TrackerOK
  <2>3. \A k \in DOMAIN series' : series'[k] = seq + 1
    BY <2>2
  <2>. QED  BY <2>1, <2>2, <2>3 DEF TrackerOK, ToneKnown
<1>2. CASE StepSos
  <2>1. SendsOne(left, series) /\ left > 0 /\ conf' = conf /\ since' = since /\ UNCHANGED server
    BY <1>2 DEF StepSos
  <2>2. /\ seq' = seq + 1 /\ left' \in 0 .. Series - 1 /\ seq' + left' <= MaxSos * Series
        /\ series' \in Seq(Numbers) /\ Len(series') <= Series
        /\ DOMAIN series \subseteq DOMAIN series'
        /\ \A k \in DOMAIN series : series'[k] = series[k]
        /\ \A k \in DOMAIN series' : k \in DOMAIN series \/ series'[k] = seq + 1
    BY <2>1, SendsOneOK DEF TrackerOK
  <2>3. \A k \in DOMAIN series' : since' < series'[k]
    <3>. SUFFICES ASSUME NEW k \in DOMAIN series' PROVE since < series'[k]
      BY <2>1
    <3>1. CASE k \in DOMAIN series
      BY <2>2, <3>1 DEF TrackerOK
    <3>2. CASE series'[k] = seq + 1
      BY <3>2 DEF TrackerOK
    <3>. QED  BY <2>2, <3>1, <3>2
  <2>4. ToneKnown'
    BY <2>1, <2>2 DEF TrackerOK, ToneKnown, Known, server, store
  <2>. QED  BY <2>1, <2>2, <2>3, <2>4 DEF TrackerOK
<1>3. CASE Reboot
  BY <1>3 DEF Reboot, TrackerOK, ToneKnown
<1>4. CASE \E n \in Numbers : ChannelText(n)
  <2>1. PICK n \in Numbers : ChannelText(n)
    BY <1>4
  <2>2. PICK k \in DOMAIN series : series[k] = n /\ conf' = conf \cup {k}
    BY <2>1 DEF ChannelText
  <2>3. n \in Known
    BY <2>1 DEF ChannelText, Backed, Confirms
  <2>4. UNCHANGED <<seq, left, series, since, server>>
    BY <2>1 DEF ChannelText
  <2>5. Known' = Known
    BY <2>4 DEF Known, server, store
  <2>. QED  BY <2>2, <2>3, <2>4, <2>5 DEF TrackerOK, ToneKnown
<1>. QED
  BY <1>1, <1>2, <1>3, <1>4

-----------------------------------------------------------------------------
(* The handlers and the tasks of the server: what they leave alone, and    *)
(* the types.                                                              *)

Handlers(n) == OnChannel(n) \/ HandleFails(n) \/ Fire(n) \/ ProcessFails(n)
Acks(n) == SosAck(n) \/ SosAckEnds(n) \/ Forget(n)
Sender == Postpone \/ Send \/ RunDies \/ TurnComes

LEMMA BumpOK ==
  ASSUME NEW f \in [Numbers -> Nat], NEW n \in Numbers
  PROVE  /\ [f EXCEPT ![n] = @ + 1] \in [Numbers -> Nat]
         /\ f[n] > 0 => [f EXCEPT ![n] = @ - 1] \in [Numbers -> Nat]
OBVIOUS

LEMMA HandlersOK ==
  ASSUME SetsOK, LinkOK, Backed, ToneKnown, NEW n \in Numbers, Handlers(n)
  PROVE  SetsOK' /\ LinkOK' /\ Backed' /\ ToneKnown' /\ UNCHANGED <<tracker, acked, told, sending>>
<1>. USE SosAssumption DEF LinkOK, SetsOK
<1>1. ASSUME UNCHANGED <<tracker, acks, sending>>, Known \subseteq Known', Dealt \subseteq Dealt',
             later' = later \/ (later' = [later EXCEPT ![n] = @ + 1] /\ n \in Known' /\ n \in Dealt'),
             rows' = rows \/ (rows' = rows \cup {n} /\ n \in Known' /\ n \in Dealt'),
             halfway' \subseteq halfway \/ (halfway' = halfway \cup {n} /\ n \in Known' /\ n \in Dealt')
      PROVE  Backed' /\ ToneKnown'
  <2>1. CASE later' = later /\ rows' = rows /\ halfway' \subseteq halfway
    <3>1. Confirms' \subseteq Confirms
      BY <1>1, <2>1 DEF Confirms
    <3>. QED  BY <1>1, <3>1 DEF Backed, ToneKnown, tracker
  <2>2. CASE n \in Known' /\ n \in Dealt'
    <3>1. \A m \in Numbers : m # n => later'[m] = later[m]
      BY <1>1
    <3>2. Confirms' \subseteq Confirms \cup {n}
      BY <1>1, <3>1 DEF Confirms
    <3>. QED  BY <1>1, <2>2, <3>2 DEF Backed, ToneKnown, tracker
  <2>. QED  BY <1>1, <2>1, <2>2
<1>2. CASE OnChannel(n)
  <2>1. /\ UNCHANGED <<tracker, connected, faults, acked, sending, acks, told, alerts>>
        /\ copies < MaxCopies /\ copies' = copies + 1
    BY <1>2 DEF OnChannel, Copy
  <2>2. CASE n \in rows /\ later' = [later EXCEPT ![n] = @ + 1] /\ UNCHANGED store
    <3>1. n \in Known /\ n \in Dealt
      BY <2>2 DEF Backed, Confirms
    <3>2. Known' = Known /\ Dealt' = Dealt
      BY <2>1, <2>2 DEF Known, Dealt, store, alerts
    <3>3. SetsOK' /\ LinkOK'
      BY <2>1, <2>2, BumpOK DEF store, alerts
    <3>. QED  BY <1>1, <2>1, <2>2, <3>1, <3>2, <3>3 DEF store
  <2>3. CASE /\ rows' = rows \cup {n} /\ stored' = stored \cup {n} /\ halfway' = halfway \cup {n}
             /\ UNCHANGED <<later, lost>>
    <3>1. Known \subseteq Known' /\ Dealt \subseteq Dealt' /\ n \in Known' /\ n \in Dealt'
      BY <2>1, <2>3 DEF Known, Dealt, alerts
    <3>2. SetsOK' /\ LinkOK'
      BY <2>1, <2>3 DEF alerts
    <3>. QED  BY <1>1, <2>1, <2>3, <3>1, <3>2
  <2>. QED  BY <1>2, <2>2, <2>3 DEF OnChannel
<1>3. CASE HandleFails(n)
  <2>1. /\ UNCHANGED <<tracker, connected, stored, halfway, tasks, alerts>>
        /\ copies < MaxCopies /\ copies' = copies + 1 /\ faults < MaxFaults /\ faults' = faults + 1
        /\ \/ rows' = rows \cup {n} /\ lost' = lost \cup {n}
           \/ UNCHANGED <<rows, lost>>
    BY <1>3 DEF HandleFails, Copy, Fault
  <2>2. /\ Known \subseteq Known' /\ Dealt \subseteq Dealt'
        /\ rows' = rows \/ (rows' = rows \cup {n} /\ n \in Known' /\ n \in Dealt')
    BY <2>1 DEF Known, Dealt, alerts
  <2>3. SetsOK' /\ LinkOK'
    BY <2>1 DEF alerts, tasks
  <2>. QED  BY <1>1, <2>1, <2>2, <2>3 DEF tasks
<1>4. CASE Fire(n)
  <2>1. /\ UNCHANGED <<tracker, link, rows, stored, acked, sending, acks, told, running>>
        /\ n \in halfway /\ halfway' = halfway \ {n}
        /\ later' \in {later, [later EXCEPT ![n] = @ + 1]}
        /\ hot' \in {"over", "running", "mute"}
        /\ \/ reported' = reported \cup {n} /\ lost' = lost
           \/ reported' = reported /\ lost' = lost \cup {n}
    BY <1>4 DEF Fire
  <2>2. Known \subseteq Known' /\ Dealt \subseteq Dealt' /\ n \in Known' /\ n \in Dealt'
    BY <2>1 DEF Known, Dealt, Backed, Confirms
  <2>3. SetsOK' /\ LinkOK'
    BY <2>1, BumpOK DEF link
  <2>. QED  BY <1>1, <2>1, <2>2, <2>3
<1>5. CASE ProcessFails(n)
  <2>1. /\ UNCHANGED <<tracker, connected, copies, rows, stored, tasks, queue, running, reported>>
        /\ n \in halfway /\ halfway' = halfway \ {n} /\ lost' = lost \cup {n}
        /\ faults < MaxFaults /\ faults' = faults + 1 /\ hot' \in {"over", "running", "mute"}
    BY <1>5 DEF ProcessFails, Fault
  <2>2. Known \subseteq Known' /\ Dealt \subseteq Dealt'
    BY <2>1 DEF Known, Dealt
  <2>3. SetsOK' /\ LinkOK'
    BY <2>1 DEF tasks
  <2>. QED  BY <1>1, <2>1, <2>2, <2>3 DEF tasks
<1>. QED
  BY <1>2, <1>3, <1>4, <1>5 DEF Handlers

LEMMA AcksOK ==
  ASSUME SetsOK, LinkOK, Backed, ToneKnown, NEW n \in Numbers, Acks(n)
  PROVE  SetsOK' /\ LinkOK' /\ Backed' /\ ToneKnown' /\ UNCHANGED <<tracker, alerts>>
<1>. USE DEF SetsOK
<1>1. UNCHANGED <<tracker, link, store, alerts>>
  BY DEF Acks, SosAck, SosAckEnds, Forget
<1>2. LinkOK' /\ Known' = Known /\ Dealt' = Dealt /\ rows' = rows /\ halfway' = halfway
  BY <1>1 DEF LinkOK, Known, Dealt, link, store, alerts
<1>3. SetsOK' /\ Confirms' \subseteq Confirms
  <2>1. CASE SosAck(n)
    <3>1. later[n] > 0 /\ later' = [later EXCEPT ![n] = @ - 1] /\ acks' = acks /\ told' = told
          /\ (acked' = acked \/ acked' = acked \cup {n})
          /\ (sending' = sending \/ sending' = [sending EXCEPT ![n] = @ + 1])
      BY <2>1 DEF SosAck
    <3>2. later' \in [Numbers -> Nat] /\ sending' \in [Numbers -> Nat]
      BY <3>1, BumpOK
    <3>3. \A m \in Numbers : later'[m] > 0 \/ sending'[m] > 0 => later[m] > 0 \/ sending[m] > 0
      BY <3>1
    <3>. QED  BY <1>1, <3>1, <3>2, <3>3 DEF Confirms, store, alerts
  <2>2. CASE SosAckEnds(n)
    <3>1. sending[n] > 0 /\ sending' = [sending EXCEPT ![n] = @ - 1] /\ later' = later
          /\ acks' \subseteq acks \cup {n} /\ told' \subseteq told \cup {n} /\ acked' \subseteq acked
      BY <2>2 DEF SosAckEnds
    <3>2. sending' \in [Numbers -> Nat]
      BY <3>1, BumpOK
    <3>3. \A m \in Numbers : sending'[m] > 0 => sending[m] > 0
      BY <3>1
    <3>. QED  BY <1>1, <3>1, <3>2, <3>3 DEF Confirms, store, alerts
  <2>3. CASE Forget(n)
    BY <1>1, <2>3 DEF Forget, Confirms, store, alerts
  <2>. QED  BY <2>1, <2>2, <2>3 DEF Acks
<1>. QED
  BY <1>1, <1>2, <1>3 DEF Backed, ToneKnown, tracker

LEMMA AcksOnce ==
  ASSUME SetsOK, Once, NEW n \in Numbers, Acks(n)
  PROVE  Once'
<1>. USE DEF SetsOK
<1>1. CASE SosAck(n)
  <2>1. CASE acked' = acked /\ sending' = sending
    BY <1>1, <2>1 DEF SosAck, Once
  <2>2. CASE /\ n \notin acked /\ acked' = acked \cup {n}
             /\ sending' = [sending EXCEPT ![n] = @ + 1]
    <3>1. sending[n] = 0 /\ n \notin told /\ told' = told
      BY <1>1, <2>2 DEF SosAck, Once
    <3>. QED  BY <2>2, <3>1 DEF Once
  <2>. QED  BY <1>1, <2>1, <2>2 DEF SosAck
<1>2. CASE SosAckEnds(n)
  <2>1. sending[n] = 1 /\ n \in acked \ told /\ sending' = [sending EXCEPT ![n] = @ - 1]
    BY <1>2 DEF SosAckEnds, Once
  <2>2. /\ sending'[n] = 0
        /\ \A m \in Numbers : m # n => sending'[m] = sending[m]
    BY <2>1
  <2>3. \/ told' = told \cup {n} /\ acked' = acked
        \/ told' = told /\ acked' = acked \ {n}
    BY <1>2 DEF SosAckEnds
  <2>4. told' \subseteq acked'
    BY <2>1, <2>3 DEF Once
  <2>5. \A m \in Numbers : sending'[m] <= 1 /\ (sending'[m] > 0 => m \in acked' \ told')
    BY <2>2, <2>3 DEF Once
  <2>. QED  BY <2>4, <2>5 DEF Once
<1>3. CASE Forget(n)
  BY <1>3 DEF Forget, Once
<1>. QED
  BY <1>1, <1>2, <1>3 DEF Acks

LEMMA RestartOK ==
  ASSUME SetsOK, LinkOK, Backed, ToneKnown, Restart
  PROVE  SetsOK' /\ LinkOK' /\ Backed' /\ ToneKnown' /\ Once' /\ queue' = <<>> /\ UNCHANGED tracker
<1>1. /\ UNCHANGED <<tracker, copies, rows, stored, acks, reported>>
      /\ halfway' = {} /\ lost' = lost \cup halfway
      /\ later' = Nobody /\ sending' = Nobody /\ acked' = {} /\ told' = {} /\ queue' = <<>>
  BY DEF Restart
<1>2. connected' \in BOOLEAN /\ running' \in BOOLEAN /\ hot' \in {"over", "running", "mute"}
  BY Zenon DEF Restart
<1>3. copies' \in 0 .. MaxCopies /\ faults' \in 0 .. MaxFaults
  BY SosAssumption DEF Restart, Fault, LinkOK
<1>4. LinkOK'
  BY <1>2, <1>3, Zenon DEF LinkOK
<1>5. SetsOK' /\ Once'
  BY <1>1 DEF SetsOK, Once, Nobody
<1>6. Known \subseteq Known' /\ Dealt \subseteq Dealt' /\ Confirms' \subseteq Confirms
  BY <1>1 DEF Known, Dealt, Confirms, Nobody
<1>. QED
  BY <1>1, <1>4, <1>5, <1>6 DEF Backed, ToneKnown, tracker

-----------------------------------------------------------------------------
(* The reports. *)

LEMMA SenderOK ==
  ASSUME LinkOK, queue \in Seq(Job), Sender
  PROVE  LinkOK' /\ queue' \in Seq(Job) /\ UNCHANGED <<tracker, store, tasks, reported>>
<1>1. UNCHANGED <<tracker, store, tasks, reported, connected, copies, hot>>
  BY DEF Sender, Postpone, Send, RunDies, TurnComes, link
<1>2. running' \in BOOLEAN
  BY Zenon DEF Sender, Postpone, Send, RunDies, TurnComes, LinkOK
<1>3. faults' \in 0 .. MaxFaults
  <2>1. faults' = faults \/ (faults < MaxFaults /\ faults' = faults + 1)
    BY DEF Sender, Postpone, Send, RunDies, TurnComes, link, Fault
  <2>. QED  BY <2>1, SosAssumption DEF LinkOK
<1>4. LinkOK'
  BY <1>1, <1>2, <1>3, Zenon DEF LinkOK
<1>5. CASE TurnComes
  <2>1. PICK i \in DOMAIN queue : queue' = [queue EXCEPT ![i].due = TRUE]
    BY <1>5 DEF TurnComes
  <2>2. [queue[i] EXCEPT !.due = TRUE] \in Job
    <3>0. queue[i] \in Job
      OBVIOUS
    <3>1. queue[i] \in [n : Numbers, round : 1 .. Rounds, due : BOOLEAN]
      BY <3>0, Zenon DEF Job
    <3>. QED  BY <3>1, Zenon DEF Job
  <2>. QED  BY <1>1, <1>4, <2>1, <2>2
<1>6. CASE Postpone \/ Send \/ RunDies
  <2>1. queue # <<>>
    BY <1>6 DEF Postpone, Send, RunDies
  <2>2. Head(queue) \in Job /\ Tail(queue) \in Seq(Job)
    BY <2>1
  <2>3. Head(queue).round < Rounds => Later(Head(queue)) \in Job
    <3>. SUFFICES ASSUME Head(queue).round < Rounds PROVE Later(Head(queue)) \in Job
      OBVIOUS
    <3>1. Head(queue) \in [n : Numbers, round : 1 .. Rounds, due : BOOLEAN]
      BY <2>2 DEF Job
    <3>2. Head(queue).round + 1 \in 1 .. Rounds
      BY <3>1, SosAssumption
    <3>. QED  BY <3>1, <3>2, Zenon DEF Job, Later
  <2>4. \A j \in Job : Append(Tail(queue), j) \in Seq(Job)
    BY <2>2
  <2>. QED  BY <1>1, <1>4, <1>6, <2>2, <2>3, <2>4 DEF Postpone, Send, RunDies
<1>. QED
  BY <1>5, <1>6 DEF Sender

LEMMA HandlersQueue ==
  ASSUME queue \in Seq(Job), NEW n \in Numbers, Handlers(n)
  PROVE  queue' \in Seq(Job)
<1>1. [n |-> n, round |-> 1, due |-> TRUE] \in Job
  BY SosAssumption DEF Job
<1>. QED
  BY <1>1 DEF Handlers, OnChannel, HandleFails, Fire, ProcessFails, alerts

LEMMA SosInvNext == SosInv /\ [Next]_vars => SosInv'
<1>. SUFFICES ASSUME SosInv, [Next]_vars PROVE SosInv'
  OBVIOUS
<1>. USE DEF SosInv
<1>1. CASE Hold \/ StepSos \/ Reboot \/ \E n \in Numbers : ChannelText(n)
  <2>1. TrackerOK' /\ ToneKnown' /\ UNCHANGED server
    BY <1>1, TrackerStep
  <2>2. SetsOK' /\ LinkOK' /\ Once' /\ queue' = queue
    BY <2>1 DEF server, link, store, tasks, alerts, SetsOK, LinkOK, Once
  <2>3. Backed'
    BY <2>1 DEF server, link, store, tasks, alerts, Backed, Known, Dealt, Confirms
  <2>. QED  BY <2>1, <2>2, <2>3
<1>2. CASE \E n \in Numbers : Handlers(n)
  <2>1. PICK n \in Numbers : Handlers(n)
    BY <1>2
  <2>2. SetsOK' /\ LinkOK' /\ Backed' /\ ToneKnown' /\ UNCHANGED <<tracker, acked, told, sending>>
    BY <2>1, HandlersOK
  <2>3. queue' \in Seq(Job)
    BY <2>1, HandlersQueue
  <2>4. TrackerOK' /\ Once'
    BY <2>2 DEF TrackerOK, tracker, Once
  <2>. QED  BY <2>2, <2>3, <2>4
<1>3. CASE \E n \in Numbers : Acks(n)
  <2>1. PICK n \in Numbers : Acks(n)
    BY <1>3
  <2>2. SetsOK' /\ LinkOK' /\ Backed' /\ ToneKnown' /\ UNCHANGED <<tracker, alerts>>
    BY <2>1, AcksOK
  <2>3. Once'
    BY <2>1, AcksOnce
  <2>4. TrackerOK' /\ queue' = queue
    BY <2>2 DEF TrackerOK, tracker, alerts
  <2>. QED  BY <2>2, <2>3, <2>4
<1>4. CASE Sender
  <2>1. LinkOK' /\ queue' \in Seq(Job) /\ UNCHANGED <<tracker, store, tasks, reported>>
    BY <1>4, SenderOK
  <2>2. TrackerOK' /\ SetsOK' /\ ToneKnown' /\ Once'
    BY <2>1 DEF TrackerOK, SetsOK, ToneKnown, Known, Once, tracker, store, tasks
  <2>3. Backed'
    BY <2>1 DEF Backed, Known, Dealt, Confirms, store, tasks
  <2>. QED  BY <2>1, <2>2, <2>3
<1>5. CASE Restart
  <2>1. /\ SetsOK' /\ LinkOK' /\ Backed' /\ ToneKnown' /\ Once' /\ queue' = <<>>
        /\ UNCHANGED tracker
    BY <1>5, RestartOK
  <2>. QED  BY <2>1 DEF TrackerOK, tracker
<1>6. CASE MeshTurns \/ CooldownOver \/ UNCHANGED vars
  <2>1. UNCHANGED <<tracker, copies, faults, store, tasks, queue, running, reported>>
    BY <1>6 DEF MeshTurns, CooldownOver, vars, link, alerts
  <2>2. connected' \in BOOLEAN /\ hot' \in {"over", "running", "mute"}
    BY <1>6, Zenon DEF MeshTurns, CooldownOver, vars, link, alerts, LinkOK
  <2>3. LinkOK'
    BY <2>1, <2>2, Zenon DEF LinkOK
  <2>4. TrackerOK' /\ SetsOK' /\ ToneKnown' /\ Once'
    BY <2>1 DEF TrackerOK, SetsOK, ToneKnown, Known, Once, tracker, store, tasks
  <2>5. Backed'
    BY <2>1 DEF Backed, Known, Dealt, Confirms, store, tasks
  <2>. QED  BY <2>1, <2>3, <2>4, <2>5
<1>. QED
  BY <1>1, <1>2, <1>3, <1>4, <1>5, <1>6, Zenon DEF Next, Handlers, Acks, Sender

THEOREM SosInvAlways == Spec => []SosInv
BY SosInvInit, SosInvNext, PTL DEF Spec

\* Every variable has its type.
THEOREM SosTypes == Spec => []SosTypeOK
<1>1. ASSUME SosInv PROVE SosTypeOK
  <2>1. /\ seq \in 0 .. MaxSos * Series /\ since \in 0 .. seq
        /\ left \in 0 .. Series - 1 /\ series \in Seq(Numbers) /\ Len(series) <= Series
        /\ conf \subseteq DOMAIN series
    BY <1>1, SosAssumption DEF SosInv, TrackerOK
  <2>2. /\ acks \cup rows \cup stored \cup halfway \subseteq Numbers
        /\ acked \cup reported \cup told \cup lost \subseteq Numbers
        /\ later \in [Numbers -> Nat] /\ sending \in [Numbers -> Nat]
    BY <1>1 DEF SosInv, SetsOK
  <2>. QED  BY <1>1, <2>1, <2>2, Zenon DEF SosInv, LinkOK, SosTypeOK
<1>. QED
  BY <1>1, SosInvAlways, PTL

\* The tone is about the SOS that the wearer sent last, and true: T1A messages
\* of an earlier series, late ones and repeated ones do not sound it
\* (mt_tracker_sos, mt_channel_text).
THEOREM SosTone == Spec => []ToneIsTrue
<1>1. SosInv => ToneIsTrue
  BY DEF SosInv, TrackerOK, ToneKnown, Known, ToneIsTrue
<1>. QED
  BY <1>1, SosInvAlways, PTL

\* A confirmed SOS is in a report, covered by one, or on its way to one,
\* unless a failure cut its handler short (on_channel, fire).
THEOREM SosReported == Spec => []ConfirmedIsReported
<1>1. SosInv => ConfirmedIsReported
  BY DEF SosInv, Backed, Confirms, Dealt, ConfirmedIsReported
<1>. QED
  BY <1>1, SosInvAlways, PTL

\* However many copies a message has, one T1A is sent for it (sos_ack).
THEOREM SosAckedOnce == Spec => []OneAckAtATime
<1>1. SosInv => OneAckAtATime
  BY DEF SosInv, SetsOK, Once, OneAckAtATime
<1>. QED
  BY <1>1, SosInvAlways, PTL
=============================================================================
