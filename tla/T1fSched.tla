------------------------------ MODULE T1fSched ------------------------------
(***************************************************************************)
(* The scheduler of T1F messages in the MeshTrack server                   *)
(* (meshtrack/server/meshtrack/main.py): the numbers of received Q         *)
(* messages wait per tracker; fifo_tick bundles the trackers of a channel  *)
(* in one T1F, within three limits; sending is awaited, and meanwhile the  *)
(* event loop hands new Q messages to fifo_request.  What this promises of *)
(* the numbers of one tracker is T1fList.                                  *)
(*                                                                         *)
(* Time is counted in units, and every moment is kept as the time since    *)
(* it or until it, no further than matters.  The companion is connected:   *)
(* while it is not, fifo_tick does nothing.  How many numbers fit in the   *)
(* text of a T1F is a constant.  The text, the tag and the log are left    *)
(* out.                                                                    *)
(***************************************************************************)
EXTENDS Integers, SequencesExt, Places

CONSTANTS
  Trackers, Channels,
  MaxSeq,      \* sequence numbers are 1 .. MaxSeq
  Delay,       \* FIFO_ACK_DELAY_S
  TrackerGap,  \* FIFO_TRACKER_INTERVAL_S
  ChanGap,     \* FIFO_CHANNEL_INTERVAL_S
  Hour,        \* 3600 s
  MaxHour,     \* T1F_MAX_PER_HOUR
  PerMsg,      \* FIFO_MAX_PER_MSG
  Fit,         \* how many numbers of one tracker fit (fit_seqs)
  SendMax,     \* the longest that one fifo_tick waits for the radio
  MaxReq,      \* bound: Q messages of a run
  MaxGone      \* bound: trackers and channels that are deleted in a run

ASSUME SchedAssumption ==
  /\ {MaxSeq, Delay, TrackerGap, ChanGap, Hour, MaxHour, PerMsg, Fit} \subseteq Nat \ {0}
  /\ {SendMax, MaxReq, MaxGone} \subseteq Nat
  /\ Delay <= TrackerGap /\ ChanGap <= TrackerGap

VARIABLES
  pend,      \* _fifo_pending: numbers (in order of receipt), channel, time until ready
  since,     \* time since _fifo_tracker_sent, TrackerGap if longer
  chan,      \* time since _fifo_chan_sent, ChanGap if longer
  hour,      \* _fifo_hour: the ages of its entries
  known,     \* trackers that exist and have an authkey
  chans,     \* channels that exist
  todo,      \* by_ch: what fifo_tick still has to do
  batch,     \* the T1F that is being sent: its trackers and their numbers
  age,       \* time since fifo_tick took its "now"
  reqs,      \* Q messages so far
  open       \* history: numbers asked for that no T1F has carried since

t1fVars == <<pend, since, chan, hour, known, chans, todo, batch, age, reqs, open>>
-----------------------------------------------------------------------------
Seqs == 1 .. MaxSeq
Nothing == [t \in {} |-> <<>>]
NoTodo  == [c \in Channels |-> {}]
Entry   == [seqs : Seq(Seqs), ch : Channels, ready : 0 .. TrackerGap]

\* The list q without the numbers in S.
Drop(q, S) == AtPlaces(q, {i \in DOMAIN q : q[i] \notin S})

T1fTypeOK ==
  /\ pend \in [Trackers -> Entry]
  /\ since \in [Trackers -> 0 .. TrackerGap] /\ chan \in [Channels -> 0 .. ChanGap]
  /\ hour \in Seq(0 .. Hour) /\ Len(hour) <= MaxHour
  /\ known \subseteq Trackers /\ chans \subseteq Channels
  /\ todo \in [Channels -> SUBSET Trackers]
  /\ DOMAIN batch \subseteq Trackers /\ \A t \in DOMAIN batch : batch[t] \in Seq(Seqs)
  /\ age \in 0 .. SendMax /\ reqs \in 0 .. MaxReq
  /\ open \in [Trackers -> SUBSET Seqs]

Waiting(t) == pend[t].seqs # <<>>
Sending == DOMAIN batch # {}
\* fifo_tick runs, and is not waiting for the radio: nothing else does.
MidTick == todo # NoTodo /\ ~Sending
\* The age of "now" after a message: it counts until the end of the tick.
Later == IF todo = NoTodo THEN 0 ELSE age

T1fInit ==
  /\ pend \in [Trackers -> {[seqs |-> <<>>, ch |-> c, ready |-> 0] : c \in Channels}]
  /\ since = [t \in Trackers |-> TrackerGap] /\ chan = [c \in Channels |-> ChanGap]
  /\ hour = <<>> /\ known = Trackers /\ chans = Channels
  /\ todo = NoTodo /\ batch = Nothing /\ age = 0
  /\ reqs = 0 /\ open = [t \in Trackers |-> {}]
-----------------------------------------------------------------------------
\* fifo_request: a Q message of t with number s came in on channel c.  What is
\* deleted while the message is handled counts as deleted after it.
Request(t, c, s) ==
  /\ ~MidTick /\ t \in known /\ c \in chans /\ reqs < MaxReq
  /\ pend' = [pend EXCEPT ![t] =
       [seqs |-> Append(Drop(pend[t].seqs, {s}), s), ch |-> c,
        ready |-> Most(Delay, TrackerGap - since[t])]]
  /\ reqs' = reqs + 1
  /\ open' = [open EXCEPT ![t] = @ \cup {s}]
  /\ UNCHANGED <<since, chan, hour, known, chans, todo, batch, age>>

\* fifo_tick that never forgets a T1F of more than an hour ago.
TickStart_NoPrune ==
  LET ready(c) == {t \in Trackers : Waiting(t) /\ pend[t].ready = 0 /\ pend[t].ch = c}
      turn == [c \in Channels |-> IF chan[c] < ChanGap THEN {} ELSE ready(c)]
  IN /\ todo = NoTodo /\ ~Sending /\ turn # NoTodo /\ Len(hour) < MaxHour
     /\ todo' = turn /\ age' = 0
     /\ UNCHANGED <<pend, since, chan, hour, known, chans, batch, reqs, open>>

\* The start of fifo_tick, when it comes to sending: the trackers that are
\* ready, per channel; a channel that sent less than ChanGap ago is left out.
TickStart ==
  LET recent == AtPlaces(hour, {i \in DOMAIN hour : hour[i] < Hour})
      ready(c) == {t \in Trackers : Waiting(t) /\ pend[t].ready = 0 /\ pend[t].ch = c}
      turn == [c \in Channels |-> IF chan[c] < ChanGap THEN {} ELSE ready(c)]
  IN /\ todo = NoTodo /\ ~Sending /\ turn # NoTodo /\ Len(recent) < MaxHour
     /\ hour' = recent /\ todo' = turn /\ age' = 0
     /\ UNCHANGED <<pend, since, chan, known, chans, batch, reqs, open>>

\* The turn of a channel that leaves the numbers on the list while they are sent.
ChannelTurn_KeepsList(c) ==
  /\ MidTick /\ todo[c] # {} /\ Len(hour) < MaxHour
  /\ todo' = [todo EXCEPT ![c] = {}]
  /\ LET here == IF c \in chans THEN todo[c] \cap known ELSE {}
         chosen(t) == LET q == pend[t].seqs
                      IN SubSeq(q, Most(1, Len(q) - Fit + 1), Len(q))
     IN \E cand \in SUBSET here :
          /\ Cardinality(cand) = Least(PerMsg, Cardinality(here))
          /\ pend' = [t \in Trackers |->
               IF t \in todo[c] \ here
               THEN [pend[t] EXCEPT !.seqs = <<>>, !.ready = 0]
               ELSE IF t \in cand
               THEN [pend[t] EXCEPT !.ready = Most(0, TrackerGap - age)]
               ELSE pend[t]]
          /\ batch' = [t \in cand |-> chosen(t)]
          /\ IF cand = {} THEN UNCHANGED <<chan, hour>>
             ELSE /\ chan' = [chan EXCEPT ![c] = Least(age, ChanGap)]
                  /\ hour' = Append(hour, Least(age, Hour))
  /\ open' = IF c \in chans THEN open
             ELSE [t \in Trackers |-> IF t \in todo[c] THEN {} ELSE open[t]]
  /\ UNCHANGED <<since, known, chans, age, reqs>>

\* The turn of channel c within fifo_tick.  Trackers that are gone are dropped,
\* all of them when the channel is; the first PerMsg others go in a T1F (here:
\* any), each with the Fit numbers received last; the numbers leave the list
\* before the message is sent.
ChannelTurn(c) ==
  /\ MidTick /\ todo[c] # {} /\ Len(hour) < MaxHour
  /\ todo' = [todo EXCEPT ![c] = {}]
  /\ LET here == IF c \in chans THEN todo[c] \cap known ELSE {}
         chosen(t) == LET q == pend[t].seqs
                      IN SubSeq(q, Most(1, Len(q) - Fit + 1), Len(q))
         left(t) == Drop(pend[t].seqs, ToSet(chosen(t)))
     IN \E cand \in SUBSET here :
          /\ Cardinality(cand) = Least(PerMsg, Cardinality(here))
          /\ pend' = [t \in Trackers |->
               IF t \in todo[c] \ here
               THEN [pend[t] EXCEPT !.seqs = <<>>, !.ready = 0]
               ELSE IF t \in cand
               THEN [pend[t] EXCEPT !.seqs = left(t),
                       !.ready = IF left(t) = <<>> THEN 0 ELSE Most(0, TrackerGap - age)]
               ELSE pend[t]]
          /\ batch' = [t \in cand |-> chosen(t)]
          /\ IF cand = {} THEN UNCHANGED <<chan, hour>>
             ELSE /\ chan' = [chan EXCEPT ![c] = Least(age, ChanGap)]
                  /\ hour' = Append(hour, Least(age, Hour))
  /\ open' = IF c \in chans THEN open
             ELSE [t \in Trackers |-> IF t \in todo[c] THEN {} ELSE open[t]]
  /\ UNCHANGED <<since, known, chans, age, reqs>>

\* The limit per hour ends the tick.
TickCapped ==
  /\ MidTick /\ Len(hour) >= MaxHour
  /\ todo' = NoTodo
  /\ UNCHANGED <<pend, since, chan, hour, known, chans, batch, age, reqs, open>>

\* The T1F is on the mesh: the interval of its trackers starts.
SendDone ==
  /\ Sending
  /\ since' = [t \in Trackers |-> IF t \in DOMAIN batch THEN Least(age, TrackerGap)
                                  ELSE since[t]]
  /\ open' = [t \in Trackers |-> IF t \in DOMAIN batch THEN open[t] \ ToSet(batch[t])
                                 ELSE open[t]]
  /\ batch' = Nothing
  /\ age' = Later
  /\ UNCHANGED <<pend, chan, hour, known, chans, todo, reqs>>

\* _fifo_merge that puts the numbers back and forgets what came in meanwhile.
SendFails_Overwrites ==
  /\ Sending
  /\ pend' = [t \in Trackers |->
       IF t \in DOMAIN batch
       THEN [pend[t] EXCEPT !.seqs = batch[t], !.ready = Most(0, ChanGap - age)]
       ELSE pend[t]]
  /\ batch' = Nothing
  /\ age' = Later
  /\ UNCHANGED <<since, chan, hour, known, chans, todo, reqs, open>>

\* _fifo_merge without looking for numbers that are already back on the list.
SendFails_Repeats ==
  /\ Sending
  /\ pend' = [t \in Trackers |->
       IF t \notin DOMAIN batch THEN pend[t]
       ELSE [pend[t] EXCEPT !.seqs = batch[t] \o @, !.ready = Most(0, ChanGap - age)]]
  /\ batch' = Nothing
  /\ age' = Later
  /\ UNCHANGED <<since, chan, hour, known, chans, todo, reqs, open>>

\* Sending raised an error: the numbers go back in front of those that came in
\* meanwhile (_fifo_merge), and are ready after ChanGap or earlier.
SendFails ==
  /\ Sending
  /\ pend' = [t \in Trackers |->
       IF t \notin DOMAIN batch THEN pend[t]
       ELSE LET again == Most(0, ChanGap - age)
            IN [pend[t] EXCEPT
                  !.seqs = batch[t] \o Drop(@, ToSet(batch[t])),
                  !.ready = IF Waiting(t) THEN Least(@, again) ELSE again]]
  /\ batch' = Nothing
  /\ age' = Later
  /\ UNCHANGED <<since, chan, hour, known, chans, todo, reqs, open>>

\* One unit of time.
TimePasses ==
  /\ ~MidTick /\ (Sending => age < SendMax)
  /\ pend' = [t \in Trackers |-> [pend[t] EXCEPT !.ready = Most(0, @ - 1)]]
  /\ since' = [t \in Trackers |-> Least(since[t] + 1, TrackerGap)]
  /\ chan' = [c \in Channels |-> Least(chan[c] + 1, ChanGap)]
  /\ hour' = [i \in DOMAIN hour |-> Least(hour[i] + 1, Hour)]
  /\ age' = IF Sending THEN age + 1 ELSE age
  /\ UNCHANGED <<known, chans, todo, batch, reqs, open>>

\* One more may be deleted.
MoreGoes == Cardinality(Trackers \ known) + Cardinality(Channels \ chans) < MaxGone

\* A tracker is deleted, or loses its key.
KeyGone(t) ==
  /\ ~MidTick /\ t \in known /\ MoreGoes
  /\ known' = known \ {t}
  /\ open' = [open EXCEPT ![t] = {}]
  /\ UNCHANGED <<pend, since, chan, hour, chans, todo, batch, age, reqs>>

\* Somebody deletes a channel.
ChannelGone(c) ==
  /\ ~MidTick /\ c \in chans /\ MoreGoes
  /\ chans' = chans \ {c}
  /\ UNCHANGED <<pend, since, chan, hour, known, todo, batch, age, reqs, open>>

\* The server restarts: everything here was in memory only.
Restart ==
  /\ reqs > 0
  /\ pend' = [t \in Trackers |-> [pend[t] EXCEPT !.seqs = <<>>, !.ready = 0]]
  /\ since' = [t \in Trackers |-> TrackerGap] /\ chan' = [c \in Channels |-> ChanGap]
  /\ hour' = <<>> /\ todo' = NoTodo /\ batch' = Nothing /\ age' = 0
  /\ open' = [t \in Trackers |-> {}]
  /\ UNCHANGED <<known, chans, reqs>>

T1fNext ==
  \/ \E t \in Trackers, c \in Channels, s \in Seqs : Request(t, c, s)
  \/ TickStart
  \/ \E c \in Channels : ChannelTurn(c)
  \/ TickCapped
  \/ SendDone
  \/ SendFails
  \/ TimePasses
  \/ \E t \in Trackers : KeyGone(t)
  \/ \E c \in Channels : ChannelGone(c)
  \/ Restart

\* The event loop goes on and time passes; fifo_scheduler ticks every 2 s;
\* sending ends, and not always in an error.
T1fFairness ==
  /\ WF_t1fVars(TimePasses) /\ WF_t1fVars(TickStart)
  /\ WF_t1fVars(TickCapped \/ \E c \in Channels : ChannelTurn(c))
  /\ WF_t1fVars(SendDone \/ SendFails) /\ SF_t1fVars(SendDone)

T1fSpec == T1fInit /\ [][T1fNext]_t1fVars /\ T1fFairness
-----------------------------------------------------------------------------
\* A number that was asked for is on the list or in the T1F that is being sent,
\* until a T1F with it went out: through full messages, errors, and Q messages
\* that come in while fifo_tick waits for the radio (_fifo_merge).  With the
\* turn of a deleted channel the trackers that fifo_tick had ready on it lose
\* theirs, even what one has asked for on another channel since.
NothingForgotten ==
  \A t \in known : open[t] \subseteq
    ToSet(pend[t].seqs) \cup (IF t \in DOMAIN batch THEN ToSet(batch[t]) ELSE {})

\* No number waits twice: it would take the room of others in the text, and
\* after an error the numbers go back into a list that may have them again.
NoNumberTwice == \A t \in Trackers : IsInjective(pend[t].seqs)

\* The numbers of tracker t, without order, time and channels.
List(t) == INSTANCE T1fList WITH
  list <- ToSet(pend[t].seqs),
  out  <- IF t \in DOMAIN batch THEN ToSet(batch[t]) ELSE {},
  open <- open[t]

\* Every tracker has the list of T1fList, whatever the others do: a T1F takes its
\* numbers off the list before it is sent, so that a Q message that comes in
\* meanwhile counts as a new question; all of them come back when sending fails,
\* none when it succeeds (fifo_request, fifo_tick, _fifo_merge).
ListsKept ==
  /\ \A t \in Trackers : List(t)!ListInit
  /\ [][\A t \in Trackers : [List(t)!ListNext]_(List(t)!listVars)]_t1fVars

\* Every number that was asked for is confirmed in the end: the limits, the
\* debounce and the share of a tracker in the text delay a confirmation, and
\* never prevent it.
Answered == \A t \in Trackers : \A s \in Seqs : s \in open[t] ~> s \notin open[t]

\* "per tracker: [...] daarna hoogstens één keer per FIFO_TRACKER_INTERVAL_S":
\* the last T1F with a tracker is that long ago when the next one is sent
\* (fifo_request, fifo_tick).
PacedTrackers == \A t \in DOMAIN batch : since[t] = TrackerGap
=============================================================================
