------------------------------- MODULE Falls -------------------------------
(***************************************************************************)
(* From the fall of a wearer to the alarm (companions.py).  A node hears   *)
(* the fall of a companion and tells of it when it is asked                *)
(* (/companions.json) and in a push (POST /api/companion).  The site takes *)
(* it for a new one when its moment is later than last_escalated_fall_ts,  *)
(* sends a message to the recipient, and notes the moment.                 *)
(*                                                                         *)
(* Three tasks do so beside each other, without a lock: the round in the   *)
(* background ("poll"), the one of a page that somebody looks at ("page"), *)
(* and the handler of the push.  The moment is told on the clock of the    *)
(* node, which starts in 2024 when the node restarts.  There is one        *)
(* companion, one node and one recipient.  A node that tells how long ago  *)
(* a fall was, which the site can read too, is not modelled.               *)
(***************************************************************************)
EXTENDS Integers, Sequences

CONSTANTS
  Pages,      \* the tasks of pages: {"page"}, or none of them
  MaxTime,    \* bound: seconds
  MaxFalls,   \* bound: falls
  MaxFaults   \* bound: exceptions and restarts of the site

ASSUME FallsAssumption ==
  {MaxTime, MaxFalls, MaxFaults} \subseteq Nat /\ MaxTime > 0 /\ Pages \subseteq {"page"}

VARIABLES
  now,      \* the time
  falls,    \* ghost: the falls, as [at, stamp, right]
  since,    \* 0 when the clock of the node is right, else when it restarted
  node,     \* the fall that the node tells of, 0 for none
  mail,     \* the falls told in pushes that are on their way
  task,     \* where each task is, and with which fall
  last,     \* last_escalated_fall_ts
  tried,    \* ghost: how often the alarm of each fall was sent
  mixed,    \* ghost: two tasks had a new fall at a time, or one was broken off
  faults

world     == <<now, falls, since, node>>
fallsVars == <<world, mail, task, last, tried, mixed, faults>>
-----------------------------------------------------------------------------
Tasks   == {"poll", "push"} \cup Pages
NoTime  == -MaxTime - 1          \* NULL: before every moment that is told
Idle    == [pc |-> "idle", fall |-> 0]
Numbers == 1 .. MaxFalls

\* What the clock of the node says: after a restart, a time before all others.
NodeClock == IF since = 0 THEN now ELSE now - since - MaxTime

\* fall_epoch, of the fall that a task has in hand.
Epoch(p) == falls[task[p].fall].stamp

Set(p, pc) == task' = [task EXCEPT ![p].pc = pc]
Drop(p)    == task' = [task EXCEPT ![p] = Idle]

\* Between the decision that a fall is new and the note of it.
Handling(p) == task[p].pc \in {"sends", "sent"}

FallsInit ==
  /\ now = 1 /\ falls = <<>> /\ since = 0 /\ node = 0 /\ mail = {}
  /\ task = [p \in Tasks |-> Idle] /\ last = NoTime
  /\ tried = [f \in Numbers |-> 0] /\ mixed = FALSE /\ faults = 0
-----------------------------------------------------------------------------
(* The companion and its node. *)

Tick == now < MaxTime /\ now' = now + 1
        /\ UNCHANGED <<falls, since, node, mail, task, last, tried, mixed, faults>>

\* A fall, in another second than the one before.  The node keeps it, and
\* pushes it or not; a push may be late or get lost.
Fall ==
  /\ Len(falls) < MaxFalls
  /\ \A f \in DOMAIN falls : falls[f].at < now
  /\ falls' = Append(falls, [at |-> now, stamp |-> NodeClock, right |-> since = 0])
  /\ node' = Len(falls')
  /\ mail' \in {mail, mail \cup {Len(falls')}}
  /\ UNCHANGED <<now, since, task, last, tried, mixed, faults>>

\* The node restarts, with or without the memory of its fall.
ClockLost ==
  /\ since # now /\ since' = now
  /\ node' \in {node, 0}
  /\ UNCHANGED <<now, falls, mail, task, last, tried, mixed, faults>>

\* It gets the time (time_route, set_clock).
ClockSet ==
  /\ since # 0 /\ since' = 0
  /\ UNCHANGED <<now, falls, node, mail, task, last, tried, mixed, faults>>
-----------------------------------------------------------------------------
(* The tasks of the site. *)

\* poll_locations, of the background task or of a page: the node answers with
\* the fall it knows.  No answer, or an answer without a fall, does nothing.
Answered(p) ==
  /\ p # "push" /\ task[p].pc = "idle" /\ node # 0
  /\ task' = [task EXCEPT ![p] = [pc |-> "read", fall |-> node]]
  /\ UNCHANGED <<world, mail, last, tried, mixed, faults>>

\* companion_push, which stands in the way of every other push.
PushArrives ==
  /\ task["push"].pc = "idle"
  /\ \E f \in mail :
       /\ mail' = mail \ {f}
       /\ task' = [task EXCEPT !["push"] = [pc |-> "read", fall |-> f]]
  /\ UNCHANGED <<world, last, tried, mixed, faults>>

New(p) ==
  /\ Set(p, "sends")
  /\ mixed' = (mixed \/ \E q \in Tasks \ {p} : Handling(q))

\* MUTANT: the same moment counts as a new fall.
Judge_AtLeast(p) ==
  /\ task[p].pc = "read"
  /\ IF Epoch(p) < last THEN Drop(p) /\ UNCHANGED mixed ELSE New(p)
  /\ UNCHANGED <<world, mail, last, tried, faults>>

\* MUTANT: falls of before this second are old.
Judge_Recent(p) ==
  /\ task[p].pc = "read"
  /\ IF Epoch(p) <= last \/ Epoch(p) < now THEN Drop(p) /\ UNCHANGED mixed ELSE New(p)
  /\ UNCHANGED <<world, mail, last, tried, faults>>

\* MUTANT: the fall is noted before its alarm is sent.
Judge_NotesFirst(p) ==
  /\ task[p].pc = "read"
  /\ IF Epoch(p) <= last THEN Drop(p) /\ UNCHANGED <<mixed, last>>
     ELSE New(p) /\ last' = Epoch(p)
  /\ UNCHANGED <<world, mail, tried, faults>>

\* _handle_fall_report, with the row of companion_by_pubkey: strictly later
\* than the last one, or nothing.
Judge(p) ==
  /\ task[p].pc = "read"
  /\ IF Epoch(p) <= last THEN Drop(p) /\ UNCHANGED mixed ELSE New(p)
  /\ UNCHANGED <<world, mail, last, tried, faults>>

\* _escalate_fall: sent or failed, it is not tried again.
Escalate(p) ==
  /\ task[p].pc = "sends" /\ Set(p, "sent")
  /\ tried' = [tried EXCEPT ![task[p].fall] = @ + 1]
  /\ UNCHANGED <<world, mail, last, mixed, faults>>

\* set_companion_fall, whatever stands there by now.
Note(p) ==
  /\ task[p].pc = "sent" /\ Drop(p)
  /\ last' = Epoch(p)
  /\ UNCHANGED <<world, mail, tried, mixed, faults>>

\* An exception ends the round or the request; a restart ends all of them.
BrokenOff ==
  /\ faults < MaxFaults /\ faults' = faults + 1
  /\ \E P \in {{p} : p \in Tasks} \cup {Tasks} :
       /\ \E p \in P : task[p].pc # "idle"
       /\ task' = [p \in Tasks |-> IF p \in P THEN Idle ELSE task[p]]
       /\ mixed' = (mixed \/ \E p \in P : Handling(p))
  /\ UNCHANGED <<world, mail, last, tried>>
-----------------------------------------------------------------------------
Step(p) == Judge(p) \/ Escalate(p) \/ Note(p)

FallsNext ==
  \/ Tick \/ Fall \/ ClockLost \/ ClockSet \/ PushArrives \/ BrokenOff
  \/ \E p \in Tasks : Answered(p) \/ Step(p)

\* The background task runs on, and the node answers it now and then.
FallsSpec ==
  FallsInit /\ [][FallsNext]_fallsVars /\ WF_fallsVars(Step("poll")) /\ SF_fallsVars(Answered("poll"))
-----------------------------------------------------------------------------
Happened == DOMAIN falls
Alarmed(f) == \E g \in Happened : g >= f /\ tried[g] > 0

\* A fall counts as dealt with only after an alarm for it, or for a later one
\* of the same wearer: neither a fall from before the clock of the node was
\* lost, nor a task that is late, nor one that is broken off puts last
\* beyond a fall of which nobody was told (_handle_fall_report).  It holds
\* for the falls stamped by a right clock.
NoFallSwallowed ==
  \A f \in Happened : falls[f].right /\ falls[f].stamp <= last => Alarmed(f)

\* One alarm for a fall: what poll and push tell again is known, also when
\* the clock of the node jumped in between, unless two tasks handled new falls
\* at the same time or one was broken off before its note.
OncePerFall == ~mixed => \A f \in Happened : tried[f] <= 1

\* The alarm comes in the end, whatever happens to pushes and to single
\* rounds, as long as the node tells of the fall.
EveryFallAlarmed ==
  \A f \in Numbers :
    (f \in Happened /\ node = f /\ falls[f].right) ~> (Alarmed(f) \/ node # f)
=============================================================================
