---------------------------- MODULE WritePoller ----------------------------
(***************************************************************************)
(* A write that is left in a queue for a poller (nodeconfig._write_poller):*)
(* one setting of the database holds, per node, the work that is asked     *)
(* for; db.request_settings reads it, adds to it and writes it back, in a  *)
(* thread of the web server, and db.pop_settings_requests reads it and     *)
(* empties it, in another.  Both are two statements, and no lock is held   *)
(* in between.                                                             *)
(*                                                                         *)
(* The poller itself is not in this repository: it takes what it is handed,*)
(* executes "cmd:set" and reads the setting back, and posts what it read;  *)
(* any of it may fail.                                                     *)
(***************************************************************************)
EXTENDS WriteThread

VARIABLES
  queue,    \* settings_requests: the write that is asked for of a node
  mine,     \* d of request_settings, between its two statements
  popped,   \* d of pop_settings_requests, between its two statements
  handed    \* what the poller has yet to do

pollVars == <<queue, mine, popped, handed>>

NoWork == [n \in Nodes |-> None]
NotPopping == None
Work(q) == {q[n] : n \in Nodes} \ {None}

PollInit ==
  /\ queue = NoWork
  /\ mine = [w \in Writes |-> NoWork]
  /\ popped = NotPopping /\ handed = {}

PollRead(w) ==
  /\ Goes(w, "begin", "put")
  /\ mine' = [mine EXCEPT ![w] = queue]
  /\ UNCHANGED <<queue, popped, handed>>

\* "wachtrij" is the step of both: it is in the queue, or it could not be put
\* there.  A request for the same node that was still in the queue is gone.
PollPut(w) ==
  /\ pc[w] = "put"
  /\ \/ /\ queue' = [mine[w] EXCEPT ![key[w][1]] = w]
        /\ Tells(w, TRUE, "wachtrij", None)
     \/ /\ Tells(w, FALSE, "wachtrij", None)
        /\ UNCHANGED queue
  /\ UNCHANGED <<mine, popped, handed>>

PopRead ==
  /\ popped = NotPopping /\ Work(queue) # {}
  /\ popped' = queue
  /\ UNCHANGED <<tvars, queue, mine, handed>>

\* The answer to the poller may be lost.
PopClear ==
  /\ popped # NotPopping /\ popped' = NotPopping
  /\ queue' = NoWork
  /\ handed' \in {handed, handed \cup Work(popped)}
  /\ UNCHANGED <<tvars, mine>>

\* One session: "set", and what is read back is posted to repeater_settings.
PollerWorks(w) ==
  /\ w \in handed /\ handed' = handed \ {w}
  /\ \/ UNCHANGED <<ran, cli>>
     \/ /\ Runs(w)
        /\ cli' \in {cli, [cli EXCEPT ![key[w]] = w]}
  /\ UNCHANGED <<key, pc, out, queue, mine, popped>>

PollThread(w) == PollRead(w) \/ PollPut(w)
PollStep == PopRead \/ PopClear \/ \E w \in Writes : PollerWorks(w)
============================================================================
