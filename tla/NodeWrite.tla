----------------------------- MODULE NodeWrite -----------------------------
(***************************************************************************)
(* The writes of settings of the server, over the way there is to a node:  *)
(* its own command topic, its monitor, or the queue of a poller.  A        *)
(* behaviour has one way; a page that asks for a write and the others      *)
(* that do, the node or its monitor, and restarts, come in any order.      *)
(***************************************************************************)
EXTENDS WriteMqtt, WriteMesh, WritePoller

CONSTANTS
  Ways,         \* the ways a behaviour may have
  MaxRestarts   \* bound: restarts of the site, the node and the monitor

ASSUME WaysAssumption == Ways \subseteq {"mqtt", "mesh", "poller"}

VARIABLES
  way,          \* transport of cfg_route
  restarts

vars == <<tvars, mqttVars, meshVars, pollVars, way, restarts>>

Init ==
  /\ ThreadInit /\ MqttInit /\ MeshInit /\ PollInit
  /\ way \in Ways /\ restarts = 0

Ask ==
  \E w \in Writes, k \in Keys :
    /\ way = "mqtt" => k[1] = MqttNode
    /\ Asks(w, k)
    /\ UNCHANGED <<mqttVars, meshVars, pollVars>>

\* The thread of a write, in the function of its way.
Thread(w) ==
  \/ way = "mqtt" /\ MqttThread(w) /\ UNCHANGED <<meshVars, pollVars>>
  \/ way = "mesh" /\ MeshThread(w) /\ UNCHANGED <<mqttVars, pollVars>>
  \/ way = "poller" /\ PollThread(w) /\ UNCHANGED <<mqttVars, meshVars>>

Outside ==
  \/ way = "mqtt" /\ MqttNodeStep /\ UNCHANGED <<meshVars, pollVars>>
  \/ way = "mesh" /\ MonitorStep /\ UNCHANGED <<mqttVars, pollVars>>
  \/ way = "poller" /\ PollStep /\ UNCHANGED <<mqttVars, meshVars>>

\* Of the site only what is in the database survives; a request that was sent
\* goes on without it.
SiteRestart ==
  /\ ThreadsEnd /\ SiteForgets
  /\ popped' = NotPopping
  /\ UNCHANGED <<meshVars, queue, mine, handed>>

Restart ==
  /\ restarts < MaxRestarts /\ restarts' = restarts + 1 /\ UNCHANGED way
  /\ \/ SiteRestart
     \/ way = "mqtt" /\ NodeRestart /\ UNCHANGED <<meshVars, pollVars>>
     \/ way = "mqtt" /\ SiteForgets /\ UNCHANGED <<tvars, meshVars, pollVars>>
     \/ way = "mesh" /\ MonRestart /\ UNCHANGED <<mqttVars, pollVars>>

Next ==
  \/ Restart
  \/ /\ Ask \/ Outside \/ \E w \in Writes : Thread(w)
     /\ UNCHANGED <<way, restarts>>

Spec == Init /\ [][Next]_vars

\* A thread of the web server is not left standing: every loop of it sleeps
\* for a fixed time and has a deadline.
FairSpec == Spec /\ \A w \in Writes : WF_vars(Thread(w) /\ UNCHANGED <<way, restarts>>)

----------------------------------------------------------------------------
(* Properties *)

Requests == [Nodes -> Writes \cup {None}]
Outcome == [ok : BOOLEAN, seq : Nat, by : Writes \cup {None}]

\* Type invariant of the threads and of what the three ways keep.
WriteTypeOK ==
  /\ key \in [Writes -> Keys \cup {None}]
  /\ pc \in [Writes -> Open \cup {"new", "done", "gone"}]
  /\ out \in [Writes -> [ok : BOOLEAN, step : Steps, by : Writes \cup {None}]]
  /\ cli \in [Keys -> Writes \cup {None}]
  /\ ran \in [Writes -> Nat]
  /\ before \in [Writes -> Nat] /\ cmds \in Seq(Writes)
  /\ {cset, wire, cfgset} \subseteq Outcome
  /\ settled \in [Writes -> BOOLEAN]
  /\ {req, job} \subseteq Writes \cup {None} /\ begun \subseteq Writes
  /\ stage \in {"rest", "login", "set", "pause", "get"}
  /\ sets \in Nat /\ said \in {"no", "ok", "err"} /\ read \in BOOLEAN
  /\ seq \in Nat /\ fate \in {"lost", "taken", "refused"} /\ gap \in BOOLEAN
  /\ queue \in Requests /\ mine \in [Writes -> Requests]
  /\ popped \in Requests \cup {None} /\ handed \subseteq Writes
  /\ way \in Ways /\ restarts \in Nat

\* Over the command topic: when nothing of an earlier write is still to come
\* and no other write is begun beside it, the outcome a page shows is that of
\* its own write, whatever is lost, late or restarted; the number is what
\* tells them apart (nodeconfig.py:1122).
OwnOutcome ==
  \A w \in Writes :
    way = "mqtt" /\ settled[w] /\ pc[w] = "done" => out[w].by \in {w, None}

\* Over LoRa: once the monitor has begun the write of a thread that waits, it
\* tells of that write until the thread has seen it; no next write takes its
\* place (MeshManagerNet.cpp:4849, nodeconfig.py:233).
OutcomeKept ==
  \A w \in begun : pc[w] = "wait" => job = w

\* Neither over the command topic nor over LoRa is a write executed twice:
\* what stayed silent is not sent again (nodeconfig.py:1273).
AtMostOnce == way # "poller" => \A w \in Writes : ran[w] <= 1

\* Every page that asks gets an answer, or the site restarts.
Answered ==
  \A w \in Writes : pc[w] \in Open ~> pc[w] \in {"done", "gone"}

\* "Nothing left, so nothing was changed on the node with certainty":
\* nodeconfig.py:1176 says so of niet_verstuurd.
NotSentNotDone ==
  \A w \in Writes : out[w].step = "niet_verstuurd" => ran[w] = 0
============================================================================
