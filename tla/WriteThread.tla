---------------------------- MODULE WriteThread ----------------------------
(***************************************************************************)
(* nodeconfig.write of the server: one setting of one node, asked for by a *)
(* page, each in a thread of the web server.  Whatever refuses a write     *)
(* before anything leaves (the route, the list of the node, the limits,    *)
(* the confirmation) is a write that is never begun here.  What is left    *)
(* are the ways to the node, in WriteMqtt, WriteMesh and WritePoller, and  *)
(* what the page is told and the site remembers, in this module.           *)
(*                                                                         *)
(* A value is the number of the write that asked for it or read it back:   *)
(* what the properties tell apart is whose outcome an outcome is.          *)
(***************************************************************************)
EXTENDS Naturals, Sequences

CONSTANTS
  MaxWrites,   \* bound: the writes that are asked for
  Nodes,       \* the nodes a write may be for
  Params,      \* their settings
  None         \* no write, no setting

ASSUME WriteAssumption ==
  /\ MaxWrites \in Nat /\ None \notin Nat /\ None \notin Nodes \X Params

VARIABLES
  key,      \* the setting of write w: <<node, parameter>>
  pc,       \* how far the thread of w is
  out,      \* what the page of w is told
  cli,      \* repeater_cli: whose value is remembered for a setting
  ran       \* ghost: how many times w was executed on a node

tvars == <<key, pc, out, cli, ran>>

Writes == 1..MaxWrites
Keys == Nodes \X Params
Open == {"begin", "put", "wait"}
Steps == {"none", "", "niet_verstuurd", "geen_antwoord", "geen_teruglezing", "node",
          "bezig", "monitor", "verbinding", "wachtrij"}
Silent == [ok |-> FALSE, step |-> "none", by |-> None]

ThreadInit ==
  /\ key = [w \in Writes |-> None]
  /\ pc = [w \in Writes |-> "new"]
  /\ out = [w \in Writes |-> Silent]
  /\ cli = [k \in Keys |-> None]
  /\ ran = [w \in Writes |-> 0]

\* Writes are numbered in the order in which they are asked for.
Asks(w, k) ==
  /\ pc[w] = "new" /\ \A v \in 1..(w - 1) : pc[v] # "new"
  /\ pc' = [pc EXCEPT ![w] = "begin"]
  /\ key' = [key EXCEPT ![w] = k]
  /\ UNCHANGED <<out, cli, ran>>

Goes(w, from, to) ==
  /\ pc[w] = from /\ pc' = [pc EXCEPT ![w] = to]
  /\ UNCHANGED <<key, out, cli, ran>>

\* The page is told, and what was read back is remembered under the setting
\* that was asked for (_remember).
Tells(w, ok, step, by) ==
  /\ pc' = [pc EXCEPT ![w] = "done"]
  /\ out' = [out EXCEPT ![w] = [ok |-> ok, step |-> step, by |-> by]]
  /\ cli' = IF ok /\ by # None THEN [cli EXCEPT ![key[w]] = by] ELSE cli
  /\ UNCHANGED <<key, ran>>

Runs(w) == ran' = [ran EXCEPT ![w] = @ + 1]

\* A restart of the site ends every thread that is under way.
ThreadsEnd ==
  /\ pc' = [w \in Writes |-> IF pc[w] \in Open THEN "gone" ELSE pc[w]]
  /\ UNCHANGED <<key, out, cli, ran>>
============================================================================
