----------------------------- MODULE WriteMqtt -----------------------------
(***************************************************************************)
(* A write over the command topic of the node (nodeconfig._write_mqtt).    *)
(* The node counts the writes it was asked for since it started and puts   *)
(* the outcome of the last one in every message with statistics; the site  *)
(* keeps the last outcome it saw in memory, and takes one with a higher    *)
(* number than before for the outcome of its own write.                    *)
(*                                                                         *)
(* A command is lost when the node sleeps, was asked something less than   *)
(* 30 s before or still has one in its only slot.  One node, MqttNode.     *)
(***************************************************************************)
EXTENDS WriteThread

VARIABLES
  before,    \* vorige: the number a thread saw before it published
  cmds,      \* commands on their way to the node
  cset,      \* _cset_*: the last write the node was asked for
  wire,      \* a message with statistics on its way to the site
  cfgset,    \* _cfgset: the last outcome the site saw
  settled    \* ghost: w began when every earlier write was over and its
             \* outcome known, and none began beside it

mqttVars == <<before, cmds, cset, wire, cfgset, settled>>

MqttNode == CHOOSE n \in Nodes : TRUE
NoSet == [seq |-> 0, ok |-> FALSE, by |-> None]

MqttInit ==
  /\ before = [w \in Writes |-> 0]
  /\ cmds = <<>>
  /\ cset = NoSet /\ wire = NoSet /\ cfgset = NoSet
  /\ settled = [w \in Writes |-> FALSE]

\* The number is read before the command is published.
MqttBegin(w) ==
  LET quiet == /\ cmds = <<>> /\ wire.seq <= cfgset.seq /\ cset.seq <= cfgset.seq
               /\ \A v \in Writes \ {w} : pc[v] \notin {"put", "wait"}
  IN  /\ Goes(w, "begin", "put")
      /\ before' = [before EXCEPT ![w] = cfgset.seq]
      /\ settled' = [v \in Writes |-> IF v = w THEN quiet
                                      ELSE settled[v] /\ pc[v] \notin {"put", "wait"}]
      /\ UNCHANGED <<cmds, cset, wire, cfgset>>

MqttPublish(w) ==
  \/ /\ Goes(w, "put", "wait")
     /\ cmds' = Append(cmds, w)
     /\ UNCHANGED <<before, cset, wire, cfgset, settled>>
  \/ /\ pc[w] = "put" /\ Tells(w, FALSE, "niet_verstuurd", None)
     /\ UNCHANGED mqttVars

\* mqttRunCommand and cfgSetFromMqtt: set and read back in one pass, or a
\* refusal that is reported like an outcome; or the command is lost.
NodeCommand ==
  /\ cmds # <<>> /\ cmds' = Tail(cmds)
  /\ LET w == Head(cmds)
     IN  \/ UNCHANGED <<cset, ran>>
         \/ /\ cset' = [seq |-> cset.seq + 1, ok |-> TRUE, by |-> w]
            /\ Runs(w)
         \/ /\ cset' = [seq |-> cset.seq + 1, ok |-> FALSE, by |-> w]
            /\ UNCHANGED ran
  /\ UNCHANGED <<key, pc, out, cli, before, wire, cfgset, settled>>

\* The next message with statistics replaces one that was lost.
StatsPublished ==
  /\ cset.seq > 0 /\ wire # cset /\ wire' = cset
  /\ UNCHANGED <<tvars, before, cmds, cset, cfgset, settled>>

\* note_cfgset, from the thread that reads the broker.
StatsArrives ==
  /\ wire # NoSet /\ cfgset' = wire /\ wire' = NoSet
  /\ UNCHANGED <<tvars, before, cmds, cset, settled>>

\* MUTANT: any outcome at hand will do.
Newer_AtLeast(w) == cfgset.seq >= before[w]
Newer(w) == cfgset.seq > before[w]

MqttSees(w) ==
  /\ pc[w] = "wait" /\ Newer(w)
  /\ Tells(w, cfgset.ok, IF cfgset.ok THEN "" ELSE "node", cfgset.by)
  /\ UNCHANGED mqttVars

\* MUTANT: the loop has no deadline.
MqttTimeout_Never(w) == FALSE /\ Tells(w, FALSE, "geen_antwoord", None) /\ UNCHANGED mqttVars

\* MQTT_WAIT_S went by: whether it was executed cannot be seen from here.
MqttTimeout(w) ==
  /\ pc[w] = "wait" /\ ~ Newer(w)
  /\ Tells(w, FALSE, "geen_antwoord", None)
  /\ UNCHANGED mqttVars

\* The counter of the node lives in RAM.
NodeRestart ==
  /\ cset' = NoSet /\ cmds' = <<>>
  /\ UNCHANGED <<tvars, before, wire, cfgset, settled>>

\* A restart of the site forgets the outcomes, and so does a table that is
\* full of other nodes (CFGSET_MAX_NODES).
SiteForgets ==
  /\ cfgset' = NoSet
  /\ UNCHANGED <<before, cmds, cset, wire, settled>>

MqttThread(w) ==
  MqttBegin(w) \/ MqttPublish(w) \/ MqttSees(w) \/ MqttTimeout(w)
MqttNodeStep == NodeCommand \/ StatsPublished \/ StatsArrives
============================================================================
