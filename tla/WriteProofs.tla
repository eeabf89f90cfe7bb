---------------------------- MODULE WriteProofs ----------------------------
(***************************************************************************)
(* NodeWrite, for any number of writes, nodes, settings and restarts: the  *)
(* type invariant, no write is executed twice, the monitor keeps the       *)
(* outcome that a thread waits for, and over the command topic a page      *)
(* shows the outcome of its own write.                                     *)
(***************************************************************************)
EXTENDS NodeWrite, SequenceTheorems, TLAPS

----------------------------------------------------------------------------
(* Types *)

LEMMA WritesAre == Writes \subseteq Nat /\ None \notin Writes /\ None \notin Keys
BY WriteAssumption DEF Writes, Keys

LEMMA NodeTaken == Nodes # {} => MqttNode \in Nodes
BY DEF MqttNode

\* What a thread of any way does to the variables of WriteThread.
ThreadTypes ==
  /\ key \in [Writes -> Keys \cup {None}]
  /\ pc \in [Writes -> Open \cup {"new", "done", "gone"}]
  /\ out \in [Writes -> [ok : BOOLEAN, step : Steps, by : Writes \cup {None}]]
  /\ cli \in [Keys -> Writes \cup {None}]
  /\ ran \in [Writes -> Nat]
MqttTypes ==
  /\ before \in [Writes -> Nat] /\ cmds \in Seq(Writes)
  /\ cset \in Outcome /\ wire \in Outcome /\ cfgset \in Outcome
  /\ settled \in [Writes -> BOOLEAN]
MeshTypes ==
  /\ req \in Writes \cup {None} /\ job \in Writes \cup {None}
  /\ begun \subseteq Writes
  /\ stage \in {"rest", "login", "set", "pause", "get"}
  /\ sets \in Nat /\ said \in {"no", "ok", "err"} /\ read \in BOOLEAN
  /\ seq \in Nat /\ fate \in {"lost", "taken", "refused"} /\ gap \in BOOLEAN
PollTypes ==
  /\ queue \in Requests /\ mine \in [Writes -> Requests]
  /\ popped \in Requests \cup {None} /\ handed \subseteq Writes
WayTypes == way \in Ways /\ restarts \in Nat

LEMMA TypesAre ==
  WriteTypeOK <=> ThreadTypes /\ MqttTypes /\ MeshTypes /\ PollTypes /\ WayTypes
BY DEF WriteTypeOK, ThreadTypes, MqttTypes, MeshTypes, PollTypes, WayTypes

LEMMA WriteTypeInit ==
  Init => ThreadTypes /\ MqttTypes /\ MeshTypes /\ PollTypes /\ WayTypes
<1> SUFFICES ASSUME Init
             PROVE  ThreadTypes /\ MqttTypes /\ MeshTypes /\ PollTypes /\ WayTypes
  OBVIOUS
<1>1. ThreadTypes
  BY DEF Init, ThreadInit, ThreadTypes, Silent, Steps
<1>2. MqttTypes
  <2>1. NoSet \in Outcome
    BY DEF NoSet, Outcome
  <2>2. <<>> \in Seq(Writes)
    OBVIOUS
  <2> QED
    BY <2>1, <2>2 DEF Init, MqttInit, MqttTypes
<1>3. MeshTypes
  BY DEF Init, MeshInit, MeshTypes
<1>4. PollTypes
  BY DEF Init, PollInit, PollTypes, Requests, NoWork, NotPopping
<1>5. WayTypes
  BY DEF Init, WayTypes
<1> QED
  BY <1>1, <1>2, <1>3, <1>4, <1>5

LEMMA GoesTypes ==
  ASSUME ThreadTypes, NEW w \in Writes, NEW from, NEW to \in Open, Goes(w, from, to)
  PROVE  ThreadTypes'
BY DEF ThreadTypes, Goes

LEMMA TellsTypes ==
  ASSUME ThreadTypes, NEW w \in Writes, NEW ok \in BOOLEAN, NEW step \in Steps,
         NEW by \in Writes \cup {None}, Tells(w, ok, step, by)
  PROVE  ThreadTypes'
BY DEF ThreadTypes, Tells

LEMMA RunsTypes ==
  ASSUME ThreadTypes, NEW w \in Writes, Runs(w) \/ UNCHANGED ran,
         UNCHANGED <<key, pc, out>>, cli' \in {cli, [cli EXCEPT ![key[w]] = w]}
  PROVE  ThreadTypes'
BY DEF ThreadTypes, Runs

LEMMA AskTypes == ThreadTypes /\ Ask => ThreadTypes' /\ UNCHANGED <<mqttVars, meshVars, pollVars>>
BY DEF ThreadTypes, Ask, Asks, Open

LEMMA MqttThreadTypes ==
  ASSUME ThreadTypes, MqttTypes, NEW w \in Writes, MqttThread(w)
  PROVE  ThreadTypes' /\ MqttTypes'
<1>1. CASE MqttBegin(w)
  <2>1. ThreadTypes'
    BY <1>1, GoesTypes DEF MqttBegin, Open
  <2>2. cfgset.seq \in Nat
    BY DEF MqttTypes, Outcome
  <2>3. settled' \in [Writes -> BOOLEAN]
    BY <1>1 DEF MqttTypes, MqttBegin
  <2>4. before' \in [Writes -> Nat]
    <3>1. before' = [before EXCEPT ![w] = cfgset.seq]
      BY <1>1 DEF MqttBegin
    <3> QED
      BY <2>2, <3>1 DEF MqttTypes
  <2>5. UNCHANGED <<cmds, cset, wire, cfgset>>
    BY <1>1 DEF MqttBegin
  <2>6. MqttTypes'
    <3>1. cmds' = cmds /\ cset' = cset /\ wire' = wire /\ cfgset' = cfgset
      BY <2>5
    <3>2. cmds' \in Seq(Writes) /\ cset' \in Outcome /\ wire' \in Outcome /\ cfgset' \in Outcome
      BY <3>1 DEF MqttTypes
    <3> QED
      BY <2>3, <2>4, <3>2 DEF MqttTypes
  <2> QED
    BY <2>1, <2>6
<1>2. CASE MqttPublish(w)
  <2>1. ThreadTypes'
    BY <1>2, GoesTypes, TellsTypes DEF MqttPublish, Open, Steps
  <2> QED
    <3>1. cmds' = cmds \/ cmds' = Append(cmds, w)
      BY <1>2 DEF MqttPublish, mqttVars
    <3>2. UNCHANGED <<before, cset, wire, cfgset, settled>>
      BY <1>2 DEF MqttPublish, mqttVars
    <3>3. cmds' \in Seq(Writes)
      BY <3>1 DEF MqttTypes
    <3> QED
      BY <2>1, <3>2, <3>3 DEF MqttTypes
<1>3. CASE MqttSees(w) \/ MqttTimeout(w)
  <2>1. cfgset.ok \in BOOLEAN /\ cfgset.by \in Writes \cup {None}
    BY DEF MqttTypes, Outcome
  <2>2. ThreadTypes'
    BY <1>3, <2>1, TellsTypes DEF MqttSees, MqttTimeout, Steps
  <2> QED
    BY <1>3, <2>2 DEF MqttTypes, MqttSees, MqttTimeout, mqttVars
<1> QED
  BY <1>1, <1>2, <1>3 DEF MqttThread

LEMMA MqttNodeTypes ==
  ASSUME ThreadTypes, MqttTypes, MqttNodeStep
  PROVE  ThreadTypes' /\ MqttTypes'
<1>1. CASE NodeCommand
  <2>1. Head(cmds) \in Writes /\ Tail(cmds) \in Seq(Writes)
    BY <1>1 DEF MqttTypes, NodeCommand
  <2>2. cset.seq + 1 \in Nat
    BY DEF MqttTypes, Outcome
  <2>3. cset' \in Outcome
    <3>1. \/ cset' = cset
          \/ \E ok \in BOOLEAN :
                cset' = [seq |-> cset.seq + 1, ok |-> ok, by |-> Head(cmds)]
      BY <1>1 DEF NodeCommand
    <3>2. cset \in Outcome
      BY DEF MqttTypes
    <3> QED
      BY <2>1, <2>2, <3>1, <3>2 DEF Outcome
  <2>4. ThreadTypes'
    BY <1>1, <2>1, RunsTypes DEF NodeCommand
  <2> QED
    BY <1>1, <2>1, <2>3, <2>4 DEF MqttTypes, NodeCommand
<1>2. CASE StatsPublished \/ StatsArrives
  <2>1. NoSet \in Outcome
    BY DEF NoSet, Outcome
  <2> QED
    BY <1>2, <2>1 DEF ThreadTypes, MqttTypes, StatsPublished, StatsArrives, tvars
<1> QED
  BY <1>1, <1>2 DEF MqttNodeStep

LEMMA MeshThreadTypes ==
  ASSUME ThreadTypes, MeshTypes, NEW w \in Writes, MeshThread(w)
  PROVE  ThreadTypes' /\ MeshTypes'
<1>1. CASE MeshPost(w)
  <2>1. ThreadTypes'
    BY <1>1, GoesTypes, TellsTypes DEF MeshPost, Open, Steps
  <2> QED
    BY <1>1, <2>1 DEF MeshTypes, MeshPost, meshVars, wrVars, Monitor!Ask
<1>2. CASE MeshSees(w)
  <2>1. MonOk \in BOOLEAN /\ MonStep \in Steps /\ job \in Writes \cup {None}
    BY DEF MeshTypes, MonOk, MonStep, Steps
  <2>2. ThreadTypes'
    BY <1>2, <2>1, TellsTypes DEF MeshSees, Steps
  <2> QED
    BY <1>2, <2>2 DEF MeshTypes, MeshSees, meshVars, wrVars
<1> QED
  BY <1>1, <1>2 DEF MeshThread

LEMMA ExecutesTypes ==
  ASSUME ThreadTypes, NEW w \in Writes, Executes(w), UNCHANGED <<key, pc, out, cli>>
  PROVE  ThreadTypes' /\ fate' \in {"lost", "taken", "refused"}
BY RunsTypes DEF Executes

\* A login is under way only for a write that was begun.
LoginInv == stage = "login" => job # None

LEMMA MonitorTypes ==
  ASSUME ThreadTypes, MeshTypes, LoginInv, MonitorStep
  PROVE  ThreadTypes' /\ MeshTypes' /\ LoginInv'
<1>1. CASE MonBegin
  <2>1. req \in Writes
    BY <1>1 DEF MeshTypes, MonBegin
  <2>2. ThreadTypes' /\ fate' \in {"lost", "taken", "refused"}
    <3>1. CASE sets' = 1
      BY <1>1, <2>1, <3>1, ExecutesTypes DEF MonBegin
    <3>2. CASE sets' # 1
      BY <1>1, <3>2 DEF MonBegin, ThreadTypes
    <3> QED
      BY <3>1, <3>2
  <2>3. /\ stage' \in {"rest", "login", "set", "pause", "get"} /\ sets' \in Nat
        /\ said' \in {"no", "ok", "err"} /\ read' \in BOOLEAN
    <3>1. /\ \/ stage' \in {"login", "rest"} /\ sets' = 0
             \/ stage' = "set" /\ sets' = 1
          /\ said' = "no" /\ read' = FALSE
      BY <1>1, Zenon DEF MonBegin, Monitor!Begin
    <3>2. sets' \in Nat /\ said' \in {"no", "ok", "err"}
      BY <3>1
    <3>3. stage' \in {"rest", "login", "set", "pause", "get"}
      BY <3>1
    <3>4. read' \in BOOLEAN
      BY <3>1, Zenon
    <3> QED
      BY <3>2, <3>3, <3>4
  <2>5. gap' \in BOOLEAN
    <3>1. gap' = (gap \/ stage' = "rest")
      BY <1>1 DEF MonBegin, GapStarts
    <3> QED
      BY <3>1
  <2>4. req' = None /\ job' = req /\ begun' = begun \cup {req} /\ seq' = seq + 1
    BY <1>1 DEF MonBegin
  <2> QED
    BY <2>1, <2>2, <2>3, <2>4, <2>5, WritesAre DEF MeshTypes, LoginInv
<1>2. CASE MonSet
  <2>1. stage = "login" /\ job \in Writes
    BY <1>2 DEF MonSet, Monitor!SetLeaves, MeshTypes, LoginInv
  <2>2. ThreadTypes' /\ fate' \in {"lost", "taken", "refused"}
    BY <1>2, <2>1, ExecutesTypes DEF MonSet
  <2> QED
    BY <1>2, <2>2 DEF MeshTypes, MonSet, Monitor!SetLeaves, LoginInv
<1>3. CASE MonAnswer \/ MonGet
  BY <1>3 DEF ThreadTypes, tvars, MeshTypes, MonAnswer, MonGet, LoginInv,
     Monitor!SetAnswered, Monitor!GetLeaves
<1>4. CASE MonEnds
  BY <1>4 DEF ThreadTypes, tvars, MeshTypes, MonEnds, LoginInv, GapStarts,
     Monitor!ReadBack, Monitor!GiveUp
<1>5. CASE MonDrops \/ GapOver
  BY <1>5 DEF ThreadTypes, tvars, MeshTypes, MonDrops, GapOver, LoginInv, wrVars,
     Monitor!Expire
<1> QED
  BY <1>1, <1>2, <1>3, <1>4, <1>5 DEF MonitorStep

LEMMA PollThreadTypes ==
  ASSUME ThreadTypes, PollTypes, NEW w \in Writes, PollThread(w)
  PROVE  ThreadTypes' /\ PollTypes'
<1>1. CASE PollRead(w)
  BY <1>1, GoesTypes DEF PollTypes, PollRead, Open
<1>2. CASE PollPut(w)
  <2>1. ThreadTypes'
    BY <1>2, TellsTypes DEF PollPut, Steps
  <2>2. mine[w] \in Requests
    BY DEF PollTypes
  <2>3. queue' \in Requests
    BY <1>2, <2>2 DEF PollTypes, PollPut, Requests
  <2> QED
    BY <1>2, <2>1, <2>3 DEF PollTypes, PollPut
<1> QED
  BY <1>1, <1>2 DEF PollThread

LEMMA PollStepTypes ==
  ASSUME ThreadTypes, PollTypes, PollStep
  PROVE  ThreadTypes' /\ PollTypes'
<1>1. CASE PopRead
  BY <1>1 DEF ThreadTypes, PollTypes, PopRead, tvars
<1>2. CASE PopClear
  <2>1. popped \in Requests /\ NoWork \in Requests
    BY <1>2 DEF PollTypes, PopClear, NotPopping, NoWork, Requests
  <2>2. Work(popped) \subseteq Writes
    BY <2>1 DEF Work, Requests
  <2> QED
    BY <1>2, <2>1, <2>2 DEF ThreadTypes, PollTypes, PopClear, tvars, NotPopping
<1>3. ASSUME NEW w \in Writes, PollerWorks(w) PROVE ThreadTypes' /\ PollTypes'
  <2>1. ThreadTypes'
    BY <1>3, RunsTypes DEF PollerWorks
  <2> QED
    BY <1>3, <2>1 DEF PollTypes, PollerWorks
<1> QED
  BY <1>1, <1>2, <1>3 DEF PollStep

LEMMA RestartTypes ==
  ASSUME ThreadTypes, MqttTypes, MeshTypes, PollTypes, WayTypes, LoginInv, Restart
  PROVE  ThreadTypes' /\ MqttTypes' /\ MeshTypes' /\ PollTypes' /\ WayTypes' /\ LoginInv'
<1>0. WayTypes'
  BY DEF Restart, WayTypes
<1>1. NoSet \in Outcome
  BY DEF NoSet, Outcome
<1>2. CASE SiteRestart
  <2>1. ThreadTypes'
    BY <1>2 DEF SiteRestart, ThreadsEnd, ThreadTypes, Open
  <2>2. MqttTypes' /\ PollTypes'
    BY <1>1, <1>2 DEF SiteRestart, SiteForgets, MqttTypes, PollTypes, NotPopping
  <2> QED
    BY <1>0, <1>2, <2>1, <2>2 DEF SiteRestart, MeshTypes, meshVars, wrVars, LoginInv
<1>3. CASE (NodeRestart \/ (SiteForgets /\ UNCHANGED tvars)) /\ UNCHANGED <<meshVars, pollVars>>
  <2>1. ThreadTypes'
    BY <1>3 DEF NodeRestart, ThreadTypes, tvars
  <2>2. MqttTypes'
    <3>1. <<>> \in Seq(Writes)
      OBVIOUS
    <3> QED
      BY <1>1, <1>3, <3>1 DEF NodeRestart, SiteForgets, MqttTypes
  <2> QED
    BY <1>0, <1>3, <2>1, <2>2 DEF MeshTypes, meshVars, wrVars, PollTypes, pollVars, LoginInv
<1>4. CASE MonRestart /\ UNCHANGED <<mqttVars, pollVars>>
  BY <1>0, <1>4 DEF MonRestart, ThreadTypes, tvars, MqttTypes, mqttVars, MeshTypes,
     PollTypes, pollVars, LoginInv
<1> QED
  BY <1>2, <1>3, <1>4 DEF Restart, NodeRestart

TypedInv == ThreadTypes /\ MqttTypes /\ MeshTypes /\ PollTypes /\ WayTypes /\ LoginInv

LEMMA TypedInit == Init => TypedInv
BY WriteTypeInit DEF TypedInv, LoginInv, Init, MeshInit

LEMMA TypedNext == TypedInv /\ [Next]_vars => TypedInv'
<1> SUFFICES ASSUME TypedInv, [Next]_vars PROVE TypedInv'
  OBVIOUS
<1> USE DEF TypedInv
<1>1. CASE Restart
  BY <1>1, RestartTypes
<1>2. CASE Ask /\ UNCHANGED <<way, restarts>>
  <2>1. ThreadTypes' /\ UNCHANGED <<mqttVars, meshVars, pollVars>>
    BY <1>2, AskTypes
  <2> QED
    BY <1>2, <2>1 DEF MqttTypes, mqttVars, MeshTypes, meshVars, wrVars, PollTypes,
       pollVars, WayTypes, LoginInv
<1>3. ASSUME NEW w \in Writes, Thread(w), UNCHANGED <<way, restarts>> PROVE TypedInv'
  <2>0. WayTypes'
    BY <1>3 DEF WayTypes
  <2>1. CASE MqttThread(w) /\ UNCHANGED <<meshVars, pollVars>>
    BY <2>0, <2>1, MqttThreadTypes
       DEF MeshTypes, meshVars, wrVars, PollTypes, pollVars, LoginInv
  <2>2. CASE MeshThread(w) /\ UNCHANGED <<mqttVars, pollVars>>
    <3>1. LoginInv'
      BY <2>2 DEF MeshThread, MeshPost, MeshSees, Monitor!Ask, meshVars, wrVars, LoginInv
    <3> QED
      BY <2>0, <2>2, <3>1, MeshThreadTypes DEF MqttTypes, mqttVars, PollTypes, pollVars
  <2>3. CASE PollThread(w) /\ UNCHANGED <<mqttVars, meshVars>>
    BY <2>0, <2>3, PollThreadTypes
       DEF MeshTypes, meshVars, wrVars, MqttTypes, mqttVars, LoginInv
  <2> QED
    BY <1>3, <2>1, <2>2, <2>3 DEF Thread
<1>4. CASE Outside /\ UNCHANGED <<way, restarts>>
  <2>0. WayTypes'
    BY <1>4 DEF WayTypes
  <2>1. CASE MqttNodeStep /\ UNCHANGED <<meshVars, pollVars>>
    BY <2>0, <2>1, MqttNodeTypes
       DEF MeshTypes, meshVars, wrVars, PollTypes, pollVars, LoginInv
  <2>2. CASE MonitorStep /\ UNCHANGED <<mqttVars, pollVars>>
    BY <2>0, <2>2, MonitorTypes DEF MqttTypes, mqttVars, PollTypes, pollVars
  <2>3. CASE PollStep /\ UNCHANGED <<mqttVars, meshVars>>
    BY <2>0, <2>3, PollStepTypes
       DEF MeshTypes, meshVars, wrVars, MqttTypes, mqttVars, LoginInv
  <2> QED
    BY <1>4, <2>1, <2>2, <2>3 DEF Outside
<1>5. CASE UNCHANGED vars
  BY <1>5 DEF vars, tvars, mqttVars, meshVars, wrVars, pollVars, ThreadTypes, MqttTypes,
     MeshTypes, PollTypes, WayTypes, LoginInv
<1> QED
  BY <1>1, <1>2, <1>3, <1>4, <1>5 DEF Next

\* The types of the threads, the three ways and the logins, as the proofs below
\* use them.
THEOREM WritesTyped == Spec => []TypedInv
BY TypedInit, TypedNext, PTL DEF Spec

\* Every variable of the threads and of the three ways keeps its type.
THEOREM WriteTyped == Spec => []WriteTypeOK
<1>1. TypedInv => WriteTypeOK
  BY TypesAre DEF TypedInv
<1> QED
  BY <1>1, WritesTyped, PTL

----------------------------------------------------------------------------
(* The steps of one way *)

LEMMA WayStays == [Next]_vars => way' = way
BY DEF Next, Restart, vars

LEMMA MeshSteps ==
  ASSUME [Next]_vars, way = "mesh"
  PROVE  \/ Ask
         \/ \E w \in Writes : MeshThread(w)
         \/ MonitorStep
         \/ ThreadsEnd /\ UNCHANGED meshVars
         \/ MonRestart
         \/ UNCHANGED <<tvars, meshVars>>
BY DEF Next, Restart, SiteRestart, Thread, Outside, vars

LEMMA MqttSteps ==
  ASSUME [Next]_vars, way = "mqtt"
  PROVE  \/ Ask
         \/ \E w \in Writes : MqttThread(w)
         \/ MqttNodeStep
         \/ ThreadsEnd /\ SiteForgets
         \/ UNCHANGED tvars /\ SiteForgets
         \/ NodeRestart
         \/ UNCHANGED <<tvars, mqttVars>>
BY DEF Next, Restart, SiteRestart, Thread, Outside, vars

LEMMA OtherSteps ==
  ASSUME [Next]_vars, way # "mesh"
  PROVE  UNCHANGED meshVars
BY DEF Next, Restart, SiteRestart, Thread, Outside, Ask, vars

----------------------------------------------------------------------------
(* The monitor keeps the outcome a thread waits for: while a request waits *)
(* or a next one could be taken, no thread of a begun write waits any more.*)

KeptInv ==
  /\ way # "mesh" => begun = {} /\ req = None
  /\ \A w \in begun : pc[w] \notin {"new", "begin"}
  /\ req # None => pc[req] \notin {"new", "begin"}
  /\ \A w \in begun : pc[w] = "wait" => job = w
  /\ req # None \/ (stage = "rest" /\ ~ gap) => \A w \in begun : pc[w] # "wait"

LEMMA KeptInit == Init => KeptInv
BY DEF Init, MeshInit, KeptInv

LEMMA KeptNext == TypedInv /\ KeptInv /\ [Next]_vars => KeptInv'
<1> SUFFICES ASSUME TypedInv, KeptInv, [Next]_vars PROVE KeptInv'
  OBVIOUS
<1>0. way' = way
  BY WayStays
<1>a. begun \subseteq Writes /\ req \in Writes \cup {None} /\ ThreadTypes
  BY DEF TypedInv, MeshTypes
<1>1. CASE way # "mesh"
  <2>1. begun' = {} /\ req' = None
    BY <1>1, OtherSteps DEF KeptInv, meshVars
  <2> QED
    BY <1>0, <1>1, <2>1 DEF KeptInv
<1>2. CASE way = "mesh"
  <2> USE DEF ThreadTypes
  <2>1. CASE Ask
    BY <1>0, <1>2, <1>a, <2>1 DEF Ask, Asks, KeptInv, meshVars, wrVars
  <2>2. ASSUME NEW w \in Writes, MeshPost(w) PROVE KeptInv'
    <3>1. pc[w] = "begin" /\ w \notin begun
      BY <2>2 DEF MeshPost, KeptInv, Goes, Tells
    <3>2. \A v \in Writes \ {w} : pc'[v] = pc[v]
      BY <1>a, <2>2 DEF MeshPost, Goes, Tells
    <3>3. pc'[w] \in {"wait", "done"}
      BY <1>a, <2>2 DEF MeshPost, Goes, Tells
    <3>4. CASE TakesWrite /\ req' = w /\ Monitor!Ask /\ UNCHANGED <<seq, job, fate, gap, begun>>
      BY <1>0, <1>2, <1>a, <3>1, <3>2, <3>3, <3>4 DEF TakesWrite, Monitor!Ask, KeptInv
    <3>5. CASE UNCHANGED meshVars
      BY <1>0, <1>2, <1>a, <3>1, <3>2, <3>3, <3>5 DEF meshVars, wrVars, KeptInv
    <3> QED
      BY <2>2, <3>4, <3>5 DEF MeshPost
  <2>3. ASSUME NEW w \in Writes, MeshSees(w) PROVE KeptInv'
    <3>1. pc' = [pc EXCEPT ![w] = "done"] /\ UNCHANGED meshVars
      BY <2>3 DEF MeshSees, Tells
    <3> QED
      BY <1>0, <1>2, <1>a, <3>1 DEF meshVars, wrVars, KeptInv
  <2>4. CASE MonBegin
    <3>1. /\ req # None /\ req' = None /\ job' = req /\ begun' = begun \cup {req}
          /\ pc' = pc /\ gap' = (gap \/ stage' = "rest")
      BY <2>4 DEF MonBegin, GapStarts
    <3> QED
      BY <1>0, <1>2, <3>1 DEF KeptInv
  <2>5. CASE MonSet \/ MonAnswer \/ MonGet
    <3>1. UNCHANGED <<req, job, begun, pc>> /\ stage' # "rest"
      BY <2>5 DEF MonSet, MonAnswer, MonGet, Monitor!SetLeaves, Monitor!SetAnswered,
         Monitor!GetLeaves, tvars
    <3> QED
      BY <1>0, <1>2, <3>1 DEF KeptInv
  <2>6. CASE MonEnds
    <3>1. UNCHANGED <<req, job, begun, pc>> /\ stage' = "rest"
      BY <2>6 DEF MonEnds, Monitor!ReadBack, Monitor!GiveUp, tvars
    <3>2. gap'
      BY <2>6, <3>1 DEF MonEnds, GapStarts
    <3> QED
      BY <1>0, <1>2, <3>1, <3>2 DEF KeptInv
  <2>7. CASE MonDrops
    BY <1>0, <1>2, <2>7 DEF MonDrops, KeptInv, tvars
  <2>8. CASE GapOver
    BY <1>0, <1>2, <1>a, <2>8 DEF GapOver, KeptInv, tvars
  <2>9. CASE ThreadsEnd /\ UNCHANGED meshVars
    <3>1. \A v \in Writes : pc'[v] = IF pc[v] \in Open THEN "gone" ELSE pc[v]
      BY <2>9 DEF ThreadsEnd
    <3>2. \A v \in Writes : pc'[v] # "wait" /\ (pc[v] \notin {"new", "begin"} => pc'[v] \notin {"new", "begin"})
      BY <3>1 DEF Open
    <3> QED
      BY <1>0, <1>2, <1>a, <2>9, <3>2 DEF KeptInv, meshVars
  <2>10. CASE MonRestart
    BY <1>0, <1>2, <2>10 DEF MonRestart, KeptInv
  <2>11. CASE UNCHANGED <<tvars, meshVars>>
    BY <1>0, <1>2, <2>11 DEF KeptInv, tvars, meshVars, wrVars
  <2> QED
    BY <1>2, <2>1, <2>2, <2>3, <2>4, <2>5, <2>6, <2>7, <2>8, <2>9, <2>10, <2>11,
       MeshSteps DEF MeshThread, MonitorStep
<1> QED
  BY <1>1, <1>2

\* Over LoRa: once the monitor began the write of a thread that waits, it
\* tells of that write until the thread has seen it.
THEOREM WriteKept == Spec => []OutcomeKept
<1>1. Init => TypedInv /\ KeptInv
  BY TypedInit, KeptInit
<1>2. TypedInv /\ KeptInv /\ [Next]_vars => (TypedInv /\ KeptInv)'
  BY TypedNext, KeptNext
<1>3. KeptInv => OutcomeKept
  BY DEF KeptInv, OutcomeKept
<1> QED
  BY <1>1, <1>2, <1>3, PTL DEF Spec

----------------------------------------------------------------------------
(* No write is executed twice: over LoRa "set" leaves from a begin or from *)
(* a login, and a write that has left can be neither any more; over the    *)
(* command topic a write is published once and taken from the wire once.   *)

MeshOnce ==
  /\ \A w \in Writes : ran[w] <= 1
  /\ \A w \in Writes : pc[w] \in {"new", "begin"} => ran[w] = 0 /\ w # req /\ w # job
  /\ req # None => ran[req] = 0
  /\ stage = "login" => job \in Writes /\ ran[job] = 0 /\ job # req

MqttOnce ==
  /\ \A w \in Writes : ran[w] <= 1
  /\ \A w \in Writes : pc[w] \in {"new", "begin", "put"} =>
       ran[w] = 0 /\ \A i \in 1..Len(cmds) : cmds[i] # w
  /\ \A i \in 1..Len(cmds) : ran[cmds[i]] = 0
  /\ \A i, j \in 1..Len(cmds) : cmds[i] = cmds[j] => i = j

OnceInv == (way = "mesh" => MeshOnce) /\ (way = "mqtt" => MqttOnce)

LEMMA OnceInit == Init => OnceInv
<1> SUFFICES ASSUME Init PROVE MeshOnce /\ MqttOnce
  BY DEF OnceInv
<1>1. MeshOnce
  BY WritesAre DEF Init, ThreadInit, MeshInit, MeshOnce
<1>2. MqttOnce
  BY DEF Init, ThreadInit, MqttInit, MqttOnce
<1> QED
  BY <1>1, <1>2

LEMMA MeshOnceNext ==
  ASSUME TypedInv, way = "mesh", MeshOnce, [Next]_vars
  PROVE  MeshOnce'
<1>a. req \in Writes \cup {None} /\ job \in Writes \cup {None} /\ None \notin Writes
  BY WritesAre DEF TypedInv, MeshTypes
<1>b. pc \in [Writes -> Open \cup {"new", "done", "gone"}] /\ ran \in [Writes -> Nat]
  BY DEF TypedInv, ThreadTypes
<1>1. CASE Ask
  <2>1. UNCHANGED <<ran, req, job, stage>>
    BY <1>1 DEF Ask, Asks, meshVars, wrVars
  <2>2. \A w \in Writes : pc'[w] \in {"new", "begin"} => pc[w] \in {"new", "begin"}
    BY <1>b, <1>1 DEF Ask, Asks
  <2> QED
    BY <2>1, <2>2 DEF MeshOnce
<1>2. ASSUME NEW w \in Writes, MeshPost(w) PROVE MeshOnce'
  <2>1. pc[w] = "begin" /\ ran' = ran
    BY <1>2 DEF MeshPost, Goes, Tells
  <2>2. pc'[w] \in {"wait", "done"} /\ \A v \in Writes \ {w} : pc'[v] = pc[v]
    BY <1>b, <1>2 DEF MeshPost, Goes, Tells
  <2>3. CASE TakesWrite /\ req' = w /\ Monitor!Ask /\ UNCHANGED <<seq, job, fate, gap, begun>>
    <3>1. stage' = "rest" /\ req' = w /\ job' = job
      BY <2>3 DEF TakesWrite, Monitor!Ask
    <3> QED
      BY <2>1, <2>2, <3>1 DEF MeshOnce
  <2>4. CASE UNCHANGED meshVars
    BY <2>1, <2>2, <2>4 DEF meshVars, wrVars, MeshOnce
  <2> QED
    BY <1>2, <2>3, <2>4 DEF MeshPost
<1>3. ASSUME NEW w \in Writes, MeshSees(w) PROVE MeshOnce'
  <2>1. pc' = [pc EXCEPT ![w] = "done"] /\ UNCHANGED <<ran, req, job, stage>>
    BY <1>3 DEF MeshSees, Tells, meshVars, wrVars
  <2> QED
    BY <1>b, <2>1 DEF MeshOnce
<1>4. CASE MonBegin
  <2>1. req \in Writes /\ req' = None /\ job' = req /\ pc' = pc /\ ran[req] = 0
    BY <1>a, <1>4 DEF MonBegin, MeshOnce
  <2>2. CASE sets' = 1
    <3>1. ran' = ran \/ ran' = [ran EXCEPT ![req] = @ + 1]
      BY <1>4, <2>2 DEF MonBegin, Executes, Runs
    <3>2. stage' # "login"
      <4>1. \/ stage' \in {"login", "rest"} /\ sets' = 0
            \/ stage' = "set" /\ sets' = 1
        BY <1>4, Zenon DEF MonBegin, Monitor!Begin
      <4> QED
        BY <2>2, <4>1
    <3> QED
      BY <1>a, <1>b, <2>1, <3>1, <3>2 DEF MeshOnce
  <2>3. CASE sets' # 1
    <3>1. ran' = ran
      BY <1>4, <2>3 DEF MonBegin
    <3> QED
      BY <1>a, <2>1, <3>1 DEF MeshOnce
  <2> QED
    BY <2>2, <2>3
<1>5. CASE MonSet
  <2>1. /\ stage = "login" /\ stage' = "set" /\ UNCHANGED <<pc, req, job>>
        /\ ran' = ran \/ ran' = [ran EXCEPT ![job] = @ + 1]
    BY <1>5 DEF MonSet, Monitor!SetLeaves, Executes, Runs
  <2>2. job \in Writes /\ ran[job] = 0 /\ job # req
    BY <2>1 DEF MeshOnce
  <2> QED
    BY <1>a, <1>b, <2>1, <2>2 DEF MeshOnce
<1>6. CASE MonAnswer \/ MonGet \/ MonEnds
  <2>1. stage' # "login" /\ UNCHANGED <<pc, ran, req, job>>
    BY <1>6 DEF MonAnswer, MonGet, MonEnds, tvars, Monitor!SetAnswered, Monitor!GetLeaves,
       Monitor!ReadBack, Monitor!GiveUp
  <2> QED
    BY <2>1 DEF MeshOnce
<1>7. CASE MonDrops
  <2>1. req' = None /\ UNCHANGED <<pc, ran, job, stage>>
    BY <1>7 DEF MonDrops, tvars, Monitor!Expire
  <2> QED
    BY <1>a, <2>1 DEF MeshOnce
<1>8. CASE GapOver \/ UNCHANGED <<tvars, meshVars>>
  BY <1>8 DEF GapOver, tvars, meshVars, wrVars, MeshOnce
<1>9. CASE ThreadsEnd /\ UNCHANGED meshVars
  <2>1. \A w \in Writes : pc'[w] \in {"new", "begin"} => pc[w] = "new"
    BY <1>9 DEF ThreadsEnd, Open
  <2>2. UNCHANGED <<ran, req, job, stage>>
    BY <1>9 DEF ThreadsEnd, meshVars, wrVars
  <2> QED
    BY <2>1, <2>2 DEF MeshOnce
<1>10. CASE MonRestart
  <2>1. req' = None /\ job' = None /\ stage' = "rest" /\ UNCHANGED <<pc, ran>>
    BY <1>10 DEF MonRestart, tvars
  <2> QED
    BY <1>a, <2>1 DEF MeshOnce
<1> QED
  BY <1>1, <1>2, <1>3, <1>4, <1>5, <1>6, <1>7, <1>8, <1>9, <1>10, MeshSteps
     DEF MeshThread, MonitorStep

LEMMA MqttOnceNext ==
  ASSUME TypedInv, way = "mqtt", MqttOnce, [Next]_vars
  PROVE  MqttOnce'
<1>b. /\ pc \in [Writes -> Open \cup {"new", "done", "gone"}] /\ ran \in [Writes -> Nat]
      /\ cmds \in Seq(Writes)
  BY DEF TypedInv, ThreadTypes, MqttTypes
<1>1. CASE Ask
  <2>1. UNCHANGED <<ran, cmds>>
    BY <1>1 DEF Ask, Asks, mqttVars
  <2>2. \A w \in Writes : pc'[w] \in {"new", "begin", "put"} => pc[w] \in {"new", "begin", "put"}
    BY <1>b, <1>1 DEF Ask, Asks
  <2> QED
    BY <2>1, <2>2 DEF MqttOnce
<1>2. ASSUME NEW w \in Writes, MqttBegin(w) PROVE MqttOnce'
  <2>1. pc[w] = "begin" /\ pc' = [pc EXCEPT ![w] = "put"] /\ UNCHANGED <<ran, cmds>>
    BY <1>2 DEF MqttBegin, Goes
  <2> QED
    BY <1>b, <2>1 DEF MqttOnce
<1>3. ASSUME NEW w \in Writes, Goes(w, "put", "wait"), cmds' = Append(cmds, w)
      PROVE  MqttOnce'
  <2>1. pc[w] = "put" /\ pc' = [pc EXCEPT ![w] = "wait"] /\ ran' = ran
    BY <1>3 DEF Goes
  <2>2. /\ Len(cmds') = Len(cmds) + 1 /\ cmds'[Len(cmds) + 1] = w
        /\ \A i \in 1..Len(cmds) : cmds'[i] = cmds[i]
    BY <1>b, <1>3
  <2>3. ran[w] = 0 /\ \A i \in 1..Len(cmds) : cmds[i] # w
    BY <2>1 DEF MqttOnce
  <2>4. \A i \in 1..Len(cmds') : i \in 1..Len(cmds) \/ i = Len(cmds) + 1
    BY <1>b, <2>2
  <2>5. \A i \in 1..Len(cmds') : ran'[cmds'[i]] = 0
    BY <2>1, <2>2, <2>3, <2>4 DEF MqttOnce
  <2>6. \A i, j \in 1..Len(cmds') : cmds'[i] = cmds'[j] => i = j
    BY <2>2, <2>3, <2>4 DEF MqttOnce
  <2>7. \A v \in Writes : pc'[v] \in {"new", "begin", "put"} =>
          ran'[v] = 0 /\ \A i \in 1..Len(cmds') : cmds'[i] # v
    BY <1>b, <2>1, <2>2, <2>4 DEF MqttOnce
  <2> QED
    BY <2>1, <2>5, <2>6, <2>7 DEF MqttOnce
<1>4. ASSUME NEW w \in Writes, NEW ok, NEW step, NEW by, Tells(w, ok, step, by), UNCHANGED mqttVars
      PROVE  MqttOnce'
  <2>1. pc' = [pc EXCEPT ![w] = "done"] /\ UNCHANGED <<ran, cmds>>
    BY <1>4 DEF Tells, mqttVars
  <2> QED
    BY <1>b, <2>1 DEF MqttOnce
<1>5. CASE NodeCommand
  <2>1. cmds # <<>> /\ cmds' = Tail(cmds) /\ pc' = pc
    BY <1>5 DEF NodeCommand
  <2>2. ran' = ran \/ ran' = [ran EXCEPT ![Head(cmds)] = @ + 1]
    BY <1>5 DEF NodeCommand, Runs
  <2>3. Head(cmds) = cmds[1] /\ Head(cmds) \in Writes /\ Len(cmds) \in Nat \ {0}
    BY <1>b, <2>1
  <2>4. Len(cmds') = Len(cmds) - 1 /\ \A i \in 1..Len(cmds') : cmds'[i] = cmds[i + 1] /\ i + 1 \in 1..Len(cmds)
    BY <1>b, <2>1, <2>3
  <2>5. ran[Head(cmds)] = 0
    BY <2>3 DEF MqttOnce
  <2>6. \A i \in 1..Len(cmds') : cmds'[i] # Head(cmds)
    BY <2>3, <2>4 DEF MqttOnce
  <2>7. \A v \in Writes : pc[v] \in {"new", "begin", "put"} => v # Head(cmds)
    BY <2>3 DEF MqttOnce
  <2>8. \A v \in Writes : ran'[v] <= 1 /\ (v # Head(cmds) => ran'[v] = ran[v])
    BY <1>b, <2>2, <2>3, <2>5 DEF MqttOnce
  <2>9. \A i \in 1..Len(cmds') : cmds'[i] \in Writes /\ ran'[cmds'[i]] = 0
    <3>1. \A i \in 1..Len(cmds) : cmds[i] \in Writes /\ ran[cmds[i]] = 0
      BY <1>b DEF MqttOnce
    <3>2. \A i \in 1..Len(cmds') : cmds'[i] \in Writes /\ ran[cmds'[i]] = 0
      BY <2>4, <3>1
    <3> QED
      BY <2>6, <2>8, <3>2
  <2>10. \A i, j \in 1..Len(cmds') : cmds'[i] = cmds'[j] => i = j
    BY <2>3, <2>4 DEF MqttOnce
  <2>11. \A v \in Writes : pc'[v] \in {"new", "begin", "put"} =>
           ran'[v] = 0 /\ \A i \in 1..Len(cmds') : cmds'[i] # v
    BY <2>1, <2>4, <2>7, <2>8 DEF MqttOnce
  <2> QED
    BY <2>8, <2>9, <2>10, <2>11 DEF MqttOnce
<1>6. CASE StatsPublished \/ StatsArrives \/ UNCHANGED <<tvars, mqttVars>>
  BY <1>6 DEF StatsPublished, StatsArrives, tvars, mqttVars, MqttOnce
<1>7. CASE SiteForgets /\ (ThreadsEnd \/ UNCHANGED tvars)
  <2>1. \A w \in Writes : pc'[w] \in {"new", "begin", "put"} => pc[w] \in {"new", "begin", "put"}
    BY <1>7 DEF ThreadsEnd, Open, tvars
  <2>2. UNCHANGED <<ran, cmds>>
    BY <1>7 DEF ThreadsEnd, SiteForgets, tvars
  <2> QED
    BY <2>1, <2>2 DEF MqttOnce
<1>8. CASE NodeRestart
  <2>1. cmds' = <<>> /\ UNCHANGED <<pc, ran>>
    BY <1>8 DEF NodeRestart, tvars
  <2> QED
    BY <2>1 DEF MqttOnce
<1>9. ASSUME NEW w \in Writes, MqttThread(w) PROVE MqttOnce'
  BY <1>2, <1>3, <1>4, <1>9 DEF MqttThread, MqttPublish, MqttSees, MqttTimeout
<1> QED
  BY <1>1, <1>5, <1>6, <1>7, <1>8, <1>9, MqttSteps DEF MqttNodeStep

\* What stayed silent is not asked again, over neither of the two ways.
THEOREM WriteOnce == Spec => []AtMostOnce
<1>1. Init => TypedInv /\ OnceInv
  BY TypedInit, OnceInit
<1>2. TypedInv /\ OnceInv /\ [Next]_vars => (TypedInv /\ OnceInv)'
  BY TypedNext, WayStays, MeshOnceNext, MqttOnceNext DEF OnceInv
<1>3. OnceInv /\ way \in Ways /\ Ways \subseteq {"mqtt", "mesh", "poller"} => AtMostOnce
  BY DEF OnceInv, MeshOnce, MqttOnce, AtMostOnce
<1>4. TypedInv => way \in Ways
  BY DEF TypedInv, WayTypes
<1> QED
  BY <1>1, <1>2, <1>3, <1>4, WaysAssumption, PTL DEF Spec

----------------------------------------------------------------------------
(* Over the command topic: while a settled write is under way no other one *)
(* is, every command on its way is its own, and every outcome with a       *)
(* higher number than the one it read, wherever it is, is its own too.     *)

Alone(w) ==
  /\ \A v \in Writes \ {w} : pc[v] \notin {"put", "wait"}
  /\ \A i \in 1..Len(cmds) : cmds[i] = w
  /\ cset.seq > before[w] => cset.by = w
  /\ wire.seq > before[w] => wire.by = w
  /\ cfgset.seq > before[w] => cfgset.by = w

MqttOwn ==
  /\ \A w \in Writes : settled[w] /\ pc[w] \in {"put", "wait"} => Alone(w)
  /\ \A w \in Writes : settled[w] /\ pc[w] = "done" => out[w].by \in {w, None}

OwnInv == way = "mqtt" => MqttOwn

LEMMA OwnInit == Init => OwnInv
BY DEF Init, ThreadInit, OwnInv, MqttOwn

LEMMA MqttOwnNext ==
  ASSUME TypedInv, way = "mqtt", MqttOwn, [Next]_vars
  PROVE  MqttOwn'
<1>b. /\ pc \in [Writes -> Open \cup {"new", "done", "gone"}]
      /\ out \in [Writes -> [ok : BOOLEAN, step : Steps, by : Writes \cup {None}]]
      /\ cmds \in Seq(Writes) /\ before \in [Writes -> Nat]
      /\ settled \in [Writes -> BOOLEAN]
      /\ cset.seq \in Nat /\ wire.seq \in Nat /\ cfgset.seq \in Nat
  BY DEF TypedInv, ThreadTypes, MqttTypes, Outcome
\* A step that moves no thread into "put" or "wait" and tells no page anything.
<1>c. ASSUME UNCHANGED <<out, before, settled>>,
             \A w \in Writes : pc'[w] \in {"put", "wait", "done"} => pc'[w] = pc[w],
             \A w \in Writes : settled[w] /\ pc[w] \in {"put", "wait"} /\ Alone(w) => Alone(w)'
      PROVE  MqttOwn'
  BY <1>c DEF MqttOwn
<1>1. CASE Ask
  <2>1. UNCHANGED <<out, mqttVars>>
    BY <1>1 DEF Ask, Asks
  <2>2. \A w \in Writes : pc'[w] \in {"put", "wait", "done"} => pc'[w] = pc[w]
    BY <1>b, <1>1 DEF Ask, Asks
  <2> QED
    BY <1>c, <2>1, <2>2 DEF mqttVars, Alone
<1>2. ASSUME NEW w \in Writes, MqttBegin(w) PROVE MqttOwn'
  <2>1. /\ pc[w] = "begin" /\ pc' = [pc EXCEPT ![w] = "put"]
        /\ UNCHANGED <<out, cmds, cset, wire, cfgset>>
        /\ before' = [before EXCEPT ![w] = cfgset.seq]
    BY <1>2 DEF MqttBegin, Goes
  <2>2. /\ \A v \in Writes \ {w} : settled'[v] = (settled[v] /\ pc[v] \notin {"put", "wait"})
        /\ settled'[w] => /\ cmds = <<>> /\ wire.seq <= cfgset.seq /\ cset.seq <= cfgset.seq
                          /\ \A v \in Writes \ {w} : pc[v] \notin {"put", "wait"}
    BY <1>2 DEF MqttBegin
  <2>3. settled'[w] => Alone(w)'
    BY <1>b, <2>1, <2>2 DEF Alone
  <2>4. \A v \in Writes \ {w} : settled'[v] => settled[v] /\ pc'[v] = pc[v] /\ pc[v] \notin {"put", "wait"}
    BY <1>b, <2>1, <2>2
  <2>5. pc'[w] = "put"
    BY <1>b, <2>1
  <2> QED
    BY <2>1, <2>3, <2>4, <2>5 DEF MqttOwn
<1>3. ASSUME NEW w \in Writes, Goes(w, "put", "wait"), cmds' = Append(cmds, w),
             UNCHANGED <<before, cset, wire, cfgset, settled>>
      PROVE  MqttOwn'
  <2>1. pc[w] = "put" /\ pc' = [pc EXCEPT ![w] = "wait"] /\ out' = out
    BY <1>3 DEF Goes
  <2>2. /\ Len(cmds') = Len(cmds) + 1 /\ cmds'[Len(cmds) + 1] = w
        /\ \A i \in 1..Len(cmds) : cmds'[i] = cmds[i]
    BY <1>b, <1>3
  <2>3. \A i \in 1..Len(cmds') : i \in 1..Len(cmds) \/ i = Len(cmds) + 1
    BY <1>b, <2>2
  <2>4. ASSUME NEW v \in Writes, settled[v], pc'[v] \in {"put", "wait"} PROVE Alone(v)'
    <3>1. pc[v] \in {"put", "wait"} /\ Alone(v)
      BY <1>b, <2>1, <2>4 DEF MqttOwn
    <3>2. v = w
      BY <2>1, <3>1 DEF Alone
    <3> QED
      BY <1>3, <1>b, <2>1, <2>2, <2>3, <3>1, <3>2 DEF Alone
  <2> QED
    BY <1>3, <1>b, <2>1, <2>4 DEF MqttOwn
<1>4. ASSUME NEW w \in Writes, NEW ok, NEW step, NEW by, Tells(w, ok, step, by),
             UNCHANGED mqttVars, settled[w] => by \in {w, None}
      PROVE  MqttOwn'
  <2>1. /\ pc' = [pc EXCEPT ![w] = "done"]
        /\ out' = [out EXCEPT ![w] = [ok |-> ok, step |-> step, by |-> by]]
        /\ UNCHANGED <<before, cmds, cset, wire, cfgset, settled>>
    BY <1>4 DEF Tells, mqttVars
  <2>2. \A v \in Writes : pc'[v] \in {"put", "wait"} => pc[v] = pc'[v]
    BY <1>b, <2>1
  <2>3. \A v \in Writes : settled'[v] /\ pc'[v] \in {"put", "wait"} => Alone(v)'
    BY <1>b, <2>1, <2>2 DEF MqttOwn, Alone
  <2>4. \A v \in Writes : settled'[v] /\ pc'[v] = "done" => out'[v].by \in {v, None}
    BY <1>4, <1>b, <2>1 DEF MqttOwn
  <2> QED
    BY <2>3, <2>4 DEF MqttOwn
<1>5. ASSUME NEW w \in Writes, MqttThread(w) PROVE MqttOwn'
  <2>1. CASE MqttSees(w)
    <3>1. pc[w] = "wait" /\ cfgset.seq > before[w]
      BY <2>1 DEF MqttSees, Newer
    <3>2. settled[w] => cfgset.by = w
      BY <3>1 DEF MqttOwn, Alone
    <3> QED
      BY <1>4, <2>1, <3>2 DEF MqttSees
  <2>2. CASE MqttTimeout(w)
    BY <1>4, <2>2 DEF MqttTimeout
  <2>3. CASE MqttPublish(w)
    BY <1>3, <1>4, <2>3 DEF MqttPublish
  <2> QED
    BY <1>2, <1>5, <2>1, <2>2, <2>3 DEF MqttThread
<1>6. CASE NodeCommand
  <2>1. cmds # <<>> /\ cmds' = Tail(cmds) /\ UNCHANGED <<pc, out, before, wire, cfgset, settled>>
    BY <1>6 DEF NodeCommand
  <2>2. cset' = cset \/ cset'.by = Head(cmds)
    BY <1>6 DEF NodeCommand
  <2>3. Head(cmds) = cmds[1] /\ Len(cmds) \in Nat \ {0}
    BY <1>b, <2>1
  <2>4. Len(cmds') = Len(cmds) - 1 /\ \A i \in 1..Len(cmds') : cmds'[i] = cmds[i + 1] /\ i + 1 \in 1..Len(cmds)
    BY <1>b, <2>1, <2>3
  <2>5. ASSUME NEW w \in Writes, Alone(w) PROVE Alone(w)'
    <3>1. Head(cmds) = w /\ \A i \in 1..Len(cmds') : cmds'[i] = w
      BY <2>3, <2>4, <2>5 DEF Alone
    <3> QED
      BY <2>1, <2>2, <2>5, <3>1 DEF Alone
  <2> QED
    BY <1>c, <2>1, <2>5
<1>7. CASE StatsPublished \/ StatsArrives
  <2>1. UNCHANGED <<pc, out, before, cmds, cset, settled>>
    BY <1>7 DEF StatsPublished, StatsArrives, tvars
  <2>2. \/ wire' = cset /\ cfgset' = cfgset
        \/ wire'.seq = 0 /\ cfgset' = wire
    BY <1>7 DEF StatsPublished, StatsArrives, NoSet
  <2>3. \A w \in Writes : Alone(w) => Alone(w)'
    BY <1>b, <2>1, <2>2 DEF Alone
  <2> QED
    BY <1>c, <2>1, <2>3
<1>8. CASE SiteForgets /\ (ThreadsEnd \/ UNCHANGED tvars)
  <2>1. UNCHANGED <<out, before, cmds, cset, wire, settled>> /\ cfgset'.seq = 0
    BY <1>8 DEF ThreadsEnd, SiteForgets, tvars, NoSet
  <2>2. \A w \in Writes : pc'[w] = pc[w] \/ pc'[w] = "gone"
    BY <1>8 DEF ThreadsEnd, tvars
  <2>3. \A w \in Writes : Alone(w) => Alone(w)'
    BY <1>b, <2>1, <2>2 DEF Alone
  <2> QED
    BY <1>c, <2>1, <2>2, <2>3
<1>9. CASE NodeRestart
  <2>1. UNCHANGED <<pc, out, before, wire, cfgset, settled>> /\ cmds' = <<>> /\ cset'.seq = 0
    BY <1>9 DEF NodeRestart, tvars, NoSet
  <2>2. \A w \in Writes : Alone(w) => Alone(w)'
    BY <1>b, <2>1 DEF Alone
  <2> QED
    BY <1>c, <2>1, <2>2
<1>10. CASE UNCHANGED <<tvars, mqttVars>>
  BY <1>c, <1>10 DEF tvars, mqttVars, Alone
<1> QED
  BY <1>1, <1>5, <1>6, <1>7, <1>8, <1>9, <1>10, MqttSteps DEF MqttNodeStep

\* Over the command topic the outcome that a page of a settled write shows is
\* that of its own write.
THEOREM WriteOwn == Spec => []OwnOutcome
<1>1. Init => TypedInv /\ OwnInv
  BY TypedInit, OwnInit
<1>2. TypedInv /\ OwnInv /\ [Next]_vars => (TypedInv /\ OwnInv)'
  BY TypedNext, WayStays, MqttOwnNext DEF OwnInv
<1>3. OwnInv => OwnOutcome
  BY DEF OwnInv, MqttOwn, OwnOutcome
<1> QED
  BY <1>1, <1>2, <1>3, PTL DEF Spec
============================================================================
