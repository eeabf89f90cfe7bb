----------------------------- MODULE MonRadio -----------------------------
(***************************************************************************)
(* The monitor of the repeater firmware (MeshManagerNet.cpp): ONE state    *)
(* machine, one radio and one place for an answer, shared by four jobs:    *)
(*                                                                         *)
(*   the poll round     login, status, telemetry, neighbours, per entry    *)
(*   the sweep          "get <param>" for each parameter of one entry      *)
(*   the write          "set <param> <value>", a pause, "get <param>"      *)
(*   the clock run      "clock", and "clock sync" where it is behind       *)
(*                                                                         *)
(* Entries are places in a list that the web page and the console edit     *)
(* while a job runs.  The code counts places from 0 and has -1 for none;   *)
(* here they start at 1 and 0 is none.                                     *)
(*                                                                         *)
(* A deadline is not a number: it may have passed at any moment.  Answers  *)
(* are lost, late and repeated.  A command is executed when it is sent;    *)
(* only its answer lags.  Ghosts: quiet, node, cmd, hit, moved, misfiled.  *)
(***************************************************************************)
EXTENDS Naturals, FiniteSets, Sequences

CONSTANTS
  Nodes,          \* the repeaters that may be monitored
  None,           \* no node, no answer
  Start,          \* the nodes in the file of the list at boot
  ParamCount,     \* SET_PARAM_COUNT
  SetSilentMax,   \* MON_SET_SILENT_MAX
  ClkSilentMax,   \* MON_CLK_SILENT_MAX
  BackoffAfter,   \* MON_BACKOFF_AFTER
  BackoffEvery,   \* MON_BACKOFF_EVERY
  MaxEvents       \* bound: requests, edits, alerts, switches off

ASSUME RadioAssumption ==
  /\ None \notin Nodes /\ Start \in Seq(Nodes)
  /\ {ParamCount, SetSilentMax, ClkSilentMax, BackoffAfter, BackoffEvery}
       \subseteq Nat \ {0}
  /\ MaxEvents \in Nat

VARIABLES
  mon,       \* _mon: sequence of entries
  ctl,       \* _mon_state, _mon_cur, _mon_retry
  some,      \* the round of this entry brought something to publish
  round,     \* _mon_round, modulo BackoffEvery
  set,       \* _mset_*: the sweep
  wr,        \* _mwr_*: the write
  clk,       \* _mclk_*: the clock run
  slot,      \* _mon_reply and _mon_got_reply
  air,       \* answers under way
  mqtt,      \* MQTT is switched on
  low,       \* the battery is below bat_mon
  misfiled,  \* ghost: what was wrong with answers a job has booked
  events     \* how many of MaxEvents there were

job == <<set, wr, clk>>
env == <<mqtt, low, events>>
vars == <<mon, ctl, some, round, job, slot, air, env, misfiled>>

States == {"idle", "login", "req", "telem", "nbr", "cli", "gap", "clk", "wset"}
Idle == [st |-> "idle", cur |-> 0, retry |-> 0]
NoSweep == [req |-> None, cur |-> 0, next |-> 1, pause |-> FALSE, silent |-> 0,
            node |-> None, moved |-> FALSE]
NoWrite == [req |-> None, cur |-> 0, step |-> 0, pause |-> FALSE, node |-> None,
            sent |-> FALSE, said |-> "no", read |-> FALSE, hit |-> <<>>, moved |-> FALSE]
NoClock == [run |-> FALSE, cur |-> 0, next |-> 1, step |-> 0, silent |-> 0]

----------------------------------------------------------------------------
(* The list and the table of the mesh side *)

Entry(n, full) == [node |-> n, full |-> full, on |-> TRUE, in |-> FALSE, fails |-> 0]

\* syncMonitorsToMesh: only a full key gets a place in the table of the mesh
\* side, which is rebuilt in the order of the list; every session is forgotten.
Synced(l) == [i \in DOMAIN l |-> [l[i] EXCEPT !.in = FALSE]]

\* mesh_idx of an entry; the zeroed place behind the list points at the first.
MeshIdx(l, i) ==
  IF i \in DOMAIN l
  THEN IF l[i].full THEN Cardinality({j \in 1..i : l[j].full}) ELSE 0
  ELSE 1

\* The entry whose key is at place k of the table, if there is one.
At(l, k) == {j \in DOMAIN l : l[j].full /\ MeshIdx(l, j) = k}

\* monFindByPrefix and findMonitor: places of node n.
Places(l, n) == {i \in DOMAIN l : l[i].node = n}
Reachable(l, i) == l[i].on /\ l[i].full

SetIn(l, i, b) == IF i \in DOMAIN l THEN [l EXCEPT ![i].in = b] ELSE l
Failed(l, i) ==
  IF i \in DOMAIN l /\ l[i].fails < BackoffAfter
  THEN [l EXCEPT ![i].fails = @ + 1] ELSE l
Cleared(l, i) == IF i \in DOMAIN l THEN [l EXCEPT ![i].fails = 0] ELSE l

\* A packet to entry i cannot leave without a place in the table, nor when the
\* packet pool is empty.  Its answer is lost, or may come from now on, more than
\* once, until that to a later packet does (one at a time).
Request(l, i) ==
  \E j \in At(l, MeshIdx(l, i)) :
    air' \in {air, {[node |-> l[j].node, type |-> "response", cmd |-> None]}}

\* The command cmd: its job and how far that is.  What still comes to a command
\* before it is too late to tell which one it answers.
Command(l, i, cmd) ==
  \E j \in At(l, MeshIdx(l, i)) :
    air' \in {{[node |-> m.node, type |-> m.type, cmd |-> None] : m \in air},
              {[node |-> l[j].node, type |-> "text", cmd |-> cmd]}}
NotSent == UNCHANGED air

----------------------------------------------------------------------------
(* The poll round *)

Gap(i) == [st |-> "gap", cur |-> i, retry |-> 0]

\* publishMonitorRound and monRoundFailed: the turn of an entry ends; g says
\* whether it brought anything, and the broker may be away.
EndOfTurn(l, g) ==
  /\ \/ g /\ mon' = Cleared(l, ctl.cur)
     \/ mon' = Failed(l, ctl.cur)
  /\ ctl' = Gap(ctl.cur)

Requests == <<"req", "telem", "nbr">>

\* monStep: the first request from the k-th on that can be sent.
Step(k, l, i) ==
  \E j \in k..3 :
    /\ Request(l, i)
    /\ ctl' = [st |-> Requests[j], cur |-> i, retry |-> 0]
    /\ mon' = l
StepOrEnd(k, l, g) ==
  /\ Step(k, l, ctl.cur) \/ (NotSent /\ EndOfTurn(l, g))
  /\ some' = g

Login(l, i) ==
  /\ Request(l, i)
  /\ ctl' = [st |-> "login", cur |-> i, retry |-> 0]
  /\ mon' = l

Resting(e) == e.fails >= BackoffAfter /\ round # 0
Pollable(l, i) == Reachable(l, i) /\ ~ Resting(l[i])

\* monitorAdvance: those before the next one found the packet pool empty; one
\* with a session then had a turn that brought nothing.
MonitorAdvance(l, from) ==
  LET skipped(k) == [j \in DOMAIN l |->
                      IF from < j /\ j < k /\ Pollable(l, j) /\ l[j].in
                      THEN Failed(l, j)[j] ELSE l[j]]
  IN  \/ \E i \in (from + 1)..Len(l) :
           /\ Pollable(l, i)
           /\ some' = FALSE
           /\ IF l[i].in THEN Step(1, skipped(i), i) ELSE Login(skipped(i), i)
           /\ UNCHANGED round
      \/ /\ ctl' = Idle
         /\ mon' = skipped(Len(l) + 1)
         /\ round' = (round + 1) % BackoffEvery
         /\ NotSent /\ UNCHANGED some

----------------------------------------------------------------------------
(* The sweep.  s and l are its state and the list after what the pass has   *)
(* changed so far.                                                         *)

SettingsFinish(s, l) ==
  /\ set' = [NoSweep EXCEPT !.req = s.req]
  /\ ctl' = Idle
  /\ mon' = l
  /\ NotSent

\* The next parameter after a pause, or the end: no parameter or no time left.
SettingsAdvance(s, l, c) ==
  \/ SettingsFinish(s, l)
  \/ /\ s.next < ParamCount
     /\ set' = [s EXCEPT !.next = @ + 1, !.pause = TRUE]
     /\ ctl' = [c EXCEPT !.st = "cli"]
     /\ mon' = l
     /\ NotSent

SettingsSend(s, l, c) ==
  \/ /\ Command(l, s.cur, <<"sweep", s.next>>)
     /\ set' = s
     /\ ctl' = [c EXCEPT !.st = "cli"]
     /\ mon' = l
  \/ SettingsAdvance(s, l, c)

----------------------------------------------------------------------------
(* The write *)

\* MUTANT: the write ends, the machine is not handed back.
WriteFinishHoldsMachine(w, l) ==
  /\ wr' = [w EXCEPT !.cur = 0, !.step = 0, !.pause = FALSE]
  /\ mon' = l
  /\ NotSent /\ UNCHANGED ctl

WriteFinish(w, l) ==
  /\ wr' = [w EXCEPT !.cur = 0, !.step = 0, !.pause = FALSE]
  /\ ctl' = Idle
  /\ mon' = l
  /\ NotSent

\* MUTANT: only the read-back counts as sent.
WriteSendCountsGet(w, l, c) ==
  \/ /\ Command(l, w.cur, <<"write", w.step>>)
     /\ \E j \in At(l, MeshIdx(l, w.cur)) :
          wr' = [w EXCEPT !.sent = w.step = 1,
                   !.hit = IF w.step = 0 THEN Append(@, l[j].node) ELSE @]
     /\ ctl' = [c EXCEPT !.st = "wset"]
     /\ mon' = l
  \/ WriteFinish(w, l)

WriteSend(w, l, c) ==
  \/ /\ Command(l, w.cur, <<"write", w.step>>)
     /\ \E j \in At(l, MeshIdx(l, w.cur)) :
          wr' = [w EXCEPT !.sent = TRUE,
                   !.hit = IF w.step = 0 THEN Append(@, l[j].node) ELSE @]
     /\ ctl' = [c EXCEPT !.st = "wset"]
     /\ mon' = l
  \/ WriteFinish(w, l)

----------------------------------------------------------------------------
(* The clock run *)

ClockFinish(l) ==
  /\ clk' = NoClock
  /\ ctl' = Idle
  /\ mon' = l
  /\ NotSent

ClockNodeDone(c, l) ==
  /\ clk' = [c EXCEPT !.cur = 0, !.step = 0]
  /\ ctl' = Idle
  /\ mon' = l
  /\ NotSent

ClockSend(c, l, k) ==
  \/ /\ Command(l, c.cur, <<"clock", c.step>>)
     /\ clk' = c
     /\ ctl' = [k EXCEPT !.st = "clk"]
     /\ mon' = l
  \/ ClockNodeDone(c, l)

\* The next entry worth asking, or the end of the run: no time, too much
\* silence, no entry left.
ClockAdvance ==
  LET rest == {i \in clk.next..Len(mon) : Reachable(mon, i)}
      c(i) == [clk EXCEPT !.next = i + 1, !.cur = i, !.step = 0]
  IN  \/ ClockFinish(mon)
      \/ /\ clk.silent < ClkSilentMax
         /\ \E i \in rest :
              /\ \A j \in rest : i <= j
              /\ IF mon[i].in THEN ClockSend(c(i), mon, [Idle EXCEPT !.cur = i])
                 ELSE \/ Login(mon, i) /\ clk' = c(i)
                      \/ ClockNodeDone(c(i), mon)

----------------------------------------------------------------------------
(* A pass of monitorLoop.  Without a broker only a write goes on.          *)

Awake == mon # <<>> /\ (mqtt \/ wr.req # None \/ wr.cur # 0)
Runs == Awake /\ ~ low

\* MUTANT: an empty battery ends a clock run, not a write.
BatteryOutClockOnly ==
  /\ Awake /\ low
  /\ clk.run
  /\ clk' = NoClock /\ ctl' = Idle /\ NotSent
  /\ UNCHANGED <<wr, mon, some, round, set, slot, env, misfiled>>

BatteryOut ==
  /\ Awake /\ low
  /\ clk.run \/ wr.cur # 0
  /\ clk' = IF clk.run THEN NoClock ELSE clk
  /\ IF wr.cur # 0 THEN WriteFinish(wr, mon)
                   ELSE ctl' = Idle /\ NotSent /\ UNCHANGED <<wr, mon>>
  /\ UNCHANGED <<some, round, set, slot, env, misfiled>>

\* What is wrong with an answer that a job takes for that of node n to cmd.
Wrong(n, cmd, moved) ==
  (IF slot.quiet THEN {"quiet"} ELSE {}) \cup
  (IF slot.node # n /\ ~ moved THEN {"node"} ELSE {}) \cup
  (IF slot.cmd \notin {None, cmd} THEN {"command"} ELSE {})

Text == slot # None /\ slot.type = "text"
From(cur) == cur # 0 /\ MeshIdx(mon, cur) = slot.idx
ForSweep == Text /\ ctl.st = "cli" /\ From(set.cur)
ForWrite == Text /\ ctl.st = "wset" /\ From(wr.cur)
ForClock == Text /\ ctl.st = "clk" /\ From(clk.cur)

\* An answer in the pause before the next command is thrown away, and so is a
\* text nobody waits for, once monAlert has published it as an alert.
Ignored ==
  /\ Text
  /\ \/ ForSweep /\ set.pause
     \/ ForWrite /\ wr.pause
     \/ ~ ForSweep /\ ~ ForWrite /\ ~ ForClock
  /\ UNCHANGED <<mon, ctl, some, round, job, air, misfiled>>

SettingsReply ==
  /\ ForSweep /\ ~ set.pause
  /\ misfiled' = misfiled \cup Wrong(set.node, <<"sweep", set.next>>, set.moved)
  /\ SettingsAdvance([set EXCEPT !.silent = 0], mon, ctl)
  /\ UNCHANGED <<some, round, wr, clk>>

\* MUTANT: the pause before "get" is not looked at.
WriteReplyInPause ==
  /\ ForWrite
  /\ misfiled' = misfiled \cup Wrong(wr.node, <<"write", wr.step>>, wr.moved)
  /\ IF wr.step = 0
     THEN /\ \E said \in {"ok", "err"} :
               wr' = [wr EXCEPT !.said = said, !.step = 1, !.pause = TRUE]
          /\ NotSent /\ UNCHANGED <<ctl, mon>>
     ELSE \E read \in BOOLEAN : WriteFinish([wr EXCEPT !.read = read], mon)
  /\ UNCHANGED <<some, round, set, clk>>

\* The answer to "set" is followed by a pause and "get"; the answer to "get"
\* is the value read back, or an error line.
WriteReply ==
  /\ ForWrite /\ ~ wr.pause
  /\ misfiled' = misfiled \cup Wrong(wr.node, <<"write", wr.step>>, wr.moved)
  /\ IF wr.step = 0
     THEN /\ \E said \in {"ok", "err"} :
               wr' = [wr EXCEPT !.said = said, !.step = 1, !.pause = TRUE]
          /\ NotSent /\ UNCHANGED <<ctl, mon>>
     ELSE \E read \in BOOLEAN : WriteFinish([wr EXCEPT !.read = read], mon)
  /\ UNCHANGED <<some, round, set, clk>>

\* A reading that is behind is followed by "clock sync" at once.
ClockReply ==
  /\ ForClock
  /\ LET heard == [clk EXCEPT !.silent = 0]
     IN  \/ ClockNodeDone(IF clk.step = 0 THEN heard ELSE clk, mon)
         \/ clk.step = 0 /\ ClockSend([heard EXCEPT !.step = 1], mon, ctl)
  /\ UNCHANGED <<some, round, set, wr, misfiled>>

\* A login was answered: the job that sent it goes on.
LoginReply ==
  LET l == SetIn(mon, ctl.cur, TRUE)
  IN  IF wr.cur # 0 THEN WriteSend(wr, l, ctl) /\ UNCHANGED <<some, set, clk>>
      ELSE IF set.cur # 0 THEN SettingsSend(set, l, ctl) /\ UNCHANGED <<some, wr, clk>>
      ELSE IF clk.cur # 0 THEN ClockSend(clk, l, ctl) /\ UNCHANGED <<some, wr, set>>
      ELSE StepOrEnd(1, l, some) /\ UNCHANGED job

\* Any response of the entry being asked counts as the answer to what is
\* outstanding; it may be too short to hold anything.
Response ==
  /\ slot # None /\ slot.type = "response"
  /\ IF From(ctl.cur) /\ ctl.st \in {"login", "req", "telem", "nbr"}
     THEN \/ ctl.st = "login" /\ LoginReply
          \/ \E g \in {some, TRUE} :
               /\ \/ ctl.st = "req" /\ StepOrEnd(2, mon, g)
                  \/ ctl.st = "telem" /\ StepOrEnd(3, mon, g)
                  \/ /\ ctl.st = "nbr" /\ some' = g /\ ctl' = Gap(ctl.cur) /\ NotSent
                     /\ mon' = mon \/ (g /\ mon' = Cleared(mon, ctl.cur))
               /\ UNCHANGED job
     ELSE UNCHANGED <<mon, ctl, some, job, air>>
  /\ UNCHANGED <<round, misfiled>>

Reply ==
  /\ Runs
  /\ Ignored \/ SettingsReply \/ WriteReply \/ ClockReply \/ Response
  /\ slot' = None
  /\ UNCHANGED env

----------------------------------------------------------------------------
(* The states of the machine, each when its deadline has passed            *)

\* Silence after a login: once more by flood if a route was known, then the
\* job that sent it ends, or the turn of this entry.
LoginTimer ==
  /\ ctl.st = "login"
  /\ \/ /\ ctl.retry = 0
        /\ Request(mon, ctl.cur)
        /\ ctl' = [ctl EXCEPT !.retry = 1]
        /\ UNCHANGED <<mon, job>>
     \/ IF wr.cur # 0 THEN WriteFinish(wr, mon) /\ UNCHANGED <<set, clk>>
        ELSE IF set.cur # 0 THEN SettingsFinish(set, mon) /\ UNCHANGED <<wr, clk>>
        ELSE IF clk.cur # 0
        THEN ClockNodeDone([clk EXCEPT !.silent = @ + 1], mon) /\ UNCHANGED <<set, wr>>
        ELSE /\ mon' = Failed(mon, ctl.cur) /\ ctl' = Gap(ctl.cur)
             /\ NotSent /\ UNCHANGED job
  /\ UNCHANGED <<some, round>>

\* A status request is repeated once, by flood; a sensor node never answers it,
\* so the turn goes on.
ReqTimer ==
  /\ ctl.st = "req"
  /\ \/ /\ ctl.retry = 0
        /\ Request(mon, ctl.cur)
        /\ ctl' = [ctl EXCEPT !.retry = 1]
        /\ UNCHANGED <<mon, some>>
     \/ StepOrEnd(2, mon, some)
  /\ UNCHANGED <<round, job>>

TelemTimer ==
  /\ ctl.st = "telem"
  /\ StepOrEnd(3, mon, some)
  /\ UNCHANGED <<round, job>>

\* A turn that brought nothing costs the session as well.
NbrTimer ==
  /\ ctl.st = "nbr"
  /\ \/ some /\ mon' = Cleared(mon, ctl.cur)
     \/ mon' = SetIn(Failed(mon, ctl.cur), ctl.cur, FALSE)
  /\ ctl' = Gap(ctl.cur)
  /\ NotSent
  /\ UNCHANGED <<some, round, job>>

GapTimer ==
  /\ ctl.st = "gap"
  /\ MonitorAdvance(mon, ctl.cur)
  /\ UNCHANGED job

\* The pause is over, or the answer did not come, or the time of the sweep is up.
CliTimer ==
  /\ ctl.st = "cli"
  /\ LET s == [set EXCEPT !.silent = @ + 1]
     IN  IF set.pause THEN SettingsSend([set EXCEPT !.pause = FALSE], mon, ctl)
         ELSE IF s.silent >= SetSilentMax
         THEN SettingsFinish(s, SetIn(mon, set.cur, FALSE)) \/ SettingsFinish(s, mon)
         ELSE SettingsAdvance(s, mon, ctl)
  /\ UNCHANGED <<some, round, wr, clk>>

\* A run that was cleared away under this state leaves the machine to itself.
ClkTimer ==
  /\ ctl.st = "clk"
  /\ LET c == IF clk.step = 0 THEN [clk EXCEPT !.silent = @ + 1] ELSE clk
     IN  IF clk.cur = 0 THEN ctl' = Idle /\ NotSent /\ UNCHANGED <<mon, clk>>
         ELSE \/ ClockFinish(mon)
              \/ ClockNodeDone(c, IF c.step = 0 /\ c.silent >= ClkSilentMax
                                  THEN SetIn(mon, clk.cur, FALSE) ELSE mon)
  /\ UNCHANGED <<some, round, set, wr>>

\* MUTANT: silence after "set" is answered with the same "set" once more.
WsetTimerSetsAgain ==
  /\ ctl.st = "wset"
  /\ IF wr.pause THEN WriteSend([wr EXCEPT !.pause = FALSE], mon, ctl)
     ELSE \/ WriteSend(wr, mon, ctl)
          \/ WriteFinish(wr, SetIn(mon, wr.cur, FALSE)) \/ WriteFinish(wr, mon)
  /\ UNCHANGED <<some, round, set, clk>>

WsetTimer ==
  /\ ctl.st = "wset"
  /\ IF wr.pause THEN WriteSend([wr EXCEPT !.pause = FALSE], mon, ctl)
     ELSE WriteFinish(wr, SetIn(mon, wr.cur, FALSE)) \/ WriteFinish(wr, mon)
  /\ UNCHANGED <<some, round, set, clk>>

\* MUTANT: the place of the entry is taken as it was, its key is not looked up.
WriteBeginAnyPlace ==
  LET w(i) == [NoWrite EXCEPT !.cur = i, !.node = wr.req]
      c(i) == [Idle EXCEPT !.cur = i]
  IN  \/ wr' = [wr EXCEPT !.req = None] /\ NotSent /\ UNCHANGED <<mon, ctl>>
      \/ \E i \in DOMAIN mon :
           /\ Reachable(mon, i)
           /\ IF mon[i].in THEN WriteSend(w(i), mon, c(i))
              ELSE \/ Login(mon, i) /\ wr' = w(i)
                   \/ WriteFinish(w(i), mon)

\* monWriteBegin: the request is taken, or has expired, or its entry is gone.
WriteBegin ==
  LET w(i) == [NoWrite EXCEPT !.cur = i, !.node = wr.req]
      c(i) == [Idle EXCEPT !.cur = i]
  IN  \/ wr' = [wr EXCEPT !.req = None] /\ NotSent /\ UNCHANGED <<mon, ctl>>
      \/ \E i \in Places(mon, wr.req) :
           /\ Reachable(mon, i)
           /\ IF mon[i].in THEN WriteSend(w(i), mon, c(i))
              ELSE \/ Login(mon, i) /\ wr' = w(i)
                   \/ WriteFinish(w(i), mon)

SettingsBegin ==
  LET s(i) == [NoSweep EXCEPT !.cur = i, !.node = set.req]
      c(i) == [Idle EXCEPT !.cur = i]
      open == {i \in Places(mon, set.req) : Reachable(mon, i)}
  IN  IF open = {}
      THEN set' = [set EXCEPT !.req = None] /\ NotSent /\ UNCHANGED <<mon, ctl>>
      ELSE \E i \in open :
             IF mon[i].in THEN SettingsSend(s(i), mon, c(i))
             ELSE \/ Login(mon, i) /\ set' = s(i)
                  \/ SettingsFinish(s(i), mon)

\* A key of which only a prefix was known may have been heard in full since.
RoundStart ==
  \E heard \in SUBSET {i \in DOMAIN mon : ~ mon[i].full} :
    MonitorAdvance(IF heard = {} THEN mon
                   ELSE Synced([i \in DOMAIN mon |->
                                 [mon[i] EXCEPT !.full = @ \/ i \in heard]]), 0)

IdleTimer ==
  /\ ctl.st = "idle"
  /\ IF wr.req # None THEN WriteBegin /\ UNCHANGED <<some, round, set, clk>>
     ELSE IF set.req # None THEN SettingsBegin /\ UNCHANGED <<some, round, wr, clk>>
     ELSE IF clk.run THEN ClockAdvance /\ UNCHANGED <<some, round, set, wr>>
     ELSE RoundStart /\ UNCHANGED job

Timer ==
  /\ Runs /\ slot = None
  /\ \/ IdleTimer \/ LoginTimer \/ ReqTimer \/ TelemTimer \/ NbrTimer
     \/ GapTimer \/ CliTimer \/ ClkTimer \/ WsetTimer
  /\ UNCHANGED <<slot, env, misfiled>>

----------------------------------------------------------------------------
(* Requests, edits of the list, the mesh and the world                     *)

Event == events < MaxEvents /\ events' = events + 1

Asked(n) ==
  /\ Event
  /\ mon # <<>> /\ ~ low
  /\ \E i \in Places(mon, n) : Reachable(mon, i)
  /\ UNCHANGED <<mon, ctl, some, round, clk, slot, air, mqtt, low, misfiled>>

\* A request that still waits is only replaced when it has expired.
SettingsRequest(n) ==
  /\ Asked(n) /\ mqtt /\ set.cur = 0
  /\ set' = [set EXCEPT !.req = n]
  /\ UNCHANGED wr

WriteRequest(n) ==
  /\ Asked(n) /\ wr.cur = 0 /\ set.cur = 0
  /\ wr' = [wr EXCEPT !.req = n]
  /\ UNCHANGED set

\* A run whose time is up is cleared away, whatever the machine is doing.
ClockRequest ==
  /\ Event
  /\ mon # <<>> /\ ~ low /\ mqtt
  /\ clk' = [NoClock EXCEPT !.run = TRUE]
  /\ UNCHANGED <<mon, ctl, some, round, set, wr, slot, air, mqtt, low, misfiled>>

Moved(j) == [j EXCEPT !.moved = @ \/ j.cur # 0]

\* applyMonAction: whatever touches the list rebuilds the table of the mesh side.
Edit(l, touched) ==
  /\ Event
  /\ mon' = IF touched THEN Synced(l) ELSE l
  /\ IF touched THEN set' = Moved(set) /\ wr' = Moved(wr) ELSE UNCHANGED <<set, wr>>
  /\ UNCHANGED <<ctl, some, round, clk, slot, air, mqtt, low, misfiled>>

MonAdd(n, full) ==
  LET known == Places(mon, n)
  IN  Edit(IF known = {} THEN Append(mon, Entry(n, full))
           ELSE [i \in DOMAIN mon |->
                  IF i \in known THEN [mon[i] EXCEPT !.full = @ \/ full] ELSE mon[i]],
           TRUE)

MonDelete(n) ==
  \E i \in Places(mon, n) :
    Edit(SubSeq(mon, 1, i - 1) \o SubSeq(mon, i + 1, Len(mon)), TRUE)

MonPass(n) == \E i \in Places(mon, n) : Edit(SetIn(mon, i, FALSE), FALSE)

MonEnable(n, b) ==
  \E i \in Places(mon, n) : Edit([mon EXCEPT ![i].on = b], FALSE)

\* meshmanager_on_monitor_response: an answer, or an alert nobody asked for,
\* takes the place for an answer when it is free.
Quiet ==
  \/ ctl.st \notin {"cli", "wset", "clk"}
  \/ ctl.st = "cli" /\ set.pause
  \/ ctl.st = "wset" /\ wr.pause

Arrive(n, type, cmd) ==
  /\ slot = None
  /\ \E j \in Places(mon, n) :
       /\ mon[j].full
       /\ slot' = [idx |-> MeshIdx(mon, j), node |-> n, type |-> type, cmd |-> cmd,
                   quiet |-> Quiet]
  /\ UNCHANGED <<mon, ctl, some, round, job, air, mqtt, low, misfiled>>

Answer == (\E m \in air : Arrive(m.node, m.type, m.cmd)) /\ UNCHANGED events
Alert(n) == Event /\ Arrive(n, "text", None)

Switch == UNCHANGED <<mon, ctl, some, round, job, slot, air, misfiled>>
BatteryEmpty == Event /\ ~ low /\ low' = TRUE /\ UNCHANGED mqtt /\ Switch
BatteryFull == low /\ low' = FALSE /\ UNCHANGED <<mqtt, events>> /\ Switch
BrokerOff == Event /\ mqtt /\ mqtt' = FALSE /\ UNCHANGED low /\ Switch
BrokerOn == ~ mqtt /\ mqtt' = TRUE /\ UNCHANGED <<low, events>> /\ Switch

Init ==
  /\ mon = [i \in DOMAIN Start |-> Entry(Start[i], TRUE)]
  /\ ctl = Idle /\ some = FALSE /\ round = 0
  /\ set = NoSweep /\ wr = NoWrite /\ clk = NoClock
  /\ slot = None /\ air = {}
  /\ mqtt = TRUE /\ low = FALSE
  /\ misfiled = {} /\ events = 0

Next ==
  \/ Reply \/ Timer \/ BatteryOut
  \/ \E n \in Nodes : \/ SettingsRequest(n) \/ WriteRequest(n)
                      \/ MonDelete(n) \/ MonPass(n) \/ Alert(n)
                      \/ \E b \in BOOLEAN : MonAdd(n, b) \/ MonEnable(n, b)
  \/ ClockRequest \/ Answer
  \/ BatteryEmpty \/ BatteryFull \/ BrokerOff \/ BrokerOn

Spec == Init /\ [][Next]_vars /\ WF_vars(Reply) /\ SF_vars(Timer) /\ WF_vars(BatteryOut)

----------------------------------------------------------------------------
(* Properties *)

\* What GET /api/moncfg says of the last write, in the order of growing
\* certainty: from "nothing left" to "it was read back".
Verdict ==
  IF wr.node = None \/ wr.cur # 0 THEN "bezig"
  ELSE IF ~ wr.sent THEN "niet_verstuurd"
  ELSE IF wr.said = "no" THEN "geen_antwoord"
  ELSE IF wr.said = "err" THEN "node"
  ELSE IF ~ wr.read THEN "geen_teruglezing" ELSE "ok"

\* The type invariant; the counters of silence and failure stay below their
\* limits and the sweep never asks for a parameter past the last.
MonTypeOK ==
  /\ mon \in Seq([node : Nodes, full : BOOLEAN, on : BOOLEAN, in : BOOLEAN,
                  fails : 0..BackoffAfter])
  /\ ctl \in [st : States, cur : Nat, retry : 0..1]
  /\ some \in BOOLEAN /\ round \in 0..(BackoffEvery - 1)
  /\ set \in [req : Nodes \cup {None}, cur : Nat, next : 1..ParamCount,
              pause : BOOLEAN, silent : 0..SetSilentMax, node : Nodes \cup {None},
              moved : BOOLEAN]
  /\ wr \in [req : Nodes \cup {None}, cur : Nat, step : 0..1, pause : BOOLEAN,
             node : Nodes \cup {None}, sent : BOOLEAN, said : {"no", "ok", "err"},
             read : BOOLEAN, hit : Seq(Nodes), moved : BOOLEAN]
  /\ clk \in [run : BOOLEAN, cur : Nat, next : Nat \ {0}, step : 0..1, silent : Nat]
  /\ misfiled \subseteq {"quiet", "node", "command"}

\* The state that waits for text belongs to the job that sent the command, and
\* a write that runs has the machine to itself: no sweep beside it, and only
\* its own login or its own answer is waited for.
OneOwner ==
  /\ ctl.st \notin {"idle", "gap"} => ctl.cur # 0
  /\ ctl.st = "cli" => set.cur # 0
  /\ ctl.st = "wset" => wr.cur # 0
  /\ wr.cur # 0 => /\ set.cur = 0 /\ ctl.cur = wr.cur
                   /\ ctl.st \in {"login", "wset"}

\* "Nothing in the protocol lets us match an answer to the command that caused
\* it."  Still a sweep or a write books only what came while it waited, not in the
\* pause between two commands, and from the node it asks (but for a list that
\* moved meanwhile); and an answer that comes before the next command has left,
\* however late and often, only under the command it answers: the answer to "set"
\* is never the value read back, nor one value filed under the next parameter.
\* It does not hold of an answer so late that the next command has left, nor of a
\* text nobody asked for that comes in that time: the code books those as well.
AnswersFiledRight == misfiled = {}

\* As long as the list stays as it is, "set" only goes to the node it was asked
\* for, whatever was cancelled, replaced or expired before.
SetOnlyToAsked == wr.moved \/ \A i \in DOMAIN wr.hit : wr.hit[i] = wr.node

\* The verdict "niet_verstuurd", on which the server may offer the write again,
\* is only given when no command reached the air.
NotSentNotChanged == Verdict = "niet_verstuurd" => wr.hit = <<>>

\* The comment at _mwr_hash: an index that points at another repeater is the
\* one error a write may not have.  A list that is edited while the login is
\* under way makes it.
OnlyTheNodeAsked == \A i \in DOMAIN wr.hit : wr.hit[i] = wr.node

\* How far the write is, in the terms of MonWrite.
Stage ==
  IF wr.cur = 0 THEN "rest"
  ELSE IF ctl.st = "login" THEN "login"
  ELSE IF wr.step = 0 THEN "set"
  ELSE IF wr.pause THEN "pause" ELSE "get"

Write == INSTANCE MonWrite WITH
  waiting <- wr.req # None, stage <- Stage, sets <- Len(wr.hit),
  said <- wr.said, read <- wr.read

\* Whatever the other jobs, the list, the battery and the mesh do, a write is
\* a write of MonWrite: one "set" at most, and what it said is kept.
ImplementsWrite == Write!Spec

\* No job, no lost answer and no empty battery keeps the machine from its idle
\* state for good, where the next job is chosen: only an emptied list does, or
\* no broker or an empty battery while no write is under way.
BackToIdle == []<>(ctl.st = "idle" \/ (~ Runs /\ wr.cur = 0) \/ mon = <<>>)
============================================================================
