----------------------------- MODULE WriteMesh -----------------------------
(***************************************************************************)
(* A write to a node that is only reached over LoRa                        *)
(* (nodeconfig._write_mesh): a request to the monitor of that node, which  *)
(* is all of MonWrite as far as this side can tell (MonRadio implements    *)
(* it), and then looking every two seconds at what it says of its running  *)
(* or last write.                                                          *)
(*                                                                         *)
(* Two times of the code are kept as an order: a thread has given up after *)
(* 40 s and one request (MESH_WAIT_S, CFG_TIMEOUT_S), before the monitor   *)
(* takes a next write 60 s after the last one (MON_WSET_MIN_GAP_MS).       *)
(***************************************************************************)
EXTENDS WriteThread

VARIABLES
  req,                      \* _mwr_req_*: the write that waits for its turn
  stage, sets, said, read,  \* of the running or last write, as in MonWrite
  seq,                      \* _mwr_seq
  job,                      \* the running or last write
  fate,                     \* what became of its "set": lost, taken, refused
  gap,                      \* less than 60 s since the last write ended
  begun                     \* ghost: writes begun since the monitor started

wrVars == <<stage, sets, said, read>>
meshVars == <<req, wrVars, seq, job, fate, gap, begun>>

Monitor == INSTANCE MonWrite WITH waiting <- (req # None)

MeshInit ==
  /\ req = None /\ stage = "rest" /\ sets = 0 /\ said = "no" /\ read = FALSE
  /\ seq = 0 /\ job = None /\ fate = "lost" /\ gap = FALSE
  /\ begun = {}

\* MUTANT: the 60 s are not waited for.
TakesWrite_NoGap == stage = "rest" /\ req = None
\* monWriteRequest: nothing runs, nothing waits, and the last one is 60 s ago.
TakesWrite == stage = "rest" /\ req = None /\ ~ gap

\* handleMonCfgPost takes it, and the answer may not arrive; or it refuses,
\* also for a reason of its own (a sweep, the battery, the list); or it is away.
MeshPost(w) ==
  \/ /\ TakesWrite /\ pc[w] = "begin"
     /\ req' = w /\ Monitor!Ask
     /\ Goes(w, "begin", "wait") \/ Tells(w, FALSE, "verbinding", None)
     /\ UNCHANGED <<seq, job, fate, gap, begun>>
  \/ /\ pc[w] = "begin"
     /\ \E step \in {"monitor", "verbinding"} : Tells(w, FALSE, step, None)
     /\ UNCHANGED meshVars

----------------------------------------------------------------------------
(* The monitor *)

Executes(w) ==
  \/ fate' = "taken" /\ Runs(w)
  \/ fate' \in {"lost", "refused"} /\ UNCHANGED ran
GapStarts == gap' = (gap \/ stage' = "rest")

\* monWriteBegin: the machine is free for the request that waits.
MonBegin ==
  /\ req # None /\ req' = None
  /\ Monitor!Begin
  /\ job' = req /\ seq' = seq + 1 /\ begun' = begun \cup {req}
  /\ IF sets' = 1 THEN Executes(req) ELSE fate' = "lost" /\ UNCHANGED ran
  /\ GapStarts
  /\ UNCHANGED <<key, pc, out, cli>>

\* MUTANT: silence is answered by sending the same command again.
MonSet_Again ==
  /\ stage \in {"login", "set"} /\ stage' = "set" /\ sets' = sets + 1
  /\ Executes(job)
  /\ UNCHANGED <<key, pc, out, cli, req, said, read, seq, job, gap, begun>>
\* monWriteSend after the login.
MonSet ==
  /\ UNCHANGED req /\ Monitor!SetLeaves
  /\ Executes(job)
  /\ UNCHANGED <<key, pc, out, cli, seq, job, gap, begun>>

\* Only what was executed or refused is answered.
MonAnswer ==
  /\ fate # "lost" /\ UNCHANGED req /\ Monitor!SetAnswered
  /\ said' = IF fate = "taken" THEN "ok" ELSE "err"
  /\ UNCHANGED <<tvars, seq, job, fate, gap, begun>>

MonGet ==
  /\ UNCHANGED req /\ Monitor!GetLeaves
  /\ UNCHANGED <<tvars, seq, job, fate, gap, begun>>

MonEnds ==
  /\ UNCHANGED req
  /\ Monitor!ReadBack \/ Monitor!GiveUp
  /\ GapStarts
  /\ UNCHANGED <<tvars, seq, job, fate, begun>>

\* The list changed while the request waited, or it waited for 90 s.
MonDrops ==
  /\ req # None
  /\ req' = None /\ Monitor!Expire
  /\ UNCHANGED <<tvars, seq, job, fate, gap, begun>>

GapOver ==
  /\ gap /\ \A w \in Writes : pc[w] # "wait"
  /\ gap' = FALSE
  /\ UNCHANGED <<tvars, req, wrVars, seq, job, fate, begun>>

MonRestart ==
  /\ req' = None /\ stage' = "rest" /\ sets' = 0 /\ said' = "no" /\ read' = FALSE
  /\ seq' = 0 /\ job' = None /\ fate' = "lost" /\ gap' = FALSE
  /\ begun' = {}
  /\ UNCHANGED tvars

----------------------------------------------------------------------------
(* handleMonCfgGet, and what the thread makes of it *)

Busy == stage # "rest"
MonStep ==
  IF seq = 0 THEN ""
  ELSE IF sets = 0 THEN "niet_verstuurd"
  ELSE IF said = "no" THEN "geen_antwoord"
  ELSE IF said = "err" THEN "node"
  ELSE IF ~ read THEN "geen_teruglezing" ELSE ""
MonOk == seq # 0 /\ read /\ said # "err"

\* The first look at which the monitor is not busy decides, whosever write the
\* monitor then tells of.
MeshSees(w) ==
  /\ pc[w] = "wait"
  /\ \/ ~ Busy /\ Tells(w, MonOk, MonStep, job)
     \/ Busy /\ Tells(w, FALSE, "bezig", None)
     \/ Tells(w, FALSE, "verbinding", None)
  /\ UNCHANGED meshVars

MeshThread(w) == MeshPost(w) \/ MeshSees(w)
MonitorStep ==
  MonBegin \/ MonSet \/ MonAnswer \/ MonGet \/ MonEnds \/ MonDrops \/ GapOver
============================================================================
