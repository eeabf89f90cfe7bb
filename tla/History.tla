------------------------------ MODULE History ------------------------------
(***************************************************************************)
(* Where the measurements of the server go.  db.ingest commits a snapshot  *)
(* to SQLite under the lock of the database and then, outside it, hands    *)
(* every value to tsdb.record: into a bounded queue when there is a time-  *)
(* series database (VictoriaMetrics), into the table samples when there is *)
(* none or the queue is full.  One thread (tsdb._run) collects from the    *)
(* queue and posts batches; what it cannot post, it spills to samples.     *)
(*                                                                         *)
(* A reading is a number, in the order of the commits; what the properties *)
(* tell apart is its key: the series and the second it was measured in.    *)
(***************************************************************************)
EXTENDS Naturals, Sequences, SequencesExt

CONSTANTS
  Series,        \* the metrics of the nodes
  Nameless,      \* those of which safe_metric leaves nothing
  Times,         \* the seconds a snapshot may bear: its own clock or ours
  NoKey,         \* of a reading that is still to come
  MaxReadings,   \* bound: the readings that come in
  QueueMax,      \* QUEUE_MAX_POINTS
  BatchMax,      \* MAX_BATCH_POINTS
  Attempts,      \* WRITE_ATTEMPTS
  MaxRestarts    \* bound: restarts of the site

ASSUME HistoryAssumption ==
  /\ Nameless \subseteq Series /\ NoKey \notin Series \X Times
  /\ MaxReadings \in Nat /\ MaxRestarts \in Nat
  /\ QueueMax \in Nat /\ BatchMax \in Nat \ {0} /\ Attempts \in Nat \ {0}

VARIABLES
  url,        \* MM_TSDB_URL is set
  key,        \* of the readings so far: <<series, second>>
  handing,    \* committed by an ingest that has yet to hand them to record
  queue,      \* _q
  pending,    \* what the writer thread has collected
  batch,      \* what it is posting
  tries,      \* the attempt it is at, 0 when it collects
  vm,         \* readings in VictoriaMetrics
  samples,    \* its primary key, less the value: the rows of SQLite
  refused,    \* ghost: spilled, and SQLite refused
  skipped,    \* ghost: without a name, left out of a batch that was taken
  crashed,    \* ghost: in memory when the process ended
  restarts

vars == <<url, key, handing, queue, pending, batch, tries, vm, samples,
          refused, skipped, crashed, restarts>>

Readings == 1..MaxReadings
Taken == {r \in Readings : key[r] # NoKey}
InMemory == handing \cup ToSet(queue) \cup ToSet(pending) \cup ToSet(batch)
Named(s) == {r \in ToSet(s) : key[r][1] \notin Nameless}

Init ==
  /\ url \in BOOLEAN /\ key = [r \in Readings |-> NoKey]
  /\ handing = {} /\ queue = <<>> /\ pending = <<>> /\ batch = <<>> /\ tries = 0
  /\ vm = {} /\ samples = {}
  /\ refused = {} /\ skipped = {} /\ crashed = {}
  /\ restarts = 0

----------------------------------------------------------------------------
(* SQLite *)

Rows(R, k) == {k[r] : r \in R}

\* _spill_one and _spill_batch: one transaction, whose failure is only logged.
Spill(s) ==
  \/ samples' = samples \cup Rows(ToSet(s), key) /\ UNCHANGED refused
  \/ refused' = refused \cup ToSet(s) /\ UNCHANGED samples

----------------------------------------------------------------------------
(* The threads that ingest: the broker's and those of the web server *)

\* ingest up to its commit: one value of each series the snapshot names.  With
\* no time-series database a value that changed, or whose last row is older
\* than the heartbeat, gets its row here; which of them do is left open.
Ingest(t) ==
  /\ \E last \in Readings :
       LET new == (1..last) \ Taken
       IN  /\ new # {} /\ handing' = handing \cup new
           /\ \E name \in Injection(new, Series) :
                key' = [r \in Readings |-> IF r \in new THEN <<name[r], t>> ELSE key[r]]
           /\ IF url THEN UNCHANGED samples
                     ELSE \E due \in SUBSET new : samples' = samples \cup Rows(due, key')
  /\ UNCHANGED <<url, queue, pending, batch, tries, vm, refused, skipped, crashed, restarts>>

\* MUTANT: a full queue drops the point.
Record_Drops(r) ==
  /\ r \in handing /\ handing' = handing \ {r}
  /\ \/ /\ url
        /\ queue' = IF Len(queue) < QueueMax THEN Append(queue, r) ELSE queue
        /\ UNCHANGED <<samples, refused>>
     \/ ~ url /\ Spill(<<r>>) /\ UNCHANGED queue
  /\ UNCHANGED <<url, key, pending, batch, tries, vm, skipped, crashed, restarts>>

\* record, one point: it never waits.  With no time-series database it spills
\* every point, those that ingest left out as well.
Record(r) ==
  /\ r \in handing /\ handing' = handing \ {r}
  /\ \/ /\ url /\ Len(queue) < QueueMax
        /\ queue' = Append(queue, r)
        /\ UNCHANGED <<samples, refused>>
     \/ /\ ~ url \/ Len(queue) >= QueueMax
        /\ Spill(<<r>>) /\ UNCHANGED queue
  /\ UNCHANGED <<url, key, pending, batch, tries, vm, skipped, crashed, restarts>>

----------------------------------------------------------------------------
(* The writer thread *)

Collect ==
  /\ tries = 0 /\ queue # <<>> /\ Len(pending) < BatchMax
  /\ pending' = Append(pending, Head(queue)) /\ queue' = Tail(queue)
  /\ UNCHANGED <<url, key, handing, batch, tries, vm, samples, refused, skipped, crashed, restarts>>

\* MUTANT: the interval is forgotten.
FlushBegins_WhenFull ==
  /\ tries = 0 /\ Len(pending) = BatchMax /\ pending' = <<>>
  /\ batch' = pending /\ tries' = 1
  /\ UNCHANGED <<url, key, handing, queue, vm, samples, refused, skipped, crashed, restarts>>

\* The batch is full or FLUSH_INTERVAL_S went by.  A batch without a name in it
\* is not posted.
FlushBegins ==
  /\ tries = 0 /\ pending # <<>> /\ pending' = <<>>
  /\ \/ /\ Named(pending) # {}
        /\ batch' = pending /\ tries' = 1
        /\ UNCHANGED skipped
     \/ /\ Named(pending) = {}
        /\ skipped' = skipped \cup ToSet(pending)
        /\ UNCHANGED <<batch, tries>>
  /\ UNCHANGED <<url, key, handing, queue, vm, samples, refused, crashed, restarts>>

PostTaken ==
  /\ tries > 0 /\ tries' = 0 /\ batch' = <<>>
  /\ vm' = vm \cup Named(batch)
  /\ skipped' = skipped \cup (ToSet(batch) \ Named(batch))
  /\ UNCHANGED <<url, key, handing, queue, pending, samples, refused, crashed, restarts>>

\* Refused, away, or taken by a database whose answer came too late.
PostFails ==
  /\ tries > 0
  /\ vm' \in {vm, vm \cup Named(batch)}
  /\ \/ /\ tries < Attempts /\ tries' = tries + 1
        /\ UNCHANGED <<batch, samples, refused>>
     \/ /\ tries >= Attempts /\ tries' = 0 /\ batch' = <<>>
        /\ Spill(batch)
  /\ UNCHANGED <<url, key, handing, queue, pending, skipped, crashed, restarts>>

Writer == Collect \/ FlushBegins \/ PostTaken \/ PostFails

----------------------------------------------------------------------------
\* The process ends; it may be started with another MM_TSDB_URL.
Restart ==
  /\ restarts < MaxRestarts /\ restarts' = restarts + 1
  /\ crashed' = crashed \cup InMemory
  /\ handing' = {} /\ queue' = <<>> /\ pending' = <<>> /\ batch' = <<>> /\ tries' = 0
  /\ url' \in BOOLEAN
  /\ UNCHANGED <<key, vm, samples, refused, skipped>>

Next ==
  \/ \E t \in Times : Ingest(t)
  \/ \E r \in Readings : Record(r)
  \/ Writer
  \/ Restart

\* Neither the threads that ingest nor the writer wait for anything but time.
Spec ==
  /\ Init /\ [][Next]_vars
  /\ \A r \in Readings : WF_vars(Record(r))
  /\ WF_vars(Writer)

----------------------------------------------------------------------------
(* Properties *)

\* Type invariant: what is kept is made of readings that came in.
HistTypeOK ==
  /\ url \in BOOLEAN /\ key \in [Readings -> (Series \X Times) \cup {NoKey}]
  /\ handing \subseteq Taken
  /\ {queue, pending, batch} \subseteq Seq(Taken)
  /\ tries \in 0..Attempts /\ Len(queue) <= QueueMax
  /\ vm \cup refused \cup skipped \cup crashed \subseteq Taken
  /\ samples \subseteq Series \X Times
  /\ restarts \in Nat

\* VictoriaMetrics took it, or there is a row for its second.
Stored == {r \in Taken : r \in vm \/ key[r] \in samples}

\* "A database that is away may not lose measurements" (tsdb.py:45): through a
\* full queue, batches that are refused, taken without an answer or tried
\* again, and rows that replace one another, only SQLite's refusal, the end of
\* the process and a metric without a name cost a reading.
NothingUnstored ==
  Taken \ (refused \cup skipped \cup crashed) \subseteq InMemory \cup Stored

\* Only what is in neither store counts as waiting: every reading leaves the
\* memory of the process.
EveryPointStored ==
  \A r \in Readings : r \in Taken ~> r \in Stored \cup refused \cup skipped \cup crashed
============================================================================
