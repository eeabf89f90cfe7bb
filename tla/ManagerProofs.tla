---------------------------- MODULE ManagerProofs ----------------------------
(***************************************************************************)
(* History, for any number of readings, places in the queue, batches,      *)
(* attempts and restarts: the type invariant, and that only the end of the *)
(* process, SQLite's refusal and a metric without a name cost a reading.   *)
(*                                                                         *)
(* Falls, for any number of falls, pushes, seconds, exceptions and         *)
(* restarts: no fall of a right clock is passed over without an alarm, and *)
(* only tasks that are mixed up alarm twice for one.                       *)
(***************************************************************************)
EXTENDS History, Falls, SequenceTheorems, TLAPS

----------------------------------------------------------------------------
(* Sequences of readings *)

LEMMA SetOfSeq ==
  ASSUME NEW S, NEW s \in Seq(S)
  PROVE  ToSet(s) \subseteq S /\ ToSet(s) = {s[i] : i \in 1..Len(s)}
BY DEF ToSet

LEMMA SetOfEmpty == ToSet(<<>>) = {}
BY DEF ToSet

LEMMA SetOfAppend ==
  ASSUME NEW S, NEW s \in Seq(S), NEW e \in S
  PROVE  Append(s, e) \in Seq(S) /\ ToSet(Append(s, e)) = ToSet(s) \cup {e}
<1>1. /\ Append(s, e) \in Seq(S) /\ Len(Append(s, e)) = Len(s) + 1
      /\ \A i \in 1..Len(s) : Append(s, e)[i] = s[i]
      /\ Append(s, e)[Len(s) + 1] = e
  OBVIOUS
<1>2. 1..(Len(s) + 1) = (1..Len(s)) \cup {Len(s) + 1} /\ Len(s) \in Nat
  OBVIOUS
<1>3. ToSet(Append(s, e)) = {Append(s, e)[i] : i \in 1..(Len(s) + 1)}
  BY <1>1, SetOfSeq
<1>4. {Append(s, e)[i] : i \in 1..(Len(s) + 1)} = {s[i] : i \in 1..Len(s)} \cup {e}
  BY <1>1, <1>2
<1> QED
  BY <1>1, <1>3, <1>4, SetOfSeq

LEMMA SetOfTail ==
  ASSUME NEW S, NEW s \in Seq(S), s # <<>>
  PROVE  /\ Head(s) \in S /\ Tail(s) \in Seq(S) /\ Len(Tail(s)) = Len(s) - 1
         /\ ToSet(s) = ToSet(Tail(s)) \cup {Head(s)}
<1>1. /\ Head(s) = s[1] /\ Tail(s) \in Seq(S) /\ Len(Tail(s)) = Len(s) - 1
      /\ Len(s) \in Nat \ {0}
      /\ \A i \in 1..(Len(s) - 1) : Tail(s)[i] = s[i + 1]
  OBVIOUS
<1>a. /\ ToSet(s) = {s[i] : i \in 1..Len(s)}
      /\ ToSet(Tail(s)) = {Tail(s)[i] : i \in 1..(Len(s) - 1)}
  BY <1>1, SetOfSeq
<1>2. ToSet(s) \subseteq ToSet(Tail(s)) \cup {Head(s)}
  <2> SUFFICES ASSUME NEW i \in 1..Len(s), i # 1
               PROVE  \E j \in 1..(Len(s) - 1) : Tail(s)[j] = s[i]
    BY <1>1, <1>a
  <2>1. i - 1 \in 1..(Len(s) - 1) /\ (i - 1) + 1 = i
    BY <1>1
  <2> QED
    BY <1>1, <2>1
<1>3. ToSet(Tail(s)) \cup {Head(s)} \subseteq ToSet(s)
  <2>1. \A i \in 1..(Len(s) - 1) : i + 1 \in 1..Len(s)
    BY <1>1
  <2> QED
    BY <1>1, <1>a, <2>1
<1> QED
  BY <1>1, <1>2, <1>3

----------------------------------------------------------------------------
(* Types *)

HistInv ==
  /\ url \in BOOLEAN /\ key \in [Readings -> (Series \X Times) \cup {NoKey}]
  /\ handing \subseteq Taken
  /\ queue \in Seq(Taken) /\ pending \in Seq(Taken) /\ batch \in Seq(Taken)
  /\ tries \in 0..Attempts /\ Len(queue) <= QueueMax
  /\ vm \subseteq Taken /\ refused \subseteq Taken
  /\ skipped \subseteq Taken /\ crashed \subseteq Taken
  /\ samples \subseteq Series \X Times
  /\ restarts \in Nat
  /\ tries = 0 => batch = <<>>
  /\ NothingUnstored

LEMMA HistInit == Init => HistInv
<1> SUFFICES ASSUME Init PROVE HistInv
  OBVIOUS
<1>1. Taken = {}
  BY DEF Init, Taken
<1>2. <<>> \in Seq(Taken) /\ Len(<<>>) = 0
  OBVIOUS
<1> QED
  BY <1>1, <1>2, HistoryAssumption DEF Init, HistInv, NothingUnstored

LEMMA MoreSeq ==
  ASSUME NEW S, NEW T, S \subseteq T, NEW s \in Seq(S)
  PROVE  s \in Seq(T)
OBVIOUS

LEMMA SpillStores ==
  ASSUME key \in [Readings -> (Series \X Times) \cup {NoKey}], NEW s \in Seq(Taken),
         samples \subseteq Series \X Times, refused \subseteq Taken,
         Spill(s), key' = key
  PROVE  /\ samples' \subseteq Series \X Times /\ refused' \subseteq Taken
         /\ samples \subseteq samples' /\ refused \subseteq refused'
         /\ \A r \in ToSet(s) : key[r] \in samples' \/ r \in refused'
<1>1. ToSet(s) \subseteq Taken
  BY SetOfSeq
<1>2. \A r \in Taken : key[r] \in Series \X Times
  BY DEF Taken
<1>3. Rows(ToSet(s), key) \subseteq Series \X Times /\ \A r \in ToSet(s) : key[r] \in Rows(ToSet(s), key)
  BY <1>1, <1>2 DEF Rows
<1> QED
  BY <1>1, <1>3 DEF Spill

LEMMA IngestKeeps ==
  ASSUME HistInv, NEW t \in Times, Ingest(t)
  PROVE  HistInv'
<1>1. PICK top \in Readings :
        LET new == (1..top) \ Taken
        IN  /\ new # {} /\ handing' = handing \cup new
            /\ \E name \in Injection(new, Series) :
                 key' = [r \in Readings |-> IF r \in new THEN <<name[r], t>> ELSE key[r]]
            /\ IF url THEN UNCHANGED samples
                      ELSE \E due \in SUBSET new : samples' = samples \cup Rows(due, key')
  BY Zenon DEF Ingest
<1> DEFINE new == (1..top) \ Taken
<1>2. PICK name \in [new -> Series] :
        key' = [r \in Readings |-> IF r \in new THEN <<name[r], t>> ELSE key[r]]
  BY <1>1 DEF Injection
<1>3. new \subseteq Readings /\ new \cap Taken = {}
  BY HistoryAssumption DEF Readings
<1> HIDE DEF new
<1>4. \A r \in new : key'[r] \in Series \X Times
  BY <1>2, <1>3
<1>5. \A r \in Readings \ new : key'[r] = key[r]
  BY <1>2
<1>6. /\ key' \in [Readings -> (Series \X Times) \cup {NoKey}]
      /\ Taken \subseteq Readings /\ Taken' = Taken \cup new
  <2>1. key' \in [Readings -> (Series \X Times) \cup {NoKey}]
    BY <1>2, <1>4, <1>5 DEF HistInv
  <2>2. \A r \in new : key'[r] # NoKey
    BY <1>4, HistoryAssumption
  <2> QED
    BY <2>1, <2>2, <1>3, <1>5 DEF Taken
<1>7. samples \subseteq samples' /\ samples' \subseteq Series \X Times
  <2>1. CASE url
    BY <1>1, <2>1 DEF HistInv
  <2>2. CASE ~ url
    <3>1. PICK due \in SUBSET new : samples' = samples \cup Rows(due, key')
      BY <1>1, <2>2 DEF new
    <3>2. Rows(due, key') \subseteq Series \X Times
      BY <1>4 DEF Rows
    <3> QED
      BY <3>1, <3>2 DEF HistInv
  <2> QED
    BY <2>1, <2>2
<1>8. handing' = handing \cup new
  BY <1>1 DEF new
<1>9. /\ UNCHANGED <<url, queue, pending, batch, tries, vm, refused, skipped, crashed, restarts>>
  BY DEF Ingest
<1>10. queue' \in Seq(Taken') /\ pending' \in Seq(Taken') /\ batch' \in Seq(Taken')
  BY <1>6, <1>9, MoreSeq DEF HistInv
<1>11. NothingUnstored'
  <2>1. InMemory' = InMemory \cup new
    BY <1>8, <1>9 DEF InMemory, ToSet
  <2>2. Stored \subseteq Stored'
    BY <1>3, <1>5, <1>6, <1>7, <1>9 DEF Stored
  <2> QED
    BY <2>1, <2>2, <1>6, <1>9 DEF HistInv, NothingUnstored
<1> QED
  BY <1>6, <1>7, <1>8, <1>9, <1>10, <1>11 DEF HistInv

----------------------------------------------------------------------------
(* What the other steps have in common: no key changes, and what leaves the *)
(* memory is stored or accounted for.                                       *)

LEMMA OthersKeep ==
  ASSUME HistInv, key' = key, url' \in BOOLEAN, restarts' \in Nat,
         handing' \subseteq Taken, queue' \in Seq(Taken), pending' \in Seq(Taken),
         batch' \in Seq(Taken), tries' \in 0..Attempts, Len(queue') <= QueueMax,
         tries' = 0 => batch' = <<>>,
         vm \subseteq vm', vm' \subseteq Taken, samples \subseteq samples',
         samples' \subseteq Series \X Times,
         refused \subseteq refused', refused' \subseteq Taken,
         skipped \subseteq skipped', skipped' \subseteq Taken,
         crashed \subseteq crashed', crashed' \subseteq Taken,
         \A r \in InMemory : r \in InMemory' \cup vm' \cup refused' \cup skipped' \cup crashed'
                              \/ key[r] \in samples'
  PROVE  HistInv'
<1>1. Taken' = Taken
  BY DEF Taken
<1>2. Stored \subseteq Stored' /\ \A r \in Taken : r \in vm' \/ key[r] \in samples' => r \in Stored'
  BY <1>1 DEF Stored
<1>3. NothingUnstored'
  BY <1>1, <1>2 DEF NothingUnstored, HistInv
<1> QED
  BY <1>1, <1>3 DEF HistInv

LEMMA MemoryTaken ==
  ASSUME HistInv
  PROVE  /\ InMemory \subseteq Taken
         /\ ToSet(queue) \subseteq Taken /\ ToSet(pending) \subseteq Taken
         /\ ToSet(batch) \subseteq Taken
BY SetOfSeq DEF HistInv, InMemory

LEMMA RecordKeeps ==
  ASSUME HistInv, NEW r \in Readings, Record(r)
  PROVE  HistInv'
<1>1. r \in Taken /\ UNCHANGED <<url, key, pending, batch, tries, vm, skipped, crashed, restarts>>
      /\ handing' = handing \ {r}
  BY DEF HistInv, Record
<1>2. CASE Len(queue) < QueueMax /\ queue' = Append(queue, r) /\ UNCHANGED <<samples, refused>>
  <2>1. queue' \in Seq(Taken) /\ ToSet(queue') = ToSet(queue) \cup {r}
    BY <1>1, <1>2, SetOfAppend DEF HistInv
  <2>2. Len(queue') <= QueueMax
    BY <1>1, <1>2, HistoryAssumption DEF HistInv
  <2>3. InMemory' = InMemory
    BY <1>1, <2>1 DEF InMemory, Record
  <2> QED
    BY <1>1, <1>2, <2>1, <2>2, <2>3, OthersKeep DEF HistInv
<1>3. CASE Spill(<<r>>) /\ UNCHANGED queue
  <2>1. <<r>> \in Seq(Taken) /\ r \in ToSet(<<r>>)
    BY <1>1 DEF ToSet
  <2>2. /\ samples' \subseteq Series \X Times /\ refused' \subseteq Taken
        /\ samples \subseteq samples' /\ refused \subseteq refused'
        /\ key[r] \in samples' \/ r \in refused'
    BY <1>1, <1>3, <2>1, SpillStores DEF HistInv
  <2>3. InMemory \subseteq InMemory' \cup {r}
    BY <1>1, <1>3 DEF InMemory
  <2> QED
    BY <1>1, <1>3, <2>2, <2>3, OthersKeep DEF HistInv
<1> QED
  BY <1>2, <1>3 DEF Record

LEMMA CollectKeeps ==
  ASSUME HistInv, Collect
  PROVE  HistInv'
<1>1. /\ queue \in Seq(Taken) /\ queue # <<>> /\ pending \in Seq(Taken)
      /\ queue' = Tail(queue) /\ pending' = Append(pending, Head(queue))
      /\ UNCHANGED <<url, key, handing, batch, tries, vm, samples, refused, skipped, crashed, restarts>>
  BY DEF HistInv, Collect
<1>2. /\ Head(queue) \in Taken /\ queue' \in Seq(Taken) /\ Len(queue') = Len(queue) - 1
      /\ ToSet(queue) = ToSet(queue') \cup {Head(queue)}
  BY <1>1, SetOfTail
<1>3. pending' \in Seq(Taken) /\ ToSet(pending') = ToSet(pending) \cup {Head(queue)}
  BY <1>1, <1>2, SetOfAppend
<1>4. InMemory' = InMemory
  BY <1>1, <1>2, <1>3 DEF InMemory
<1>5. Len(queue') <= QueueMax
  BY <1>1, <1>2, HistoryAssumption DEF HistInv
<1> QED
  BY <1>1, <1>2, <1>3, <1>4, <1>5, OthersKeep DEF HistInv

LEMMA FlushKeeps ==
  ASSUME HistInv, FlushBegins
  PROVE  HistInv'
<1>1. /\ tries = 0 /\ batch = <<>> /\ pending' = <<>>
      /\ UNCHANGED <<url, key, handing, queue, vm, samples, refused, crashed, restarts>>
  BY DEF HistInv, FlushBegins
<1>2. <<>> \in Seq(Taken) /\ ToSet(<<>>) = {}
  BY SetOfEmpty
<1>3. CASE batch' = pending /\ tries' = 1 /\ UNCHANGED skipped
  <2>1. InMemory' = InMemory
    BY <1>1, <1>2, <1>3 DEF InMemory
  <2>2. tries' \in 0..Attempts /\ tries' # 0
    BY <1>3, HistoryAssumption
  <2> QED
    BY <1>1, <1>2, <1>3, <2>1, <2>2, OthersKeep DEF HistInv
<1>4. CASE skipped' = skipped \cup ToSet(pending) /\ UNCHANGED <<batch, tries>>
  <2>1. InMemory \subseteq InMemory' \cup skipped'
    BY <1>1, <1>2, <1>4 DEF InMemory
  <2>2. skipped' \subseteq Taken
    BY <1>4, MemoryTaken DEF HistInv
  <2> QED
    BY <1>1, <1>2, <1>4, <2>1, <2>2, OthersKeep DEF HistInv
<1> QED
  BY <1>3, <1>4 DEF FlushBegins

LEMMA NamedPart == \A s : Named(s) \subseteq ToSet(s)
BY DEF Named

LEMMA PostTakenKeeps ==
  ASSUME HistInv, PostTaken
  PROVE  HistInv'
<1>1. /\ tries' = 0 /\ batch' = <<>> /\ vm' = vm \cup Named(batch)
      /\ skipped' = skipped \cup (ToSet(batch) \ Named(batch))
      /\ UNCHANGED <<url, key, handing, queue, pending, samples, refused, crashed, restarts>>
  BY DEF PostTaken
<1>2. <<>> \in Seq(Taken) /\ ToSet(<<>>) = {}
  BY SetOfEmpty
<1>3. vm' \subseteq Taken /\ skipped' \subseteq Taken
  BY <1>1, MemoryTaken, NamedPart DEF HistInv
<1>4. InMemory \subseteq InMemory' \cup vm' \cup skipped'
  BY <1>1, <1>2 DEF InMemory
<1>5. tries' \in 0..Attempts
  BY <1>1, HistoryAssumption
<1> QED
  BY <1>1, <1>2, <1>3, <1>4, <1>5, OthersKeep DEF HistInv

LEMMA PostFailsKeeps ==
  ASSUME HistInv, PostFails
  PROVE  HistInv'
<1>1. /\ tries > 0 /\ vm' \in {vm, vm \cup Named(batch)}
      /\ UNCHANGED <<url, key, handing, queue, pending, skipped, crashed, restarts>>
  BY DEF PostFails
<1>2. vm \subseteq vm' /\ vm' \subseteq Taken
  BY <1>1, MemoryTaken, NamedPart DEF HistInv
<1>3. CASE tries < Attempts /\ tries' = tries + 1 /\ UNCHANGED <<batch, samples, refused>>
  <2>1. InMemory' = InMemory
    BY <1>1, <1>3 DEF InMemory
  <2>2. tries' \in 0..Attempts /\ tries' # 0
    BY <1>1, <1>3, HistoryAssumption DEF HistInv
  <2> QED
    BY <1>1, <1>2, <1>3, <2>1, <2>2, OthersKeep DEF HistInv
<1>4. CASE tries' = 0 /\ batch' = <<>> /\ Spill(batch)
  <2>1. <<>> \in Seq(Taken) /\ ToSet(<<>>) = {}
    BY SetOfEmpty
  <2>2. /\ samples' \subseteq Series \X Times /\ refused' \subseteq Taken
        /\ samples \subseteq samples' /\ refused \subseteq refused'
        /\ \A r \in ToSet(batch) : key[r] \in samples' \/ r \in refused'
    BY <1>1, <1>4, SpillStores DEF HistInv
  <2>3. InMemory \subseteq InMemory' \cup ToSet(batch)
    BY <1>1, <1>4, <2>1 DEF InMemory
  <2>4. tries' \in 0..Attempts
    BY <1>4, HistoryAssumption
  <2> QED
    BY <1>1, <1>2, <1>4, <2>1, <2>2, <2>3, <2>4, OthersKeep DEF HistInv
<1> QED
  BY <1>3, <1>4 DEF PostFails

LEMMA RestartKeeps ==
  ASSUME HistInv, Restart
  PROVE  HistInv'
<1>1. /\ restarts' = restarts + 1 /\ crashed' = crashed \cup InMemory
      /\ handing' = {} /\ queue' = <<>> /\ pending' = <<>> /\ batch' = <<>> /\ tries' = 0
      /\ url' \in BOOLEAN /\ UNCHANGED <<key, vm, samples, refused, skipped>>
  BY DEF Restart
<1>2. <<>> \in Seq(Taken) /\ Len(<<>>) = 0 /\ 0 <= QueueMax /\ 0 \in 0..Attempts
  BY HistoryAssumption
<1>3. restarts' \in Nat /\ crashed' \subseteq Taken
  BY <1>1, MemoryTaken DEF HistInv
<1> QED
  BY <1>1, <1>2, <1>3, OthersKeep DEF HistInv

LEMMA HistStep ==
  ASSUME HistInv, [Next]_vars
  PROVE  HistInv'
<1>1. CASE UNCHANGED vars
  <2>1. UNCHANGED <<url, key, handing, queue, pending, batch, tries, vm, samples,
                    refused, skipped, crashed, restarts>>
    BY <1>1 DEF vars
  <2>2. InMemory' = InMemory
    BY <2>1 DEF InMemory
  <2> QED
    BY <2>1, <2>2, OthersKeep DEF HistInv
<1>2. CASE Next
  BY <1>2, IngestKeeps, RecordKeeps, CollectKeeps, FlushKeeps, PostTakenKeeps,
     PostFailsKeeps, RestartKeeps DEF Next, Writer
<1> QED
  BY <1>1, <1>2

LEMMA HistAlways == Spec => []HistInv
BY HistInit, HistStep, PTL DEF Spec

----------------------------------------------------------------------------
\* The types of History: what the queue, the writer thread and the stores
\* hold are readings that came in, and the queue never exceeds its limit.
THEOREM HistTyped == Spec => []HistTypeOK
<1>1. HistInv => HistTypeOK
  BY DEF HistInv, HistTypeOK
<1> QED
  BY <1>1, HistAlways, PTL

\* tsdb.record, _flush and their spills lose nothing: a reading that neither
\* store has is in memory, or it was refused by SQLite, in the memory of a
\* process that ended, or of a metric without a name.
THEOREM HistKept == Spec => []NothingUnstored
<1>1. HistInv => NothingUnstored
  BY DEF HistInv
<1> QED
  BY <1>1, HistAlways, PTL

-----------------------------------------------------------------------------
(***************************************************************************)
(* Falls.  What is told of a fall, and what last_escalated_fall_ts may be: *)
(* a moment that was told, of a fall whose alarm was sent.  The moments of *)
(* a right clock rise with the falls, and lie after all those of a clock   *)
(* that was lost.                                                          *)
(***************************************************************************)
Telling == [at : Nat, stamp : Int, right : BOOLEAN]

FallsTypes ==
  /\ now \in 1 .. MaxTime /\ since \in 0 .. now
  /\ falls \in Seq(Telling) /\ Len(falls) <= MaxFalls
  /\ task \in [Tasks -> [pc : {"idle", "read", "sends", "sent"}, fall : Nat]]
  /\ tried \in [Numbers -> Nat]
  /\ last \in Int

Moments ==
  /\ \A f \in DOMAIN falls :
       /\ falls[f].at <= now /\ -MaxTime <= falls[f].stamp
       /\ IF falls[f].right THEN falls[f].stamp = falls[f].at ELSE falls[f].stamp < 0
  /\ \A f, g \in DOMAIN falls : f < g => falls[f].at < falls[g].at

Told ==
  /\ node = 0 \/ node \in DOMAIN falls
  /\ mail \subseteq DOMAIN falls
  /\ \A p \in Tasks : task[p].pc # "idle" => task[p].fall \in DOMAIN falls

Sent ==
  /\ \A f \in Numbers : tried[f] > 0 => f \in DOMAIN falls
  /\ \A p \in Tasks : task[p].pc = "sent" => tried[task[p].fall] > 0
  /\ last = NoTime \/ \E f \in DOMAIN falls : tried[f] > 0 /\ last = falls[f].stamp

FallsInv == FallsTypes /\ Moments /\ Told /\ Sent

(***************************************************************************)
(* As long as one task at a time handles a new fall, last only rises: a    *)
(* fall whose alarm was sent is not later than last, or its task is about  *)
(* to note it.                                                             *)
(***************************************************************************)
OneByOne ==
  /\ \A p, q \in Tasks : Handling(p) /\ Handling(q) => p = q
  /\ \A p \in Tasks : Handling(p) => Epoch(p) > last
  /\ \A f \in DOMAIN falls : tried[f] > 0 =>
       falls[f].stamp <= last \/ \E p \in Tasks : task[p].pc = "sent" /\ task[p].fall = f
  /\ \A f \in Numbers : tried[f] <= 1

InTurn == ~mixed => OneByOne


LEMMA FallsInvInit == FallsInit => FallsInv /\ InTurn
<1> SUFFICES ASSUME FallsInit PROVE FallsInv /\ InTurn
  OBVIOUS
<1>1. falls = <<>> /\ <<>> \in Seq(Telling) /\ Len(<<>>) = 0 /\ DOMAIN <<>> = {}
  BY DEF FallsInit
<1>2. now = 1 /\ since = 0 /\ node = 0 /\ mail = {} /\ last = NoTime
      /\ tried = [f \in Numbers |-> 0] /\ task = [p \in Tasks |-> [pc |-> "idle", fall |-> 0]]
  BY DEF FallsInit, Idle
<1>3. \A p \in Tasks : task[p].pc = "idle"
  BY <1>2
<1>4. FallsTypes
  BY <1>1, <1>2, FallsAssumption DEF FallsTypes, NoTime
<1>5. Moments /\ Told /\ Sent
  BY <1>1, <1>2, <1>3 DEF Moments, Told, Sent
<1>6. OneByOne
  BY <1>1, <1>2, <1>3 DEF OneByOne, Handling
<1>. QED  BY <1>4, <1>5, <1>6 DEF FallsInv, InTurn

LEMMA FallsAre ==
  ASSUME FallsTypes
  PROVE  /\ Len(falls) \in Nat /\ DOMAIN falls = 1 .. Len(falls) /\ DOMAIN falls \subseteq Numbers
         /\ \A f \in DOMAIN falls : falls[f].at \in Nat /\ falls[f].stamp \in Int
<1>1. /\ falls \in Seq(Telling) /\ Len(falls) \in Nat /\ DOMAIN falls = 1 .. Len(falls)
      /\ Len(falls) <= MaxFalls
  BY LenProperties DEF FallsTypes
<1>2. DOMAIN falls \subseteq Numbers
  BY <1>1, FallsAssumption DEF Numbers
<1>3. \A f \in DOMAIN falls : falls[f] \in Telling
  BY <1>1, ElementOfSeq
<1>4. \A x \in Telling : x.at \in Nat /\ x.stamp \in Int
  BY DEF Telling
<1>. QED  BY <1>1, <1>2, <1>3, <1>4

\* What the steps of the tasks leave alone.
LEMMA TasksOnly ==
  ASSUME FallsInv, UNCHANGED world,
         \A p \in Tasks : task'[p].pc # "idle" => task'[p].fall \in DOMAIN falls,
         task' \in [Tasks -> [pc : {"idle", "read", "sends", "sent"}, fall : Nat]],
         mail' \subseteq mail
  PROVE  /\ Moments' /\ Told'
         /\ tried' \in [Numbers -> Nat] /\ last' \in Int => FallsTypes'
BY DEF FallsInv, FallsTypes, Moments, Told, world

\* The companion and its node: the moment of a new fall is one of those a clock may
\* tell, and later than those before.
LEMMA FallKeeps ==
  ASSUME FallsInv, Fall
  PROVE  FallsInv' /\ (InTurn => InTurn')
<1>. DEFINE new == [at |-> now, stamp |-> NodeClock, right |-> (since = 0)]
            n == Len(falls)
<1>1. /\ n < MaxFalls /\ \A f \in DOMAIN falls : falls[f].at < now
      /\ falls' = Append(falls, new)
      /\ node' = Len(falls') /\ mail' \in {mail, mail \cup {Len(falls')}}
      /\ UNCHANGED <<now, since, task, last, tried, mixed, faults>>
  BY DEF Fall
<1>2. /\ now \in 1 .. MaxTime /\ since \in 0 .. now /\ falls \in Seq(Telling)
      /\ n \in Nat /\ DOMAIN falls = 1 .. n
      /\ \A f \in DOMAIN falls : falls[f] \in Telling
  BY LenProperties, ElementOfSeq DEF FallsInv, FallsTypes
<1>3. /\ NodeClock \in Int /\ -MaxTime <= NodeClock
      /\ since = 0 => NodeClock = now
      /\ since # 0 => NodeClock < 0
  BY <1>2, FallsAssumption DEF NodeClock
<1>4. /\ new \in Telling /\ new.at = now /\ new.stamp = NodeClock
      /\ new.right <=> since = 0
  <2>1. (since = 0) \in BOOLEAN /\ now \in Nat /\ NodeClock \in Int
    BY <1>2, <1>3
  <2>. QED  BY <2>1 DEF Telling
<1>. HIDE DEF new
<1>5. /\ falls' \in Seq(Telling) /\ Len(falls') = n + 1
      /\ \A f \in 1 .. n : falls'[f] = falls[f]
      /\ falls'[n + 1] = new
  BY <1>1, <1>2, <1>4, AppendProperties
<1>6. DOMAIN falls' = 1 .. n + 1
  BY <1>5, LenProperties
<1>. HIDE DEF n
<1>7. DOMAIN falls' = DOMAIN falls \cup {n + 1} /\ \A f \in DOMAIN falls : f < n + 1 /\ falls'[f] = falls[f]
  BY <1>2, <1>5, <1>6
<1>8. FallsTypes'
  BY <1>1, <1>2, <1>5, FallsAssumption DEF FallsInv, FallsTypes, n
<1>9. Moments'
  <2>1. /\ new.at <= now /\ -MaxTime <= new.stamp
        /\ IF new.right THEN new.stamp = new.at ELSE new.stamp < 0
    BY <1>2, <1>3, <1>4
  <2>2. ASSUME NEW f \in DOMAIN falls'
        PROVE  /\ falls'[f].at <= now /\ -MaxTime <= falls'[f].stamp
               /\ IF falls'[f].right THEN falls'[f].stamp = falls'[f].at ELSE falls'[f].stamp < 0
    BY <1>5, <1>7, <2>1 DEF FallsInv, Moments
  <2>3. ASSUME NEW f \in DOMAIN falls', NEW g \in DOMAIN falls', f < g
        PROVE  falls'[f].at < falls'[g].at
    <3>1. f \in DOMAIN falls
      BY <1>2, <1>6, <1>7, <2>3
    <3>2. CASE g \in DOMAIN falls
      BY <1>7, <2>3, <3>1, <3>2 DEF FallsInv, Moments
    <3>3. CASE g = n + 1
      BY <1>1, <1>4, <1>5, <1>7, <3>1, <3>3
    <3>. QED  BY <1>7, <3>2, <3>3
  <2>. QED  BY <1>1, <2>2, <2>3 DEF Moments
<1>10. Told' /\ Sent'
  BY <1>1, <1>5, <1>7 DEF FallsInv, Told, Sent
<1>11. ASSUME InTurn PROVE InTurn'
  <2> SUFFICES ASSUME ~mixed PROVE OneByOne'
    BY <1>1 DEF InTurn
  <2>1. OneByOne
    BY <1>11 DEF InTurn
  <2>2. \A p \in Tasks : Handling(p) => task[p].fall \in DOMAIN falls /\ falls'[task[p].fall] = falls[task[p].fall]
    BY <1>7 DEF FallsInv, Told, Handling
  <2>3. ASSUME NEW f \in DOMAIN falls', tried[f] > 0 PROVE f \in DOMAIN falls
    <3>1. f \in Numbers
      BY <1>1, <1>2, <1>6, FallsAssumption DEF Numbers, n
    <3>. QED  BY <2>3, <3>1 DEF FallsInv, Sent
  <2>4. /\ \A p, q \in Tasks : Handling(p)' /\ Handling(q)' => p = q
        /\ \A p \in Tasks : Handling(p)' => Epoch(p)' > last'
    BY <1>1, <2>1, <2>2 DEF OneByOne, Handling, Epoch
  <2>5. \A f \in DOMAIN falls' : tried'[f] > 0 =>
          falls'[f].stamp <= last' \/ \E p \in Tasks : task'[p].pc = "sent" /\ task'[p].fall = f
    BY <1>1, <1>7, <2>1, <2>3 DEF OneByOne
  <2>6. \A f \in Numbers : tried'[f] <= 1
    BY <1>1, <2>1 DEF OneByOne
  <2>. QED  BY <2>4, <2>5, <2>6 DEF OneByOne
<1>. QED  BY <1>8, <1>9, <1>10, <1>11 DEF FallsInv

LEMMA ClockKeeps ==
  ASSUME FallsInv, Tick \/ ClockLost \/ ClockSet
  PROVE  FallsInv' /\ (InTurn => InTurn')
<1>1. /\ UNCHANGED <<falls, mail, task, last, tried, mixed, faults>>
      /\ now' \in {now, now + 1} /\ (now' = now \/ now < MaxTime)
      /\ since' \in {since, now, 0} /\ node' \in {node, 0}
  BY DEF Tick, ClockLost, ClockSet
<1>2. FallsTypes'
  BY <1>1, FallsAssumption DEF FallsInv, FallsTypes
<1>3. Moments'
  <2>1. \A f \in DOMAIN falls : falls[f].at \in Nat
    BY FallsAre DEF FallsInv
  <2>2. now \in Nat /\ now <= now'
    BY <1>1, FallsAssumption DEF FallsInv, FallsTypes
  <2>3. \A f \in DOMAIN falls : falls[f].at <= now'
    BY <1>1, <2>1, <2>2 DEF FallsInv, Moments
  <2>. QED  BY <1>1, <2>3 DEF FallsInv, Moments
<1>4. Told' /\ Sent'
  BY <1>1 DEF FallsInv, Told, Sent
<1>5. InTurn => InTurn'
  BY <1>1 DEF InTurn, OneByOne, Handling, Epoch
<1>. QED  BY <1>2, <1>3, <1>4, <1>5 DEF FallsInv

\* A task takes in hand what it is told.
LEMMA ReadKeeps ==
  ASSUME FallsInv, NEW p \in Tasks, NEW f \in DOMAIN falls, task[p].pc = "idle",
         task' = [task EXCEPT ![p] = [pc |-> "read", fall |-> f]], mail' \subseteq mail,
         UNCHANGED <<world, last, tried, mixed, faults>>
  PROVE  FallsInv' /\ (InTurn => InTurn')
<1>1. f \in Nat
  BY LenProperties DEF FallsInv, FallsTypes
<1>2. /\ task' \in [Tasks -> [pc : {"idle", "read", "sends", "sent"}, fall : Nat]]
      /\ task'[p].pc = "read" /\ task'[p].fall = f
      /\ \A q \in Tasks : q # p => task'[q] = task[q]
  BY <1>1 DEF FallsInv, FallsTypes
<1>3. \A q \in Tasks : task'[q].pc # "idle" => task'[q].fall \in DOMAIN falls
  BY <1>2 DEF FallsInv, Told
<1>4. FallsTypes' /\ Moments' /\ Told'
  <2>1. tried' \in [Numbers -> Nat] /\ last' \in Int
    BY DEF FallsInv, FallsTypes
  <2>. QED  BY <1>2, <1>3, <2>1, TasksOnly
<1>5. Sent'
  BY <1>2 DEF FallsInv, Sent, world
<1>6. InTurn => InTurn'
  <2>1. \A q \in Tasks : Handling(q)' => Handling(q) /\ Epoch(q)' = Epoch(q)
    BY <1>2 DEF Handling, Epoch, world
  <2>2. \A q \in Tasks : task[q].pc = "sent" => task'[q] = task[q]
    BY <1>2
  <2>. QED  BY <2>1, <2>2 DEF InTurn, OneByOne, world
<1>. QED  BY <1>4, <1>5, <1>6 DEF FallsInv

\* _handle_fall_report: a fall is new when it is later than last.
LEMMA JudgeKeeps ==
  ASSUME FallsInv, NEW p \in Tasks, Judge(p)
  PROVE  FallsInv' /\ (InTurn => InTurn')
<1>0. /\ task[p].pc = "read" /\ UNCHANGED <<world, mail, last, tried, faults>>
      /\ IF Epoch(p) <= last THEN Drop(p) /\ mixed' = mixed ELSE New(p)
      /\ task \in [Tasks -> [pc : {"idle", "read", "sends", "sent"}, fall : Nat]]
  BY DEF Judge, FallsInv, FallsTypes
<1>1. /\ task' \in [Tasks -> [pc : {"idle", "read", "sends", "sent"}, fall : Nat]]
      /\ \A q \in Tasks : q # p => task'[q] = task[q]
      /\ task'[p].pc \in {"idle", "sends"}
      /\ task'[p].pc = "sends" => /\ task'[p].fall = task[p].fall /\ ~ (Epoch(p) <= last)
                                  /\ mixed' = (mixed \/ \E q \in Tasks \ {p} : Handling(q))
      /\ task'[p].pc = "idle" => mixed' = mixed
  <2>1. CASE Epoch(p) <= last
    <3>1. task' = [task EXCEPT ![p] = [pc |-> "idle", fall |-> 0]] /\ mixed' = mixed
      BY <1>0, <2>1 DEF Drop, Idle
    <3>. QED  BY <1>0, <3>1
  <2>2. CASE ~ (Epoch(p) <= last)
    <3>1. /\ task' = [task EXCEPT ![p].pc = "sends"]
          /\ mixed' = (mixed \/ \E q \in Tasks \ {p} : Handling(q))
      BY <1>0, <2>2 DEF New, Set
    <3>. QED  BY <1>0, <2>2, <3>1
  <2>. QED  BY <2>1, <2>2
<1>2. \A q \in Tasks : task'[q].pc # "idle" => task'[q].fall \in DOMAIN falls
  BY <1>0, <1>1 DEF FallsInv, Told
<1>3. FallsTypes' /\ Moments' /\ Told'
  <2>1. tried' \in [Numbers -> Nat] /\ last' \in Int /\ UNCHANGED world /\ mail' \subseteq mail
    BY <1>0 DEF FallsInv, FallsTypes
  <2>. QED  BY <1>1, <1>2, <2>1, TasksOnly
<1>4. Sent'
  BY <1>0, <1>1 DEF FallsInv, Sent, world
<1>5. ASSUME InTurn, ~mixed' PROVE OneByOne'
  <2>1. OneByOne
    BY <1>1, <1>5 DEF InTurn
  <2>2. \A q \in Tasks : q # p => (Handling(q)' <=> Handling(q)) /\ Epoch(q)' = Epoch(q)
    BY <1>0, <1>1 DEF Handling, Epoch, world
  <2>3. Handling(p)' => Epoch(p)' = Epoch(p) /\ Epoch(p) > last /\ \A q \in Tasks \ {p} : ~Handling(q)
    <3>1. Handling(p)' => task'[p].pc = "sends"
      BY <1>1 DEF Handling
    <3>2. last \in Int /\ Epoch(p) \in Int
      <4>1. task[p].fall \in DOMAIN falls
        BY <1>0 DEF FallsInv, Told
      <4>. QED  BY <4>1, FallsAre DEF Epoch, FallsInv, FallsTypes
    <3>3. Handling(p)' => Epoch(p)' = Epoch(p)
      BY <1>0, <1>1, <3>1 DEF Epoch, world
    <3>4. Handling(p)' => ~ (Epoch(p) <= last) /\ ~ \E q \in Tasks \ {p} : Handling(q)
      BY <1>1, <1>5, <3>1
    <3>. QED  BY <3>2, <3>3, <3>4
  <2>4. \A q \in Tasks : task[q].pc = "sent" => task'[q] = task[q]
    BY <1>0, <1>1
  <2>5. /\ \A x, y \in Tasks : Handling(x)' /\ Handling(y)' => x = y
        /\ \A x \in Tasks : Handling(x)' => Epoch(x)' > last'
    BY <1>0, <2>1, <2>2, <2>3 DEF OneByOne
  <2>6. \A f \in DOMAIN falls' : tried'[f] > 0 =>
          falls'[f].stamp <= last' \/ \E q \in Tasks : task'[q].pc = "sent" /\ task'[q].fall = f
    BY <1>0, <2>1, <2>4 DEF OneByOne, world
  <2>. QED  BY <1>0, <2>1, <2>5, <2>6 DEF OneByOne
<1>. QED  BY <1>3, <1>4, <1>5 DEF FallsInv, InTurn

\* _escalate_fall: the fall in hand had no alarm yet.
LEMMA EscalateKeeps ==
  ASSUME FallsInv, NEW p \in Tasks, Escalate(p)
  PROVE  FallsInv' /\ (InTurn => InTurn')
<1>. DEFINE f == task[p].fall
<1>0. /\ task[p].pc = "sends" /\ task' = [task EXCEPT ![p].pc = "sent"]
      /\ tried' = [tried EXCEPT ![f] = tried[f] + 1]
      /\ UNCHANGED <<world, mail, last, mixed, faults>>
      /\ task \in [Tasks -> [pc : {"idle", "read", "sends", "sent"}, fall : Nat]]
  BY DEF Escalate, Set, FallsInv, FallsTypes
<1>1. f \in DOMAIN falls /\ f \in Numbers
  <2>1. f \in DOMAIN falls /\ DOMAIN falls = 1 .. Len(falls) /\ Len(falls) <= MaxFalls /\ Len(falls) \in Nat
    BY <1>0, LenProperties DEF FallsInv, FallsTypes, Told
  <2>. QED  BY <2>1, FallsAssumption DEF Numbers
<1>2. /\ task' \in [Tasks -> [pc : {"idle", "read", "sends", "sent"}, fall : Nat]]
      /\ task'[p].pc = "sent" /\ task'[p].fall = f
      /\ \A q \in Tasks : q # p => task'[q] = task[q]
  BY <1>0
<1>. HIDE DEF f
<1>3. /\ tried' \in [Numbers -> Nat] /\ tried'[f] = tried[f] + 1 /\ tried[f] \in Nat
      /\ \A g \in Numbers : g # f => tried'[g] = tried[g]
      /\ \A g \in Numbers : tried[g] > 0 => tried'[g] > 0
  <2>1. tried \in [Numbers -> Nat]
    BY DEF FallsInv, FallsTypes
  <2>2. tried[f] \in Nat /\ tried[f] + 1 \in Nat /\ tried[f] + 1 > 0
    BY <1>1, <2>1
  <2>. QED  BY <1>0, <1>1, <2>1, <2>2
<1>4. \A q \in Tasks : task'[q].pc # "idle" => task'[q].fall \in DOMAIN falls
  BY <1>1, <1>2 DEF FallsInv, Told
<1>5. FallsTypes' /\ Moments' /\ Told'
  <2>1. last' \in Int /\ UNCHANGED world /\ mail' \subseteq mail
    BY <1>0 DEF FallsInv, FallsTypes
  <2>. QED  BY <1>2, <1>3, <1>4, <2>1, TasksOnly
<1>6. DOMAIN falls \subseteq Numbers
  <2>1. DOMAIN falls = 1 .. Len(falls) /\ Len(falls) <= MaxFalls /\ Len(falls) \in Nat
    BY LenProperties DEF FallsInv, FallsTypes
  <2>. QED  BY <2>1, FallsAssumption DEF Numbers
<1>7. Sent'
  <2>1. \A g \in Numbers : tried'[g] > 0 => g \in DOMAIN falls'
    BY <1>0, <1>1, <1>3 DEF FallsInv, Sent, world
  <2>2. \A q \in Tasks : task'[q].pc = "sent" => tried'[task'[q].fall] > 0
    <3>1. tried'[f] > 0
      BY <1>3
    <3>2. ASSUME NEW q \in Tasks, q # p, task'[q].pc = "sent" PROVE tried'[task'[q].fall] > 0
      <4>1. task'[q] = task[q] /\ tried[task[q].fall] > 0 /\ task[q].fall \in DOMAIN falls
        BY <1>2, <3>2 DEF FallsInv, Sent, Told
      <4>. QED  BY <1>3, <1>6, <4>1
    <3>. QED  BY <1>2, <3>1, <3>2
  <2>3. last' = NoTime \/ \E g \in DOMAIN falls' : tried'[g] > 0 /\ last' = falls'[g].stamp
    BY <1>0, <1>3, <1>6 DEF FallsInv, Sent, world
  <2>. QED  BY <2>1, <2>2, <2>3 DEF Sent
<1>8. ASSUME InTurn, ~mixed' PROVE OneByOne'
  <2>1. OneByOne /\ falls' = falls /\ last' = last
    BY <1>0, <1>8 DEF InTurn, world
  <2>2. Handling(p) /\ \A q \in Tasks : (Handling(q)' <=> Handling(q)) /\ (Handling(q) => Epoch(q)' = Epoch(q))
    BY <1>0, <1>2, <2>1 DEF Handling, Epoch, f
  <2>3. tried[f] = 0
    <3>1. ~ (falls[f].stamp <= last)
      <4>1. falls[f].stamp > last /\ last \in Int /\ falls[f].stamp \in Int
        <5>1. last \in Int /\ falls[f].stamp \in Int
          BY <1>1, FallsAre DEF FallsInv, FallsTypes
        <5>2. falls[f].stamp > last
          BY <2>1, <2>2 DEF OneByOne, Epoch, f
        <5>. QED  BY <5>1, <5>2
      <4>. QED  BY <4>1
    <3>2. ~ \E q \in Tasks : task[q].pc = "sent" /\ task[q].fall = f
      BY <1>0, <2>1, <2>2 DEF OneByOne, Handling
    <3>. QED  BY <1>1, <1>3, <2>1, <3>1, <3>2 DEF OneByOne
  <2>4. \A g \in Numbers : tried'[g] <= 1
    BY <1>3, <2>1, <2>3 DEF OneByOne
  <2>5. /\ \A x, y \in Tasks : Handling(x)' /\ Handling(y)' => x = y
        /\ \A x \in Tasks : Handling(x)' => Epoch(x)' > last'
    BY <2>1, <2>2 DEF OneByOne
  <2>6. ASSUME NEW g \in DOMAIN falls', tried'[g] > 0
        PROVE  falls'[g].stamp <= last' \/ \E q \in Tasks : task'[q].pc = "sent" /\ task'[q].fall = g
    <3>1. CASE g = f
      BY <1>2, <3>1
    <3>2. CASE g # f
      <4>1. tried[g] > 0
        BY <1>3, <1>6, <2>1, <2>6, <3>2
      <4>2. falls[g].stamp <= last \/ \E q \in Tasks : task[q].pc = "sent" /\ task[q].fall = g
        BY <2>1, <2>6, <4>1 DEF OneByOne
      <4>3. \A q \in Tasks : task[q].pc = "sent" => task'[q] = task[q]
        BY <1>0, <1>2
      <4>. QED  BY <2>1, <4>2, <4>3
    <3>. QED  BY <3>1, <3>2
  <2>. QED  BY <2>4, <2>5, <2>6 DEF OneByOne
<1>. QED  BY <1>5, <1>7, <1>8 DEF FallsInv, InTurn

\* set_companion_fall.
LEMMA NoteKeeps ==
  ASSUME FallsInv, NEW p \in Tasks, Note(p)
  PROVE  FallsInv' /\ (InTurn => InTurn')
<1>. DEFINE f == task[p].fall
<1>0. /\ task[p].pc = "sent" /\ task' = [task EXCEPT ![p] = [pc |-> "idle", fall |-> 0]]
      /\ last' = falls[f].stamp
      /\ UNCHANGED <<world, mail, tried, mixed, faults>>
      /\ task \in [Tasks -> [pc : {"idle", "read", "sends", "sent"}, fall : Nat]]
  BY DEF Note, Drop, Idle, Epoch, FallsInv, FallsTypes
<1>1. f \in DOMAIN falls /\ tried[f] > 0 /\ falls[f].stamp \in Int /\ last \in Int
  <2>1. f \in DOMAIN falls /\ tried[f] > 0
    BY <1>0 DEF FallsInv, Told, Sent
  <2>. QED  BY <2>1, FallsAre DEF FallsInv, FallsTypes
<1>2. /\ task' \in [Tasks -> [pc : {"idle", "read", "sends", "sent"}, fall : Nat]]
      /\ task'[p].pc = "idle"
      /\ \A q \in Tasks : q # p => task'[q] = task[q]
  BY <1>0
<1>. HIDE DEF f
<1>3. \A q \in Tasks : task'[q].pc # "idle" => task'[q].fall \in DOMAIN falls
  BY <1>2 DEF FallsInv, Told
<1>4. FallsTypes' /\ Moments' /\ Told'
  <2>1. tried' \in [Numbers -> Nat] /\ last' \in Int /\ UNCHANGED world /\ mail' \subseteq mail
    BY <1>0, <1>1 DEF FallsInv, FallsTypes
  <2>. QED  BY <1>2, <1>3, <2>1, TasksOnly
<1>5. Sent'
  <2>1. \A q \in Tasks : task'[q].pc = "sent" => task[q].pc = "sent" /\ task'[q] = task[q]
    BY <1>2
  <2>. QED  BY <1>0, <1>1, <2>1 DEF FallsInv, Sent, world
<1>6. ASSUME InTurn, ~mixed' PROVE OneByOne'
  <2>1. OneByOne /\ falls' = falls /\ tried' = tried
    BY <1>0, <1>6 DEF InTurn, world
  <2>2. \A q \in Tasks : ~Handling(q)'
    BY <1>0, <1>2, <2>1 DEF OneByOne, Handling
  <2>3. falls[f].stamp > last
    BY <1>0, <2>1 DEF OneByOne, Handling, Epoch, f
  <2>4. ASSUME NEW g \in DOMAIN falls', tried'[g] > 0
        PROVE  falls'[g].stamp <= last'
    <3>1. falls[g].stamp \in Int
      BY <2>1, FallsAre DEF FallsInv
    <3>2. CASE falls[g].stamp <= last
      BY <1>0, <1>1, <2>1, <2>3, <3>1, <3>2
    <3>3. ASSUME NEW q \in Tasks, task[q].pc = "sent", task[q].fall = g
          PROVE  falls'[g].stamp <= last'
      <4>1. q = p
        BY <1>0, <2>1, <3>3 DEF OneByOne, Handling
      <4>. QED  BY <1>0, <2>1, <3>1, <3>3, <4>1 DEF f
    <3>. QED  BY <2>1, <2>4, <3>2, <3>3 DEF OneByOne
  <2>. QED  BY <2>1, <2>2, <2>4 DEF OneByOne
<1>. QED  BY <1>4, <1>5, <1>6 DEF FallsInv, InTurn

\* A task that is broken off between the decision and the note counts as mixed; any
\* other had sent nothing.
LEMMA BrokenKeeps ==
  ASSUME FallsInv, BrokenOff
  PROVE  FallsInv' /\ (InTurn => InTurn')
<1>1. PICK P \in {{p} : p \in Tasks} \cup {Tasks} :
        /\ task' = [p \in Tasks |-> IF p \in P THEN [pc |-> "idle", fall |-> 0] ELSE task[p]]
        /\ mixed' = (mixed \/ \E p \in P : Handling(p))
  BY DEF BrokenOff, Idle
<1>2. UNCHANGED <<world, mail, last, tried>> /\ P \subseteq Tasks
  BY DEF BrokenOff
<1>3. task' \in [Tasks -> [pc : {"idle", "read", "sends", "sent"}, fall : Nat]]
  <2>1. [pc |-> "idle", fall |-> 0] \in [pc : {"idle", "read", "sends", "sent"}, fall : Nat]
    OBVIOUS
  <2>. QED  BY <1>1, <2>1 DEF FallsInv, FallsTypes
<1>4. \A q \in Tasks : task'[q].pc # "idle" => task'[q] = task[q] /\ q \notin P
  BY <1>1
<1>5. FallsTypes' /\ Moments' /\ Told'
  <2>1. tried' \in [Numbers -> Nat] /\ last' \in Int /\ UNCHANGED world /\ mail' \subseteq mail
    BY <1>2 DEF FallsInv, FallsTypes
  <2>2. \A q \in Tasks : task'[q].pc # "idle" => task'[q].fall \in DOMAIN falls
    BY <1>4 DEF FallsInv, Told
  <2>. QED  BY <1>3, <2>1, <2>2, TasksOnly
<1>6. Sent'
  <2>1. \A q \in Tasks : task'[q].pc = "sent" => task'[q] = task[q]
    BY <1>4
  <2>. QED  BY <1>2, <2>1 DEF FallsInv, Sent, world
<1>7. ASSUME InTurn, ~mixed' PROVE OneByOne'
  <2>1. OneByOne /\ \A q \in P : ~Handling(q)
    BY <1>1, <1>7 DEF InTurn
  <2>2. \A q \in Tasks : Handling(q)' => Handling(q) /\ Epoch(q)' = Epoch(q)
    BY <1>2, <1>4 DEF Handling, Epoch, world
  <2>3. \A q \in Tasks : task[q].pc = "sent" => task'[q] = task[q]
    BY <1>1, <2>1 DEF Handling
  <2>. QED  BY <1>2, <2>1, <2>2, <2>3 DEF OneByOne, world
<1>. QED  BY <1>5, <1>6, <1>7 DEF FallsInv, InTurn

LEMMA FallsStep == FallsInv /\ [FallsNext]_fallsVars => FallsInv' /\ (InTurn => InTurn')
<1> SUFFICES ASSUME FallsInv, [FallsNext]_fallsVars PROVE FallsInv' /\ (InTurn => InTurn')
  OBVIOUS
<1>1. ASSUME NEW p \in Tasks, Answered(p) PROVE FallsInv' /\ (InTurn => InTurn')
  <2>1. node \in DOMAIN falls /\ mail' \subseteq mail
    BY <1>1 DEF Answered, FallsInv, Told
  <2>2. /\ task[p].pc = "idle" /\ task' = [task EXCEPT ![p] = [pc |-> "read", fall |-> node]]
        /\ UNCHANGED <<world, last, tried, mixed, faults>>
    BY <1>1 DEF Answered
  <2>. QED  BY <2>1, <2>2, ReadKeeps
<1>2. ASSUME PushArrives PROVE FallsInv' /\ (InTurn => InTurn')
  <2>1. PICK f \in mail :
          /\ mail' = mail \ {f}
          /\ task' = [task EXCEPT !["push"] = [pc |-> "read", fall |-> f]]
    BY <1>2 DEF PushArrives
  <2>2. f \in DOMAIN falls /\ "push" \in Tasks /\ mail' \subseteq mail
    BY <2>1 DEF FallsInv, Told, Tasks
  <2>3. task["push"].pc = "idle" /\ UNCHANGED <<world, last, tried, mixed, faults>>
    BY <1>2 DEF PushArrives
  <2>. QED  BY <2>1, <2>2, <2>3, ReadKeeps
<1>3. CASE UNCHANGED fallsVars
  <2>1. UNCHANGED <<now, falls, since, node, mail, task, last, tried, mixed>>
    BY <1>3 DEF fallsVars, world
  <2>. QED
    BY <2>1 DEF FallsInv, FallsTypes, Moments, Told, Sent, InTurn, OneByOne, Handling, Epoch
<1>. QED
  BY <1>1, <1>2, <1>3, FallKeeps, ClockKeeps, JudgeKeeps, EscalateKeeps, NoteKeeps, BrokenKeeps
  DEF FallsNext, Step

LEMMA FallsAlways == FallsSpec => [](FallsInv /\ InTurn)
BY FallsInvInit, FallsStep, PTL DEF FallsSpec

\* No fall of a right clock counts as dealt with before an alarm for it, or for a
\* later one (_handle_fall_report, set_companion_fall).
THEOREM FallsNotSwallowed == FallsSpec => []NoFallSwallowed
<1>1. FallsInv => NoFallSwallowed
  <2> SUFFICES ASSUME FallsInv, NEW f \in DOMAIN falls, falls[f].right, falls[f].stamp <= last
               PROVE  Alarmed(f)
    BY DEF NoFallSwallowed, Happened
  <2>1. /\ DOMAIN falls = 1 .. Len(falls) /\ Len(falls) \in Nat
        /\ \A g \in DOMAIN falls : falls[g].at \in Nat /\ falls[g].stamp \in Int
    BY FallsAre DEF FallsInv
  <2>2. falls[f].stamp = falls[f].at
    BY DEF FallsInv, Moments
  <2>3. last # NoTime
    BY <2>1, <2>2, FallsAssumption DEF NoTime
  <2>4. PICK g \in DOMAIN falls : tried[g] > 0 /\ last = falls[g].stamp
    BY <2>3 DEF FallsInv, Sent
  <2>5. falls[g].stamp = falls[g].at
    BY <2>1, <2>2, <2>4 DEF FallsInv, Moments
  <2>6. ~ (g < f)
    BY <2>1, <2>2, <2>4, <2>5 DEF FallsInv, Moments
  <2>. QED  BY <2>1, <2>4, <2>6 DEF Alarmed, Happened
<1>. QED  BY FallsAlways, <1>1, PTL

\* One alarm for a fall, unless two tasks handled new falls at the same time or one
\* was broken off before its note (_handle_fall_report, set_companion_fall).
THEOREM FallsOnce == FallsSpec => []OncePerFall
<1>1. FallsInv /\ InTurn => OncePerFall
  <2> SUFFICES ASSUME FallsInv, InTurn, ~mixed PROVE \A f \in DOMAIN falls : tried[f] <= 1
    BY DEF OncePerFall, Happened
  <2>1. DOMAIN falls = 1 .. Len(falls) /\ Len(falls) \in Nat /\ Len(falls) <= MaxFalls
    BY LenProperties DEF FallsInv, FallsTypes
  <2>. QED  BY <2>1, FallsAssumption DEF InTurn, OneByOne, Numbers
<1>. QED  BY FallsAlways, <1>1, PTL
=============================================================================
