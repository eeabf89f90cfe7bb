---------------------------- MODULE RadioProofs ----------------------------
(***************************************************************************)
(* MonRadio, for any list of repeaters and all settings: the four jobs     *)
(* keep to their own state, the verdict on a write never denies a command  *)
(* that left, "set" only goes to the node it is for as long as the list    *)
(* stays as it is, answers are only booked by the job that asked, and a    *)
(* write is a write of MonWrite.                                           *)
(***************************************************************************)
EXTENDS MonRadio, FiniteSetTheorems, TLAPS

Entries == [node : Nodes, full : BOOLEAN, on : BOOLEAN, in : BOOLEAN,
            fails : 0..BackoffAfter]
Controls == [st : States, cur : Nat, retry : 0..1]
Sweeps == [req : Nodes \cup {None}, cur : Nat, next : 1..ParamCount,
           pause : BOOLEAN, silent : 0..SetSilentMax, node : Nodes \cup {None},
           moved : BOOLEAN]
Writes == [req : Nodes \cup {None}, cur : Nat, step : 0..1, pause : BOOLEAN,
           node : Nodes \cup {None}, sent : BOOLEAN, said : {"no", "ok", "err"},
           read : BOOLEAN, hit : Seq(Nodes), moved : BOOLEAN]
Clocks == [run : BOOLEAN, cur : Nat, next : Nat \ {0}, step : 0..1, silent : Nat]

\* m has the keys of l, in the same places.
SameKeys(l, m) ==
  /\ m \in Seq(Entries) /\ DOMAIN m = DOMAIN l
  /\ \A i \in DOMAIN l : m[i].node = l[i].node /\ m[i].full = l[i].full

----------------------------------------------------------------------------
(* The list *)

LEMMA Numbers ==
  /\ ParamCount \in Nat /\ ParamCount >= 1 /\ SetSilentMax \in Nat /\ SetSilentMax >= 1
  /\ ClkSilentMax \in Nat /\ ClkSilentMax >= 1
  /\ BackoffAfter \in Nat /\ BackoffAfter >= 1 /\ BackoffEvery \in Nat /\ BackoffEvery >= 1
BY RadioAssumption

LEMMA ListIs ==
  ASSUME NEW l \in Seq(Entries)
  PROVE  /\ Len(l) \in Nat /\ DOMAIN l = 1..Len(l) /\ l \in [1..Len(l) -> Entries]
         /\ \A m \in [1..Len(l) -> Entries] : m \in Seq(Entries) /\ DOMAIN m = DOMAIN l
OBVIOUS

LEMMA EntryKept ==
  ASSUME NEW e \in Entries
  PROVE  /\ \A b \in BOOLEAN : /\ [e EXCEPT !.in = b] \in Entries
                               /\ [e EXCEPT !.on = b] \in Entries
                               /\ [e EXCEPT !.full = b] \in Entries
         /\ \A n \in 0..BackoffAfter : [e EXCEPT !.fails = n] \in Entries
         /\ e.fails \in 0..BackoffAfter
BY DEF Entries

LEMMA ListUpdated ==
  ASSUME NEW l \in Seq(Entries), NEW i \in DOMAIN l, NEW e \in Entries,
         e.node = l[i].node, e.full = l[i].full
  PROVE  SameKeys(l, [l EXCEPT ![i] = e])
<1>1. [l EXCEPT ![i] = e] \in [1..Len(l) -> Entries]
  BY ListIs
<1> QED
  BY <1>1, ListIs DEF SameKeys

LEMMA KeysKept ==
  ASSUME NEW l \in Seq(Entries), NEW i, NEW b \in BOOLEAN
  PROVE  /\ SameKeys(l, l) /\ SameKeys(l, SetIn(l, i, b))
         /\ SameKeys(l, Failed(l, i)) /\ SameKeys(l, Cleared(l, i))
         /\ SameKeys(l, Synced(l))
<1>0. SameKeys(l, l)
  BY DEF SameKeys
<1>e. ASSUME i \in DOMAIN l
      PROVE  l[i] \in Entries /\ l[i].fails \in 0..BackoffAfter
  BY <1>e, EntryKept
<1>1. SameKeys(l, SetIn(l, i, b))
  <2>1. CASE i \in DOMAIN l
    <3>1. [l[i] EXCEPT !.in = b] \in Entries
      BY <1>e, <2>1, EntryKept, Numbers
    <3>2. [l[i] EXCEPT !.in = b].node = l[i].node /\ [l[i] EXCEPT !.in = b].full = l[i].full
      BY <1>e, <2>1 DEF Entries
    <3>3. SetIn(l, i, b) = [l EXCEPT ![i] = [l[i] EXCEPT !.in = b]]
      BY <2>1 DEF SetIn
    <3> QED
      BY <2>1, <3>1, <3>2, <3>3, ListUpdated
  <2> QED
    BY <1>0, <2>1 DEF SetIn
<1>2. SameKeys(l, Failed(l, i))
  <2>1. CASE i \in DOMAIN l /\ l[i].fails < BackoffAfter
    <3> DEFINE e == [l[i] EXCEPT !.fails = l[i].fails + 1]
    <3>0. l[i].fails + 1 \in 0..BackoffAfter
      BY <1>e, <2>1, Numbers
    <3>1. e \in Entries
      BY <1>e, <2>1, <3>0, EntryKept
    <3>2. e.node = l[i].node /\ e.full = l[i].full
      BY <1>e, <2>1 DEF Entries
    <3>3. Failed(l, i) = [l EXCEPT ![i] = e]
      BY <2>1 DEF Failed
    <3> QED
      BY <2>1, <3>1, <3>2, <3>3, ListUpdated
  <2> QED
    BY <1>0, <2>1 DEF Failed
<1>3. SameKeys(l, Cleared(l, i))
  <2>1. CASE i \in DOMAIN l
    <3> DEFINE e == [l[i] EXCEPT !.fails = 0]
    <3>1. e \in Entries
      BY <1>e, <2>1, EntryKept, Numbers
    <3>2. e.node = l[i].node /\ e.full = l[i].full
      BY <1>e, <2>1 DEF Entries
    <3>3. Cleared(l, i) = [l EXCEPT ![i] = e]
      BY <2>1 DEF Cleared
    <3> QED
      BY <2>1, <3>1, <3>2, <3>3, ListUpdated
  <2> QED
    BY <1>0, <2>1 DEF Cleared
<1>4. SameKeys(l, Synced(l))
  <2>1. ASSUME NEW j \in DOMAIN l PROVE [l[j] EXCEPT !.in = FALSE] \in Entries
    <3>1. l[j] \in Entries
      OBVIOUS
    <3> QED
      BY <3>1, EntryKept
  <2>2. \A j \in DOMAIN l : /\ [l[j] EXCEPT !.in = FALSE].node = l[j].node
                            /\ [l[j] EXCEPT !.in = FALSE].full = l[j].full
    BY DEF Entries
  <2>3. Synced(l) \in [1..Len(l) -> Entries]
    BY <2>1, ListIs DEF Synced
  <2> QED
    BY <2>2, <2>3, ListIs DEF Synced, SameKeys
<1> QED
  BY <1>0, <1>1, <1>2, <1>3, <1>4

----------------------------------------------------------------------------
(* What the parts of a step do *)

LEMMA SweepKept ==
  ASSUME NEW s \in Sweeps
  PROVE  /\ \A v \in Nodes \cup {None} : [s EXCEPT !.req = v] \in Sweeps
         /\ \A v \in 1..ParamCount : [s EXCEPT !.next = v] \in Sweeps
         /\ \A v \in BOOLEAN : [s EXCEPT !.pause = v] \in Sweeps
         /\ \A v \in BOOLEAN : [s EXCEPT !.moved = v] \in Sweeps
         /\ \A v \in 0..SetSilentMax : [s EXCEPT !.silent = v] \in Sweeps
BY DEF Sweeps

LEMMA ClockKept ==
  ASSUME NEW c \in Clocks
  PROVE  /\ \A v \in Nat : [c EXCEPT !.cur = v] \in Clocks
         /\ \A v \in Nat \ {0} : [c EXCEPT !.next = v] \in Clocks
         /\ \A v \in 0..1 : [c EXCEPT !.step = v] \in Clocks
         /\ \A v \in Nat : [c EXCEPT !.silent = v] \in Clocks
         /\ c.silent \in Nat /\ c.cur \in Nat /\ c.next \in Nat \ {0}
BY DEF Clocks

LEMMA ClockReset ==
  ASSUME NEW c \in Clocks
  PROVE  [c EXCEPT !.cur = 0, !.step = 0] \in Clocks
<1> DEFINE d == [c EXCEPT !.cur = 0]
<1>1. d \in Clocks
  BY ClockKept
<1>2. [c EXCEPT !.cur = 0, !.step = 0] = [d EXCEPT !.step = 0]
  OBVIOUS
<1> HIDE DEF d
<1>z. 0 \in 0..1
  OBVIOUS
<1>v. \A v \in 0..1 : [d EXCEPT !.step = v] \in Clocks
  BY <1>1, ClockKept
<1>3. [d EXCEPT !.step = 0] \in Clocks
  BY <1>z, <1>v
<1> QED
  BY <1>2, <1>3

LEMMA Fresh ==
  /\ Idle \in Controls /\ NoSweep \in Sweeps /\ NoClock \in Clocks /\ NoWrite \in Writes
  /\ \A s \in Sweeps : [NoSweep EXCEPT !.req = s.req] \in Sweeps
<1>1. Idle \in Controls
  BY DEF Idle, Controls, States
<1>2. NoSweep \in Sweeps
  BY Numbers DEF NoSweep, Sweeps
<1>3. NoClock \in Clocks
  BY DEF NoClock, Clocks
<1>4. NoWrite \in Writes
  BY DEF NoWrite, Writes
<1>5. ASSUME NEW s \in Sweeps PROVE [NoSweep EXCEPT !.req = s.req] \in Sweeps
  <2>1. s.req \in Nodes \cup {None}
    BY DEF Sweeps
  <2> QED
    BY <1>2, <2>1, SweepKept
<1> QED
  BY <1>1, <1>2, <1>3, <1>4, <1>5

LEMMA StepEffect ==
  ASSUME NEW l \in Seq(Entries), NEW k \in 1..3, NEW i \in Nat \ {0}, Step(k, l, i)
  PROVE  /\ mon' = l /\ ctl' \in Controls
         /\ ctl'.st \in {"req", "telem", "nbr"} /\ ctl'.cur = i
BY DEF Step, Requests, Controls, States

LEMMA LoginEffect ==
  ASSUME NEW l \in Seq(Entries), NEW i \in Nat \ {0}, Login(l, i)
  PROVE  /\ mon' = l /\ ctl' \in Controls
         /\ ctl'.st = "login" /\ ctl'.cur = i
BY DEF Login, Controls, States

LEMMA TurnEffect ==
  ASSUME NEW l \in Seq(Entries), NEW k \in 1..3, NEW g \in BOOLEAN,
         ctl \in Controls, ctl.cur # 0, StepOrEnd(k, l, g)
  PROVE  /\ SameKeys(l, mon') /\ ctl' \in Controls /\ some' = g
         /\ ctl'.st \in {"req", "telem", "nbr", "gap"} /\ ctl'.cur = ctl.cur
<1>0. ctl.cur \in Nat \ {0}
  BY DEF Controls
<1>1. CASE Step(k, l, ctl.cur)
  BY <1>0, <1>1, StepEffect, KeysKept DEF StepOrEnd
<1>2. CASE EndOfTurn(l, g)
  <2>1. SameKeys(l, mon')
    BY <1>2, KeysKept DEF EndOfTurn
  <2> QED
    BY <1>0, <1>2, <2>1 DEF EndOfTurn, StepOrEnd, Gap, Controls, States
<1> QED
  BY <1>1, <1>2 DEF StepOrEnd

LEMMA AdvanceEffect ==
  ASSUME NEW l \in Seq(Entries), NEW from \in Nat, MonitorAdvance(l, from),
         some \in BOOLEAN, round \in 0..(BackoffEvery - 1)
  PROVE  /\ SameKeys(l, mon') /\ ctl' \in Controls
         /\ \/ ctl' = Idle
            \/ ctl'.st \in {"login", "req", "telem", "nbr"} /\ ctl'.cur # 0
         /\ some' \in BOOLEAN /\ round' \in 0..(BackoffEvery - 1)
<1> DEFINE skipped(k) == [j \in DOMAIN l |->
                           IF from < j /\ j < k /\ Pollable(l, j) /\ l[j].in
                           THEN Failed(l, j)[j] ELSE l[j]]
<1>1. ASSUME NEW k PROVE SameKeys(l, skipped(k))
  <2>1. ASSUME NEW j \in DOMAIN l
        PROVE  /\ skipped(k)[j] \in Entries
               /\ skipped(k)[j].node = l[j].node /\ skipped(k)[j].full = l[j].full
    <3>1. SameKeys(l, Failed(l, j))
      BY KeysKept
    <3> QED
      BY <3>1, ListIs DEF SameKeys
  <2>2. skipped(k) \in [1..Len(l) -> Entries]
    BY <2>1, ListIs
  <2> HIDE DEF skipped
  <2> QED
    BY <2>1, <2>2, ListIs DEF SameKeys
<1>2. ASSUME NEW i \in (from + 1)..Len(l),
             some' = FALSE, UNCHANGED round,
             IF l[i].in THEN Step(1, skipped(i), i) ELSE Login(skipped(i), i)
      PROVE  /\ SameKeys(l, mon') /\ ctl' \in Controls
             /\ ctl'.st \in {"login", "req", "telem", "nbr"} /\ ctl'.cur # 0
             /\ some' \in BOOLEAN /\ round' \in 0..(BackoffEvery - 1)
  <2>1. i \in Nat \ {0}
    BY ListIs
  <2>2. SameKeys(l, skipped(i)) /\ skipped(i) \in Seq(Entries)
    BY <1>1 DEF SameKeys
  <2> HIDE DEF skipped
  <2>3. CASE Step(1, skipped(i), i)
    <3>1. 1 \in 1..3
      OBVIOUS
    <3>2. /\ mon' = skipped(i) /\ ctl' \in Controls
          /\ ctl'.st \in {"req", "telem", "nbr"} /\ ctl'.cur = i
      BY <2>1, <2>2, <2>3, <3>1, StepEffect
    <3> QED
      BY <1>2, <2>1, <2>2, <3>2
  <2>4. CASE Login(skipped(i), i)
    BY <1>2, <2>1, <2>2, <2>4, LoginEffect
  <2>5. Step(1, skipped(i), i) \/ Login(skipped(i), i)
    BY <1>2, Zenon
  <2> QED
    BY <2>3, <2>4, <2>5
<1>3. CASE /\ ctl' = Idle /\ mon' = skipped(Len(l) + 1)
           /\ round' = (round + 1) % BackoffEvery
           /\ UNCHANGED some
  <2>1. SameKeys(l, mon')
    BY <1>1, <1>3
  <2>2. round' \in 0..(BackoffEvery - 1)
    BY <1>3, Numbers
  <2> QED
    BY <1>3, <2>1, <2>2, Fresh
<1>4. \/ \E i \in (from + 1)..Len(l) :
           /\ some' = FALSE /\ UNCHANGED round
           /\ IF l[i].in THEN Step(1, skipped(i), i) ELSE Login(skipped(i), i)
      \/ /\ ctl' = Idle /\ mon' = skipped(Len(l) + 1)
         /\ round' = (round + 1) % BackoffEvery
         /\ UNCHANGED some
  BY DEF MonitorAdvance
<1> HIDE DEF skipped
<1> QED
  BY <1>2, <1>3, <1>4

\* A sweep goes on, or ends and gives the machine back.
SweepGoesOn(s, l, c) ==
  /\ mon' = l /\ set' \in Sweeps /\ ctl' \in Controls /\ set'.req = s.req
  /\ \/ set'.cur = 0 /\ ctl' = Idle
     \/ /\ set'.cur = s.cur /\ set'.node = s.node /\ set'.moved = s.moved
        /\ ctl'.st = "cli" /\ ctl'.cur = c.cur

LEMMA SweepEffect ==
  ASSUME NEW s \in Sweeps, NEW l \in Seq(Entries), NEW c \in Controls
  PROVE  /\ SettingsFinish(s, l) => SweepGoesOn(s, l, c)
         /\ SettingsAdvance(s, l, c) => SweepGoesOn(s, l, c)
         /\ SettingsSend(s, l, c) => SweepGoesOn(s, l, c)
<1>1. SettingsFinish(s, l) => SweepGoesOn(s, l, c)
  <2>1. [NoSweep EXCEPT !.req = s.req].cur = 0 /\ [NoSweep EXCEPT !.req = s.req].req = s.req
    BY DEF NoSweep
  <2> QED
    BY <2>1, Fresh DEF SettingsFinish, SweepGoesOn
<1>2. SettingsAdvance(s, l, c) => SweepGoesOn(s, l, c)
  <2> DEFINE t == [s EXCEPT !.next = s.next + 1, !.pause = TRUE]
  <2>1. ASSUME s.next < ParamCount
        PROVE  /\ t \in Sweeps /\ t.cur = s.cur /\ t.req = s.req
               /\ t.node = s.node /\ t.moved = s.moved
    <3> DEFINE u == [s EXCEPT !.next = s.next + 1]
    <3>1. s.next + 1 \in 1..ParamCount
      BY <2>1, Numbers DEF Sweeps
    <3>2. u \in Sweeps
      BY <3>1, SweepKept
    <3>3. [u EXCEPT !.pause = TRUE] \in Sweeps
      BY <3>2, SweepKept
    <3>4. t = [u EXCEPT !.pause = TRUE]
      OBVIOUS
    <3>5. t.cur = s.cur /\ t.req = s.req /\ t.node = s.node /\ t.moved = s.moved
      BY DEF Sweeps
    <3> QED
      BY <3>3, <3>4, <3>5
  <2>2. /\ [c EXCEPT !.st = "cli"] \in Controls
        /\ [c EXCEPT !.st = "cli"].st = "cli" /\ [c EXCEPT !.st = "cli"].cur = c.cur
    BY DEF Controls, States
  <2> QED
    BY <1>1, <2>1, <2>2 DEF SettingsAdvance, SweepGoesOn
<1>3. SettingsSend(s, l, c) => SweepGoesOn(s, l, c)
  BY <1>2 DEF SettingsSend, SweepGoesOn, Controls, States
<1> QED
  BY <1>1, <1>2, <1>3

\* A clock run goes on, or is done with this node.
RunGoesOn(l, k) ==
  /\ mon' = l /\ clk' \in Clocks /\ ctl' \in Controls
  /\ \/ ctl' = Idle
     \/ ctl'.st = "clk" /\ ctl'.cur = k.cur

LEMMA ClockEffect ==
  ASSUME NEW c \in Clocks, NEW l \in Seq(Entries), NEW k \in Controls
  PROVE  /\ ClockFinish(l) => RunGoesOn(l, k)
         /\ ClockNodeDone(c, l) => RunGoesOn(l, k)
         /\ ClockSend(c, l, k) => RunGoesOn(l, k)
<1>1. ClockFinish(l) => RunGoesOn(l, k)
  BY Fresh DEF ClockFinish, RunGoesOn
<1>2. ClockNodeDone(c, l) => RunGoesOn(l, k)
  <2> QED
    BY ClockReset, Fresh DEF ClockNodeDone, RunGoesOn
<1>3. ClockSend(c, l, k) => RunGoesOn(l, k)
  BY <1>2 DEF ClockSend, RunGoesOn, Controls, States
<1> QED
  BY <1>1, <1>2, <1>3

LEMMA WriteKept ==
  ASSUME NEW w \in Writes
  PROVE  /\ \A v \in Nodes \cup {None} : [w EXCEPT !.req = v] \in Writes
         /\ \A v \in Nat : [w EXCEPT !.cur = v] \in Writes
         /\ \A v \in 0..1 : [w EXCEPT !.step = v] \in Writes
         /\ \A v \in BOOLEAN : /\ [w EXCEPT !.pause = v] \in Writes
                               /\ [w EXCEPT !.sent = v] \in Writes
                               /\ [w EXCEPT !.read = v] \in Writes
                               /\ [w EXCEPT !.moved = v] \in Writes
         /\ \A v \in Nodes \cup {None} : [w EXCEPT !.node = v] \in Writes
         /\ \A v \in {"no", "ok", "err"} : [w EXCEPT !.said = v] \in Writes
         /\ \A v \in Seq(Nodes) : [w EXCEPT !.hit = v] \in Writes
         /\ w.hit \in Seq(Nodes) /\ w.cur \in Nat /\ w.step \in 0..1
         /\ w.req \in Nodes \cup {None} /\ w.pause \in BOOLEAN /\ w.moved \in BOOLEAN
BY DEF Writes

\* v is w, ended.
Ended(w, v) ==
  /\ v \in Writes
  /\ v.cur = 0 /\ v.step = 0 /\ v.pause = FALSE
  /\ v.req = w.req /\ v.node = w.node /\ v.sent = w.sent /\ v.said = w.said
  /\ v.read = w.read /\ v.hit = w.hit /\ v.moved = w.moved

LEMMA EndedIs ==
  ASSUME NEW w \in Writes
  PROVE  Ended(w, [w EXCEPT !.cur = 0, !.step = 0, !.pause = FALSE])
<1> DEFINE u == [w EXCEPT !.cur = 0]
           x == [u EXCEPT !.step = 0]
           v == [x EXCEPT !.pause = FALSE]
<1>1. v = [w EXCEPT !.cur = 0, !.step = 0, !.pause = FALSE]
  OBVIOUS
<1>2. u \in Writes
  BY WriteKept
<1>3. x \in Writes
  <2> HIDE DEF u
  <2>1. 0 \in 0..1
    OBVIOUS
  <2> QED
    BY <1>2, <2>1, WriteKept
<1>4. v \in Writes
  <2> HIDE DEF u, x
  <2> QED
    BY <1>3, WriteKept
<1>5. /\ v.cur = 0 /\ v.step = 0 /\ v.pause = FALSE
      /\ v.req = w.req /\ v.node = w.node /\ v.sent = w.sent /\ v.said = w.said
      /\ v.read = w.read /\ v.hit = w.hit /\ v.moved = w.moved
  BY DEF Writes
<1> HIDE DEF v
<1> QED
  BY <1>1, <1>4, <1>5 DEF Ended

\* The entry at the place of entry i in the table is entry i.
LEMMA AtOwn ==
  ASSUME NEW l \in Seq(Entries), NEW i \in DOMAIN l, l[i].full,
         NEW j \in At(l, MeshIdx(l, i))
  PROVE  j = i
<1> DEFINE Full(n) == {k \in 1..n : l[k].full}
<1>1. i \in Nat /\ j \in Nat /\ i >= 1 /\ j >= 1 /\ j \in DOMAIN l /\ l[j].full
  BY ListIs DEF At
<1>2. Cardinality(Full(j)) = Cardinality(Full(i))
  BY <1>1 DEF At, MeshIdx
<1>3. IsFiniteSet(Full(i)) /\ IsFiniteSet(Full(j))
  <2>1. IsFiniteSet(1..i) /\ IsFiniteSet(1..j)
    BY <1>1, FS_Interval
  <2>2. Full(i) \subseteq 1..i /\ Full(j) \subseteq 1..j
    OBVIOUS
  <2> QED
    BY <2>1, <2>2, FS_Subset
<1>4. CASE i < j
  <2>1. Full(i) \subseteq Full(j) /\ j \in Full(j) /\ j \notin Full(i)
    BY <1>1, <1>4
  <2> HIDE DEF Full
  <2> QED
    BY <1>2, <1>3, <2>1, FS_Subset
<1>5. CASE j < i
  <2>1. Full(j) \subseteq Full(i) /\ i \in Full(i) /\ i \notin Full(j)
    BY <1>1, <1>5
  <2> HIDE DEF Full
  <2> QED
    BY <1>2, <1>3, <2>1, FS_Subset
<1> QED
  BY <1>1, <1>4, <1>5

\* v is w after its command left for the entry that list l has at its place.
Left(w, l, v) ==
  /\ v \in Writes
  /\ v.cur = w.cur /\ v.step = w.step /\ v.pause = w.pause /\ v.sent = TRUE
  /\ v.req = w.req /\ v.node = w.node /\ v.said = w.said
  /\ v.read = w.read /\ v.moved = w.moved
  /\ w.step # 0 => v.hit = w.hit
  /\ w.step = 0 => \E j \in At(l, MeshIdx(l, w.cur)) : v.hit = Append(w.hit, l[j].node)

LEMMA WriteEffect ==
  ASSUME NEW w \in Writes, NEW l \in Seq(Entries), NEW c \in Controls,
         WriteSend(w, l, c)
  PROVE  /\ mon' = l
         /\ \/ Ended(w, wr') /\ ctl' = Idle
            \/ /\ Left(w, l, wr')
               /\ ctl' \in Controls /\ ctl'.st = "wset" /\ ctl'.cur = c.cur
<1>1. CASE WriteFinish(w, l)
  BY <1>1, EndedIs DEF WriteFinish
<1>2. ASSUME NEW j \in At(l, MeshIdx(l, w.cur)),
             wr' = [w EXCEPT !.sent = TRUE,
                      !.hit = IF w.step = 0 THEN Append(@, l[j].node) ELSE @]
      PROVE  Left(w, l, wr')
  <2> DEFINE h == IF w.step = 0 THEN Append(w.hit, l[j].node) ELSE w.hit
             u == [w EXCEPT !.sent = TRUE]
             v == [u EXCEPT !.hit = h]
  <2>1. l[j] \in Entries /\ l[j].node \in Nodes
    <3>1. l[j] \in Entries
      BY ListIs DEF At
    <3> QED
      BY <3>1 DEF Entries
  <2>2. h \in Seq(Nodes)
    <3>1. w.hit \in Seq(Nodes)
      BY WriteKept
    <3> QED
      BY <2>1, <3>1
  <2>3. u \in Writes
    BY WriteKept
  <2>4. v \in Writes
    <3> HIDE DEF u, h
    <3> QED
      BY <2>2, <2>3, WriteKept
  <2>5. wr' = v
    BY <1>2
  <2>6. /\ v.cur = w.cur /\ v.step = w.step /\ v.pause = w.pause /\ v.sent = TRUE
        /\ v.req = w.req /\ v.node = w.node /\ v.said = w.said
        /\ v.read = w.read /\ v.moved = w.moved /\ v.hit = h
    BY DEF Writes
  <2>7. /\ w.step # 0 => v.hit = w.hit
        /\ w.step = 0 => v.hit = Append(w.hit, l[j].node)
    BY <2>6
  <2> HIDE DEF v
  <2> QED
    BY <2>4, <2>5, <2>6, <2>7 DEF Left
<1>3. /\ [c EXCEPT !.st = "wset"] \in Controls
      /\ [c EXCEPT !.st = "wset"].st = "wset" /\ [c EXCEPT !.st = "wset"].cur = c.cur
  BY DEF Controls, States
<1> QED
  BY <1>1, <1>2, <1>3 DEF WriteSend

----------------------------------------------------------------------------
(* The inductive invariant *)

Types ==
  /\ mon \in Seq(Entries) /\ ctl \in Controls
  /\ some \in BOOLEAN /\ round \in 0..(BackoffEvery - 1)
  /\ set \in Sweeps /\ wr \in Writes /\ clk \in Clocks
  /\ misfiled \subseteq {"quiet", "node", "command"}

LEMMA TypesAre == MonTypeOK <=> Types
BY DEF MonTypeOK, Types, Entries, Controls, Sweeps, Writes, Clocks

\* A request for a write does not wait while a sweep runs; what waits for a
\* pause has heard the answer to "set"; a write that waits for its login has
\* sent nothing yet, and what left is marked as sent.
Shape ==
  /\ set.cur # 0 => wr.req = None
  /\ wr.pause => wr.step = 1
  /\ wr.cur # 0 /\ ctl.st = "login" => wr.step = 0
  /\ wr.hit # <<>> => wr.sent

\* As long as the list was not touched, the index of a write is that of its node.
Aimed ==
  wr.cur # 0 /\ ~ wr.moved =>
    wr.cur \in DOMAIN mon /\ mon[wr.cur].full /\ mon[wr.cur].node = wr.node

RadioInv == Types /\ OneOwner /\ Shape /\ Aimed /\ SetOnlyToAsked

\* What every step keeps: the invariant, and a step of MonWrite.
Kept == RadioInv' /\ [Write!Next]_(Write!wvars)

\* A step of another job while no write runs.
Others ==
  /\ wr.cur = 0 /\ wr' = wr
  /\ mon' \in Seq(Entries) /\ ctl' \in Controls
  /\ some' \in BOOLEAN /\ round' \in 0..(BackoffEvery - 1)
  /\ set' \in Sweeps /\ clk' \in Clocks /\ misfiled' \subseteq {"quiet", "node", "command"}
  /\ ctl'.st \notin {"idle", "gap"} => ctl'.cur # 0
  /\ ctl'.st = "cli" => set'.cur # 0
  /\ ctl'.st # "wset"
  /\ set'.cur # 0 => wr.req = None

LEMMA OthersKeep == ASSUME RadioInv, Others PROVE Kept
<1>1. Types'
  BY DEF RadioInv, Types, Others
<1>2. OneOwner' /\ Shape' /\ Aimed' /\ SetOnlyToAsked'
  BY DEF RadioInv, Others, OneOwner, Shape, Aimed, SetOnlyToAsked
<1>3. UNCHANGED Write!wvars
  BY DEF Others, Write!wvars, Stage
<1> QED
  BY <1>1, <1>2, <1>3 DEF RadioInv, Kept

\* A write ends, or its command leaves, where it had the machine.
LEMMA WriteGoesOn ==
  ASSUME RadioInv, wr.cur # 0, ctl.st \in {"login", "wset"},
         NEW l \in Seq(Entries), SameKeys(mon, l),
         wr.pause \/ ctl.st = "login",
         WriteSend([wr EXCEPT !.pause = FALSE], l, ctl),
         UNCHANGED <<some, round, set>>, clk' \in Clocks,
         misfiled' \subseteq {"quiet", "node", "command"}
  PROVE  Kept
<1> DEFINE w == [wr EXCEPT !.pause = FALSE]
<1>1. /\ w \in Writes /\ w.cur = wr.cur /\ w.step = wr.step /\ w.pause = FALSE
      /\ w.req = wr.req /\ w.node = wr.node /\ w.sent = wr.sent /\ w.said = wr.said
      /\ w.read = wr.read /\ w.hit = wr.hit /\ w.moved = wr.moved
  <2>1. wr \in Writes
    BY DEF RadioInv, Types
  <2>2. w \in Writes
    BY <2>1, WriteKept
  <2> QED
    BY <2>1, <2>2 DEF Writes
<1> HIDE DEF w
<1>2. /\ mon' = l
      /\ \/ Ended(w, wr') /\ ctl' = Idle
         \/ Left(w, l, wr') /\ ctl' \in Controls /\ ctl'.st = "wset" /\ ctl'.cur = ctl.cur
  BY <1>1, WriteEffect DEF RadioInv, Types, w
<1>3. CASE Ended(w, wr') /\ ctl' = Idle
  <2>1. Types'
    BY <1>2, <1>3, Fresh DEF RadioInv, Types, Ended
  <2>2. OneOwner' /\ Shape' /\ Aimed' /\ SetOnlyToAsked'
    BY <1>1, <1>3
       DEF RadioInv, Ended, OneOwner, Shape, Aimed, SetOnlyToAsked, Idle
  <2>3. [Write!Next]_(Write!wvars)
    BY <1>1, <1>3 DEF RadioInv, OneOwner, Ended, Write!Next, Write!GiveUp, Write!wvars, Stage
  <2> QED
    BY <2>1, <2>2, <2>3 DEF RadioInv, Kept
<1>4. CASE /\ Left(w, l, wr')
           /\ ctl' \in Controls /\ ctl'.st = "wset" /\ ctl'.cur = ctl.cur
  <2>1. Types'
    BY <1>2, <1>4 DEF RadioInv, Types, Left
  <2>2. OneOwner'
    BY <1>1, <1>4 DEF RadioInv, OneOwner, Left
  <2>3. w.step = 1 \/ w.step = 0
    BY <1>1 DEF Writes
  <2>4. Shape'
    BY <1>1, <1>4 DEF RadioInv, Shape, Left
  <2>5. Aimed'
    BY <1>1, <1>2, <1>4 DEF RadioInv, Aimed, Left, SameKeys
  <2>6. SetOnlyToAsked'
    <3> SUFFICES ASSUME ~ wr.moved, NEW i \in DOMAIN wr'.hit
                 PROVE  wr'.hit[i] = wr.node
      BY <1>1, <1>4 DEF SetOnlyToAsked, Left
    <3>1. CASE w.step # 0
      BY <1>1, <1>4, <3>1 DEF RadioInv, SetOnlyToAsked, Left
    <3>2. CASE w.step = 0
      <4>1. PICK j \in At(l, MeshIdx(l, w.cur)) : wr'.hit = Append(w.hit, l[j].node)
        BY <1>4, <3>2 DEF Left
      <4>2. w.cur \in DOMAIN l /\ l[w.cur].full /\ l[w.cur].node = wr.node
        BY <1>1 DEF RadioInv, Aimed, SameKeys
      <4>3. j = w.cur
        BY <4>2, AtOwn
      <4>4. w.hit \in Seq(Nodes) /\ \A k \in DOMAIN w.hit : w.hit[k] = wr.node
        BY <1>1, WriteKept DEF RadioInv, SetOnlyToAsked
      <4> QED
        BY <4>1, <4>2, <4>3, <4>4
    <3> QED
      BY <3>1, <3>2
  <2>7. [Write!Next]_(Write!wvars)
    <3>1. CASE ctl.st = "login"
      <4>1. w.step = 0
        BY <1>1, <3>1 DEF RadioInv, Shape
      <4>2. Len(wr'.hit) = Len(wr.hit) + 1
        <5>1. PICK j \in At(l, MeshIdx(l, w.cur)) : wr'.hit = Append(w.hit, l[j].node)
          BY <1>4, <4>1 DEF Left
        <5>2. w.hit \in Seq(Nodes)
          BY <1>1, WriteKept
        <5>3. l[j] \in Entries
          BY ListIs DEF At
        <5> QED
          BY <1>1, <5>1, <5>2, <5>3 DEF Entries
      <4> QED
        BY <1>1, <1>4, <3>1, <4>1, <4>2
           DEF Left, Write!Next, Write!SetLeaves, Write!wvars, Stage
    <3>2. CASE ctl.st = "wset"
      <4>1. w.step = 1 /\ wr.pause
        BY <1>1, <3>2 DEF RadioInv, Shape
      <4> QED
        BY <1>1, <1>4, <3>2, <4>1
           DEF Left, Write!Next, Write!GetLeaves, Write!wvars, Stage
    <3> QED
      BY <3>1, <3>2
  <2> QED
    BY <2>1, <2>2, <2>4, <2>5, <2>6, <2>7 DEF RadioInv, Kept
<1> QED
  BY <1>2, <1>3, <1>4

\* A write ends where it had the machine.
LEMMA WriteStops ==
  ASSUME RadioInv, wr.cur # 0, NEW read \in BOOLEAN,
         read = wr.read \/ Stage = "get",
         NEW l \in Seq(Entries), SameKeys(mon, l),
         WriteFinish([wr EXCEPT !.read = read], l),
         UNCHANGED <<some, round, set>>, clk' \in Clocks,
         misfiled' \subseteq {"quiet", "node", "command"}
  PROVE  Kept
<1> DEFINE w == [wr EXCEPT !.read = read]
<1>1. /\ w \in Writes
      /\ w.req = wr.req /\ w.node = wr.node /\ w.sent = wr.sent /\ w.said = wr.said
      /\ w.read = read /\ w.hit = wr.hit /\ w.moved = wr.moved
  <2>1. wr \in Writes
    BY DEF RadioInv, Types
  <2>2. w \in Writes
    BY <2>1, WriteKept
  <2> QED
    BY <2>1, <2>2 DEF Writes
<1> HIDE DEF w
<1>2. Ended(w, wr') /\ ctl' = Idle /\ mon' = l
  BY <1>1, EndedIs DEF WriteFinish, w
<1>3. Types'
  BY <1>2, Fresh DEF RadioInv, Types, Ended
<1>4. OneOwner' /\ Shape' /\ Aimed' /\ SetOnlyToAsked'
  BY <1>1, <1>2
     DEF RadioInv, Ended, OneOwner, Shape, Aimed, SetOnlyToAsked, Idle
<1>5. [Write!Next]_(Write!wvars)
  <2>1. Stage # "rest" /\ Stage' = "rest"
    BY <1>2 DEF Stage, Ended
  <2>2. CASE read = wr.read
    BY <1>1, <1>2, <2>1, <2>2 DEF Ended, Write!Next, Write!GiveUp, Write!wvars
  <2>3. CASE Stage = "get"
    BY <1>1, <1>2, <2>1, <2>3 DEF Ended, Write!Next, Write!ReadBack, Write!wvars
  <2> QED
    BY <2>2, <2>3
<1> QED
  BY <1>3, <1>4, <1>5 DEF RadioInv, Kept

----------------------------------------------------------------------------
(* The answers *)

LEMMA IgnoredKeeps == ASSUME RadioInv, Ignored PROVE Kept
<1>1. Types' /\ OneOwner' /\ Shape' /\ Aimed' /\ SetOnlyToAsked'
  BY DEF RadioInv, Ignored, job, Types, OneOwner, Shape, Aimed, SetOnlyToAsked
<1>2. UNCHANGED Write!wvars
  BY DEF Ignored, job, Write!wvars, Stage
<1> QED
  BY <1>1, <1>2 DEF RadioInv, Kept

LEMMA WrongIs ==
  \A n, cmd, moved : Wrong(n, cmd, moved) \subseteq {"quiet", "node", "command"}
BY DEF Wrong

LEMMA SettingsReplyKeeps == ASSUME RadioInv, SettingsReply PROVE Kept
<1> DEFINE s == [set EXCEPT !.silent = 0]
<1>1. s \in Sweeps /\ s.cur = set.cur /\ s.req = set.req
  <2>1. set \in Sweeps
    BY DEF RadioInv, Types
  <2>2. s \in Sweeps
    BY <2>1, SweepKept, Numbers
  <2> QED
    BY <2>1, <2>2 DEF Sweeps
<1>2. ctl.st = "cli" /\ set.cur # 0 /\ wr.cur = 0 /\ ctl.cur # 0 /\ wr.req = None
  BY DEF SettingsReply, ForSweep, From, RadioInv, OneOwner, Shape
<1>3. SettingsAdvance(s, mon, ctl) /\ UNCHANGED <<some, round, wr, clk>>
  BY DEF SettingsReply
<1> HIDE DEF s
<1>4. SweepGoesOn(s, mon, ctl)
  BY <1>1, <1>3, SweepEffect DEF RadioInv, Types
<1>5. misfiled' \subseteq {"quiet", "node", "command"}
  BY WrongIs DEF SettingsReply, RadioInv, Types
<1>6. Others
  BY <1>1, <1>2, <1>3, <1>4, <1>5
     DEF Others, SweepGoesOn, RadioInv, Types, Idle
<1> QED
  BY <1>6, OthersKeep

LEMMA ClockReplyKeeps == ASSUME RadioInv, ClockReply PROVE Kept
<1> DEFINE heard == [clk EXCEPT !.silent = 0]
           next == [heard EXCEPT !.step = 1]
<1>1. clk \in Clocks /\ mon \in Seq(Entries) /\ ctl \in Controls
  BY DEF RadioInv, Types
<1>2. heard \in Clocks
  BY <1>1, ClockKept
<1>3. next \in Clocks
  <2> HIDE DEF heard
  <2>1. 1 \in 0..1
    OBVIOUS
  <2> QED
    BY <1>2, <2>1, ClockKept
<1>4. ctl.st = "clk" /\ wr.cur = 0 /\ ctl.cur # 0
  BY DEF ClockReply, ForClock, RadioInv, OneOwner
<1>5. /\ ClockNodeDone(heard, mon) \/ ClockNodeDone(clk, mon) \/ ClockSend(next, mon, ctl)
      /\ UNCHANGED <<some, round, set, wr, misfiled>>
  BY DEF ClockReply
<1> HIDE DEF heard, next
<1>6. RunGoesOn(mon, ctl)
  BY <1>1, <1>2, <1>3, <1>5, ClockEffect
<1>7. Others
  BY <1>4, <1>5, <1>6 DEF Others, RunGoesOn, RadioInv, Types, Shape, OneOwner, Idle
<1> QED
  BY <1>7, OthersKeep

LEMMA WriteReplyKeeps == ASSUME RadioInv, WriteReply PROVE Kept
<1>1. ctl.st = "wset" /\ wr.cur # 0 /\ ~ wr.pause /\ set.cur = 0
  BY DEF WriteReply, ForWrite, From, RadioInv, OneOwner
<1>2. misfiled' \subseteq {"quiet", "node", "command"}
  BY WrongIs DEF WriteReply, RadioInv, Types
<1>3. CASE wr.step = 0
  <2>1. PICK said \in {"ok", "err"} :
          /\ wr' = [wr EXCEPT !.said = said, !.step = 1, !.pause = TRUE]
          /\ UNCHANGED <<ctl, mon, some, round, set, clk>>
    BY <1>3 DEF WriteReply
  <2> DEFINE u == [wr EXCEPT !.said = said]
             x == [u EXCEPT !.step = 1]
             v == [x EXCEPT !.pause = TRUE]
  <2>2. wr \in Writes
    BY DEF RadioInv, Types
  <2>3. u \in Writes
    BY <2>2, WriteKept
  <2>4. x \in Writes
    <3> HIDE DEF u
    <3>1. 1 \in 0..1
      OBVIOUS
    <3> QED
      BY <2>3, <3>1, WriteKept
  <2>5. v \in Writes
    <3> HIDE DEF x
    <3> QED
      BY <2>4, WriteKept
  <2>6. /\ wr' = v /\ v.said = said /\ v.step = 1 /\ v.pause = TRUE
        /\ v.cur = wr.cur /\ v.req = wr.req /\ v.node = wr.node /\ v.sent = wr.sent
        /\ v.read = wr.read /\ v.hit = wr.hit /\ v.moved = wr.moved
    BY <2>1, <2>2 DEF Writes
  <2> HIDE DEF v
  <2>7. Types'
    BY <1>2, <2>1, <2>5, <2>6 DEF RadioInv, Types
  <2>8. OneOwner' /\ Shape' /\ Aimed' /\ SetOnlyToAsked'
    BY <1>1, <2>1, <2>6 DEF RadioInv, OneOwner, Shape, Aimed, SetOnlyToAsked
  <2>9. [Write!Next]_(Write!wvars)
    BY <1>1, <1>3, <2>1, <2>6
       DEF Write!Next, Write!SetAnswered, Write!wvars, Stage
  <2> QED
    BY <2>7, <2>8, <2>9 DEF RadioInv, Kept
<1>4. CASE wr.step # 0
  <2>1. PICK read \in BOOLEAN : WriteFinish([wr EXCEPT !.read = read], mon)
    BY <1>4 DEF WriteReply
  <2>2. Stage = "get"
    BY <1>1, <1>4 DEF Stage
  <2>3. SameKeys(mon, mon) /\ clk' \in Clocks /\ UNCHANGED <<some, round, set>>
    BY KeysKept DEF WriteReply, RadioInv, Types
  <2> QED
    BY <1>1, <1>2, <2>1, <2>2, <2>3, WriteStops DEF RadioInv, Types
<1> QED
  BY <1>3, <1>4

LEMMA LoginReplyKeeps ==
  ASSUME RadioInv, LoginReply, From(ctl.cur), ctl.st = "login", UNCHANGED <<round, misfiled>>
  PROVE  Kept
<1> DEFINE l == SetIn(mon, ctl.cur, TRUE)
<1>0. /\ mon \in Seq(Entries) /\ ctl \in Controls /\ set \in Sweeps /\ wr \in Writes
      /\ clk \in Clocks /\ some \in BOOLEAN /\ round \in 0..(BackoffEvery - 1)
      /\ misfiled \subseteq {"quiet", "node", "command"}
  BY DEF RadioInv, Types
<1>t. TRUE \in BOOLEAN
  OBVIOUS
<1>k. SameKeys(mon, SetIn(mon, ctl.cur, TRUE))
  BY <1>0, <1>t, KeysKept
<1>1. SameKeys(mon, l) /\ l \in Seq(Entries)
  BY <1>k DEF SameKeys
<1>2. ctl.cur # 0
  BY DEF From
<1>3. CASE wr.cur # 0
  <2>1. WriteSend(wr, l, ctl) /\ UNCHANGED <<some, set, clk>>
    BY <1>3 DEF LoginReply
  <2>2. wr.pause = FALSE
    BY <1>0, <1>3, WriteKept DEF RadioInv, Shape
  <2>3. [wr EXCEPT !.pause = FALSE] = wr
    BY <1>0, <2>2 DEF Writes
  <2> HIDE DEF l
  <2> QED
    BY <1>0, <1>1, <1>3, <2>1, <2>3, WriteGoesOn
<1>4. CASE wr.cur = 0 /\ set.cur # 0
  <2>1. SettingsSend(set, l, ctl) /\ UNCHANGED <<some, wr, clk>>
    BY <1>4 DEF LoginReply
  <2> HIDE DEF l
  <2>2. SweepGoesOn(set, l, ctl)
    BY <1>0, <1>1, <2>1, SweepEffect
  <2>3. Others
    BY <1>0, <1>1, <1>2, <1>4, <2>1, <2>2 DEF Others, SweepGoesOn, RadioInv, Shape, Idle
  <2> QED
    BY <2>3, OthersKeep
<1>5. CASE wr.cur = 0 /\ set.cur = 0 /\ clk.cur # 0
  <2>1. ClockSend(clk, l, ctl) /\ UNCHANGED <<some, wr, set>>
    BY <1>5 DEF LoginReply
  <2> HIDE DEF l
  <2>2. RunGoesOn(l, ctl)
    BY <1>0, <1>1, <2>1, ClockEffect
  <2>3. Others
    BY <1>0, <1>1, <1>2, <1>5, <2>1, <2>2 DEF Others, RunGoesOn, RadioInv, Shape, Idle
  <2> QED
    BY <2>3, OthersKeep
<1>6. CASE wr.cur = 0 /\ set.cur = 0 /\ clk.cur = 0
  <2>1. StepOrEnd(1, l, some) /\ UNCHANGED <<set, wr, clk>>
    BY <1>6 DEF LoginReply, job
  <2>2. 1 \in 1..3
    OBVIOUS
  <2> HIDE DEF l
  <2>3. /\ SameKeys(l, mon') /\ ctl' \in Controls /\ some' = some
        /\ ctl'.st \in {"req", "telem", "nbr", "gap"} /\ ctl'.cur = ctl.cur
    BY <1>0, <1>1, <1>2, <2>1, <2>2, TurnEffect
  <2>4. Others
    BY <1>0, <1>2, <1>6, <2>1, <2>3 DEF Others, SameKeys
  <2> QED
    BY <2>4, OthersKeep
<1> QED
  BY <1>3, <1>4, <1>5, <1>6

LEMMA ResponseKeeps == ASSUME RadioInv, Response PROVE Kept
<1>0. /\ mon \in Seq(Entries) /\ ctl \in Controls /\ set \in Sweeps /\ wr \in Writes
      /\ clk \in Clocks /\ some \in BOOLEAN /\ round \in 0..(BackoffEvery - 1)
      /\ misfiled \subseteq {"quiet", "node", "command"} /\ UNCHANGED <<round, misfiled>>
  BY DEF RadioInv, Types, Response
<1>1. CASE From(ctl.cur) /\ ctl.st = "login" /\ LoginReply
  BY <1>0, <1>1, LoginReplyKeeps
<1>2. ASSUME From(ctl.cur), NEW g \in {some, TRUE}, UNCHANGED job,
             \/ ctl.st = "req" /\ StepOrEnd(2, mon, g)
             \/ ctl.st = "telem" /\ StepOrEnd(3, mon, g)
      PROVE  Kept
  <2>a. 2 \in 1..3 /\ 3 \in 1..3
    OBVIOUS
  <2>b. g \in BOOLEAN
    BY <1>0
  <2>c. ctl.cur # 0
    BY <1>2 DEF From
  <2>1. 2 \in 1..3 /\ 3 \in 1..3 /\ g \in BOOLEAN /\ ctl.cur # 0
    BY <2>a, <2>b, <2>c
  <2>2. /\ SameKeys(mon, mon') /\ ctl' \in Controls /\ some' = g
        /\ ctl'.st \in {"req", "telem", "nbr", "gap"} /\ ctl'.cur = ctl.cur
    BY <1>0, <1>2, <2>1, TurnEffect
  <2>3. wr.cur = 0
    BY <1>2 DEF RadioInv, OneOwner
  <2>4. Others
    BY <1>0, <1>2, <2>1, <2>2, <2>3 DEF Others, SameKeys, job, RadioInv, Shape
  <2> QED
    BY <2>4, OthersKeep
<1>3. ASSUME From(ctl.cur), NEW g \in {some, TRUE}, UNCHANGED job, ctl.st = "nbr",
             some' = g, ctl' = Gap(ctl.cur),
             mon' = mon \/ (g /\ mon' = Cleared(mon, ctl.cur))
      PROVE  Kept
  <2>1. ctl' \in Controls /\ ctl'.st = "gap" /\ ctl'.cur = ctl.cur
    BY <1>0, <1>3 DEF Gap, Controls, States
  <2>2. mon' \in Seq(Entries)
    BY <1>0, <1>3, KeysKept DEF SameKeys
  <2>3. wr.cur = 0
    BY <1>3 DEF RadioInv, OneOwner
  <2>4. Others
    BY <1>0, <1>3, <2>1, <2>2, <2>3 DEF Others, job, RadioInv, Shape
  <2> QED
    BY <2>4, OthersKeep
<1>4. CASE UNCHANGED <<mon, ctl, some, job, air>>
  <2>1. Types' /\ OneOwner' /\ Shape' /\ Aimed' /\ SetOnlyToAsked'
    BY <1>0, <1>4
       DEF RadioInv, job, Types, OneOwner, Shape, Aimed, SetOnlyToAsked
  <2>2. UNCHANGED Write!wvars
    BY <1>4 DEF job, Write!wvars, Stage
  <2> QED
    BY <2>1, <2>2 DEF RadioInv, Kept
<1> QED
  BY <1>1, <1>2, <1>3, <1>4 DEF Response

LEMMA ReplyKeeps == ASSUME RadioInv, Reply PROVE Kept
BY IgnoredKeeps, SettingsReplyKeeps, ClockReplyKeeps, WriteReplyKeeps, ResponseKeeps
   DEF Reply

----------------------------------------------------------------------------
(* The states of the machine *)

LEMMA LoginTimerKeeps == ASSUME RadioInv, LoginTimer, UNCHANGED misfiled PROVE Kept
<1>0. /\ mon \in Seq(Entries) /\ ctl \in Controls /\ set \in Sweeps /\ wr \in Writes
      /\ clk \in Clocks /\ some \in BOOLEAN /\ round \in 0..(BackoffEvery - 1)
      /\ misfiled' \subseteq {"quiet", "node", "command"} /\ UNCHANGED <<some, round>>
      /\ ctl.st = "login" /\ ctl.cur # 0 /\ SameKeys(mon, mon)
  BY KeysKept DEF RadioInv, Types, OneOwner, LoginTimer
<1>1. CASE ctl' = [ctl EXCEPT !.retry = 1] /\ UNCHANGED <<mon, job>>
  <2>1. ctl' \in Controls /\ ctl'.st = "login" /\ ctl'.cur = ctl.cur
    BY <1>0, <1>1 DEF Controls
  <2>2. Types' /\ OneOwner' /\ Shape' /\ Aimed' /\ SetOnlyToAsked'
    BY <1>0, <1>1, <2>1
       DEF RadioInv, job, Types, OneOwner, Shape, Aimed, SetOnlyToAsked
  <2>3. UNCHANGED Write!wvars
    BY <1>0, <1>1, <2>1 DEF job, Write!wvars, Stage
  <2> QED
    BY <2>2, <2>3 DEF RadioInv, Kept
<1>2. CASE wr.cur # 0 /\ WriteFinish(wr, mon) /\ UNCHANGED <<set, clk>>
  <2>1. wr.read \in BOOLEAN /\ [wr EXCEPT !.read = wr.read] = wr
    BY <1>0 DEF Writes
  <2> QED
    BY <1>0, <1>2, <2>1, WriteStops
<1>3. CASE wr.cur = 0 /\ set.cur # 0 /\ SettingsFinish(set, mon) /\ UNCHANGED <<wr, clk>>
  <2>1. SweepGoesOn(set, mon, ctl)
    BY <1>0, <1>3, SweepEffect
  <2>2. Others
    BY <1>0, <1>3, <2>1 DEF Others, SweepGoesOn, RadioInv, Shape, Idle
  <2> QED
    BY <2>2, OthersKeep
<1>4. CASE /\ wr.cur = 0
           /\ ClockNodeDone([clk EXCEPT !.silent = @ + 1], mon) /\ UNCHANGED <<set, wr>>
  <2> DEFINE c == [clk EXCEPT !.silent = clk.silent + 1]
  <2>a. clk.silent \in Nat
    BY <1>0, ClockKept
  <2>1. clk.silent + 1 \in Nat
    BY <2>a
  <2>2. c \in Clocks
    BY <1>0, <2>1, ClockKept
  <2>3. ClockNodeDone(c, mon)
    BY <1>4
  <2> HIDE DEF c
  <2>4. RunGoesOn(mon, ctl)
    BY <1>0, <2>2, <2>3, ClockEffect
  <2>5. Others
    BY <1>0, <1>4, <2>4 DEF Others, RunGoesOn, RadioInv, Shape, Idle
  <2> QED
    BY <2>5, OthersKeep
<1>5. CASE /\ wr.cur = 0 /\ mon' = Failed(mon, ctl.cur) /\ ctl' = Gap(ctl.cur)
           /\ UNCHANGED job
  <2>1. ctl' \in Controls /\ ctl'.st = "gap"
    BY <1>0, <1>5 DEF Gap, Controls, States
  <2>2. mon' \in Seq(Entries)
    BY <1>0, <1>5, KeysKept DEF SameKeys
  <2>3. Others
    BY <1>0, <1>5, <2>1, <2>2 DEF Others, job, RadioInv, Shape
  <2> QED
    BY <2>3, OthersKeep
<1> QED
  BY <1>1, <1>2, <1>3, <1>4, <1>5 DEF LoginTimer

\* The timers of a poll round, while no write runs.
LEMMA PollTimerKeeps ==
  ASSUME RadioInv, ReqTimer \/ TelemTimer \/ NbrTimer \/ GapTimer, UNCHANGED misfiled
  PROVE  Kept
<1>0. /\ mon \in Seq(Entries) /\ ctl \in Controls /\ set \in Sweeps /\ wr \in Writes
      /\ clk \in Clocks /\ some \in BOOLEAN /\ round \in 0..(BackoffEvery - 1)
      /\ misfiled' \subseteq {"quiet", "node", "command"} /\ wr.cur = 0 /\ UNCHANGED job
      /\ set.cur # 0 => wr.req = None
  BY DEF RadioInv, Types, OneOwner, Shape, ReqTimer, TelemTimer, NbrTimer, GapTimer
<1>1. 2 \in 1..3 /\ 3 \in 1..3
  OBVIOUS
<1>2. CASE ctl.st \in {"req", "telem"} /\ UNCHANGED round
           /\ (StepOrEnd(2, mon, some) \/ StepOrEnd(3, mon, some))
  <2>1. ctl.cur # 0
    BY <1>2 DEF RadioInv, OneOwner
  <2>2. /\ SameKeys(mon, mon') /\ ctl' \in Controls /\ some' = some
        /\ ctl'.st \in {"req", "telem", "nbr", "gap"} /\ ctl'.cur = ctl.cur
    BY <1>0, <1>1, <1>2, <2>1, TurnEffect
  <2>3. Others
    BY <1>0, <1>2, <2>1, <2>2 DEF Others, SameKeys, job
  <2> QED
    BY <2>3, OthersKeep
<1>3. CASE /\ ctl.st = "req" /\ ctl' = [ctl EXCEPT !.retry = 1]
           /\ UNCHANGED <<mon, some, round>>
  <2>1. ctl' \in Controls /\ ctl'.st = "req" /\ ctl'.cur = ctl.cur /\ ctl.cur # 0
    BY <1>0, <1>3 DEF Controls, RadioInv, OneOwner
  <2>2. Others
    BY <1>0, <1>3, <2>1 DEF Others, job
  <2> QED
    BY <2>2, OthersKeep
<1>4. CASE NbrTimer
  <2>1. ctl' \in Controls /\ ctl'.st = "gap"
    BY <1>0, <1>4 DEF NbrTimer, Gap, Controls, States
  <2>2. SameKeys(mon, Failed(mon, ctl.cur)) /\ SameKeys(mon, Cleared(mon, ctl.cur))
    BY <1>0, KeysKept
  <2>3. SetIn(Failed(mon, ctl.cur), ctl.cur, FALSE) \in Seq(Entries)
    BY <2>2, KeysKept DEF SameKeys
  <2>4. mon' \in Seq(Entries) /\ UNCHANGED <<some, round>>
    BY <1>4, <2>2, <2>3 DEF NbrTimer, SameKeys
  <2>5. Others
    BY <1>0, <2>1, <2>4 DEF Others, job
  <2> QED
    BY <2>5, OthersKeep
<1>5. CASE GapTimer
  <2>1. ctl.cur \in Nat /\ MonitorAdvance(mon, ctl.cur)
    BY <1>0, <1>5 DEF GapTimer, Controls
  <2>2. /\ SameKeys(mon, mon') /\ ctl' \in Controls
        /\ \/ ctl' = Idle
           \/ ctl'.st \in {"login", "req", "telem", "nbr"} /\ ctl'.cur # 0
        /\ some' \in BOOLEAN /\ round' \in 0..(BackoffEvery - 1)
    BY <1>0, <2>1, AdvanceEffect
  <2>3. Others
    BY <1>0, <2>2 DEF Others, SameKeys, job, Idle
  <2> QED
    BY <2>3, OthersKeep
<1> QED
  BY <1>2, <1>3, <1>4, <1>5 DEF ReqTimer, TelemTimer

LEMMA CliTimerKeeps == ASSUME RadioInv, CliTimer, UNCHANGED misfiled PROVE Kept
<1> DEFINE s == [set EXCEPT !.silent = @ + 1]
           p == [set EXCEPT !.pause = FALSE]
<1>0. /\ mon \in Seq(Entries) /\ ctl \in Controls /\ set \in Sweeps /\ clk \in Clocks
      /\ some \in BOOLEAN /\ round \in 0..(BackoffEvery - 1)
      /\ misfiled' \subseteq {"quiet", "node", "command"} /\ UNCHANGED <<some, round, wr, clk>>
  BY DEF RadioInv, Types, CliTimer
<1>1. ctl.st = "cli" /\ set.cur # 0 /\ wr.cur = 0 /\ wr.req = None /\ ctl.cur # 0
  BY DEF RadioInv, OneOwner, Shape, CliTimer
<1>2. ASSUME NEW t \in Sweeps, t.cur = set.cur, NEW l \in Seq(Entries),
             SweepGoesOn(t, l, ctl)
      PROVE  Kept
  <2>1. Others
    BY <1>0, <1>1, <1>2 DEF Others, SweepGoesOn, Idle, RadioInv, Shape
  <2> QED
    BY <2>1, OthersKeep
<1>3. CASE SettingsSend(p, mon, ctl)
  <2>1. p \in Sweeps
    BY <1>0, SweepKept
  <2>2. p.cur = set.cur
    BY <1>0 DEF Sweeps
  <2> HIDE DEF p
  <2> QED
    BY <1>0, <1>2, <1>3, <2>1, <2>2, SweepEffect
<1>4. ASSUME NEW l \in Seq(Entries), SettingsFinish(s, l)
      PROVE  Kept
  <2>1. s.req = set.req
    BY <1>0 DEF Sweeps
  <2>2. SettingsFinish(set, l)
    BY <1>4, <2>1 DEF SettingsFinish
  <2>3. SweepGoesOn(set, l, ctl)
    BY <1>0, <2>2, SweepEffect
  <2> QED
    BY <1>0, <1>2, <2>3
<1>5. CASE s.silent < SetSilentMax /\ SettingsAdvance(s, mon, ctl)
  <2> DEFINE t == [set EXCEPT !.silent = set.silent + 1]
  <2>1. set.silent \in 0..SetSilentMax /\ s.silent = set.silent + 1
    BY <1>0 DEF Sweeps
  <2>2. set.silent + 1 \in 0..SetSilentMax
    BY <1>5, <2>1, Numbers
  <2>3. t \in Sweeps
    BY <1>0, <2>2, SweepKept
  <2>4. SettingsAdvance(t, mon, ctl)
    BY <1>5
  <2>5. t.cur = set.cur
    BY <1>0 DEF Sweeps
  <2> HIDE DEF t, s
  <2> QED
    BY <1>0, <1>2, <2>3, <2>4, <2>5, SweepEffect
<1>6. SetIn(mon, set.cur, FALSE) \in Seq(Entries)
  BY <1>0, KeysKept DEF SameKeys
<1>7. s.silent \in Nat
  <2>1. set.silent \in 0..SetSilentMax /\ s.silent = set.silent + 1
    BY <1>0 DEF Sweeps
  <2> QED
    BY <2>1, Numbers
<1>8. \/ SettingsSend(p, mon, ctl)
      \/ SettingsFinish(s, SetIn(mon, set.cur, FALSE)) \/ SettingsFinish(s, mon)
      \/ ~ (s.silent >= SetSilentMax) /\ SettingsAdvance(s, mon, ctl)
  BY DEF CliTimer
<1>9. ~ (s.silent >= SetSilentMax) => s.silent < SetSilentMax
  <2> HIDE DEF s
  <2> QED
    BY <1>7, Numbers
<1> HIDE DEF s, p
<1> QED
  BY <1>0, <1>3, <1>4, <1>5, <1>6, <1>8, <1>9

LEMMA ClkTimerKeeps == ASSUME RadioInv, ClkTimer, UNCHANGED misfiled PROVE Kept
<1> DEFINE c == IF clk.step = 0 THEN [clk EXCEPT !.silent = clk.silent + 1] ELSE clk
           l == IF c.step = 0 /\ c.silent >= ClkSilentMax
                THEN SetIn(mon, clk.cur, FALSE) ELSE mon
<1>0. /\ mon \in Seq(Entries) /\ ctl \in Controls /\ set \in Sweeps /\ clk \in Clocks
      /\ some \in BOOLEAN /\ round \in 0..(BackoffEvery - 1)
      /\ misfiled' \subseteq {"quiet", "node", "command"} /\ UNCHANGED <<some, round, set, wr>>
      /\ ctl.st = "clk" /\ wr.cur = 0 /\ set.cur # 0 => wr.req = None
  BY DEF RadioInv, Types, ClkTimer, OneOwner, Shape
<1>1. c \in Clocks
  <2>1. clk.silent \in Nat
    BY <1>0, ClockKept
  <2>2. clk.silent + 1 \in Nat
    BY <2>1
  <2>3. [clk EXCEPT !.silent = clk.silent + 1] \in Clocks
    BY <1>0, <2>2, ClockKept
  <2> QED
    BY <1>0, <2>3
<1>2. l \in Seq(Entries)
  <2>1. SameKeys(mon, SetIn(mon, clk.cur, FALSE))
    BY <1>0, KeysKept
  <2> QED
    BY <1>0, <2>1 DEF SameKeys
<1>3. \/ ctl' = Idle /\ UNCHANGED <<mon, clk>>
      \/ ClockFinish(mon) \/ ClockNodeDone(c, l)
  BY DEF ClkTimer
<1>4. ctl.cur # 0 /\ (set.cur # 0 => wr.req = None) /\ wr.cur = 0 /\ ctl.st = "clk"
  BY DEF RadioInv, OneOwner, Shape, ClkTimer
<1> HIDE DEF c, l
<1>5. CASE ctl' = Idle /\ UNCHANGED <<mon, clk>>
  <2>1. Others
    BY <1>0, <1>4, <1>5, Fresh DEF Others, Idle
  <2> QED
    BY <2>1, OthersKeep
<1>6. ASSUME NEW m \in Seq(Entries), RunGoesOn(m, ctl) PROVE Kept
  <2>1. Others
    BY <1>0, <1>4, <1>6 DEF Others, RunGoesOn, Idle
  <2> QED
    BY <2>1, OthersKeep
<1>7. CASE ClockFinish(mon)
  BY <1>0, <1>6, <1>7, ClockEffect
<1>8. CASE ClockNodeDone(c, l)
  BY <1>0, <1>1, <1>2, <1>6, <1>8, ClockEffect
<1> QED
  BY <1>3, <1>5, <1>7, <1>8

LEMMA WsetTimerKeeps == ASSUME RadioInv, WsetTimer, UNCHANGED misfiled PROVE Kept
<1>0. /\ mon \in Seq(Entries) /\ wr \in Writes /\ clk' \in Clocks
      /\ misfiled' \subseteq {"quiet", "node", "command"} /\ UNCHANGED <<some, round, set>>
      /\ ctl.st = "wset"
  BY DEF RadioInv, Types, WsetTimer
<1>1. wr.cur # 0
  BY <1>0 DEF RadioInv, OneOwner
<1>2. SameKeys(mon, mon) /\ SameKeys(mon, SetIn(mon, wr.cur, FALSE))
  BY <1>0, KeysKept
<1>3. CASE wr.pause
  <2>1. WriteSend([wr EXCEPT !.pause = FALSE], mon, ctl)
    BY <1>3 DEF WsetTimer
  <2> QED
    BY <1>0, <1>1, <1>2, <1>3, <2>1, WriteGoesOn
<1>4. ASSUME NEW l \in Seq(Entries), SameKeys(mon, l), WriteFinish(wr, l)
      PROVE  Kept
  <2>1. wr.read \in BOOLEAN /\ [wr EXCEPT !.read = wr.read] = wr
    BY <1>0 DEF Writes
  <2>2. WriteFinish([wr EXCEPT !.read = wr.read], l)
    BY <1>4, <2>1
  <2> QED
    BY <1>0, <1>1, <1>4, <2>1, <2>2, WriteStops
<1>5. CASE ~ wr.pause
  <2>1. WriteFinish(wr, SetIn(mon, wr.cur, FALSE)) \/ WriteFinish(wr, mon)
    BY <1>5 DEF WsetTimer
  <2>2. SetIn(mon, wr.cur, FALSE) \in Seq(Entries)
    BY <1>2 DEF SameKeys
  <2> QED
    BY <1>0, <1>2, <1>4, <2>1, <2>2
<1> QED
  BY <1>3, <1>5

\* A write as it begins, at place i for node n.
Begun(i, n, w) ==
  /\ w \in Writes /\ w.cur = i /\ w.node = n
  /\ w.req = None /\ w.step = 0 /\ w.pause = FALSE /\ w.sent = FALSE
  /\ w.said = "no" /\ w.read = FALSE /\ w.hit = <<>> /\ w.moved = FALSE

LEMMA NewWrite ==
  ASSUME NEW i \in Nat, NEW n \in Nodes \cup {None}
  PROVE  Begun(i, n, [NoWrite EXCEPT !.cur = i, !.node = n])
<1> DEFINE u == [NoWrite EXCEPT !.cur = i]
           w == [u EXCEPT !.node = n]
<1>1. u \in Writes
  BY Fresh, WriteKept
<1>3. w \in Writes
  <2> HIDE DEF u
  <2> QED
    BY <1>1, WriteKept
<1>4. /\ w.cur = i /\ w.node = n
      /\ w.req = None /\ w.step = 0 /\ w.pause = FALSE /\ w.sent = FALSE
      /\ w.said = "no" /\ w.read = FALSE /\ w.hit = <<>> /\ w.moved = FALSE
  BY DEF NoWrite
<1>5. w = [NoWrite EXCEPT !.cur = i, !.node = n]
  OBVIOUS
<1> HIDE DEF w
<1> QED
  BY <1>3, <1>4, <1>5 DEF Begun

LEMMA OwnTurn ==
  ASSUME NEW i \in Nat
  PROVE  [Idle EXCEPT !.cur = i] \in Controls /\ [Idle EXCEPT !.cur = i].cur = i
BY DEF Idle, Controls, States

\* The request for a write is taken, by the entry that has its key by now.
LEMMA WriteBeginKeeps ==
  ASSUME RadioInv, ctl.st = "idle", wr.req # None, WriteBegin,
         UNCHANGED <<some, round, set, clk, misfiled>>
  PROVE  Kept
<1>0. /\ mon \in Seq(Entries) /\ ctl \in Controls /\ wr \in Writes
      /\ wr.req \in Nodes \cup {None}
  <2>1. wr \in Writes
    BY DEF RadioInv, Types
  <2> QED
    BY <2>1, WriteKept DEF RadioInv, Types
<1>1. wr.cur = 0 /\ set.cur = 0
  BY DEF RadioInv, OneOwner, Shape
<1>2. CASE wr' = [wr EXCEPT !.req = None] /\ UNCHANGED <<mon, ctl>>
  <2>1. /\ wr' \in Writes /\ wr'.req = None
        /\ wr'.cur = wr.cur /\ wr'.step = wr.step /\ wr'.pause = wr.pause
        /\ wr'.node = wr.node /\ wr'.sent = wr.sent /\ wr'.said = wr.said
        /\ wr'.read = wr.read /\ wr'.hit = wr.hit /\ wr'.moved = wr.moved
    <3>1. [wr EXCEPT !.req = None] \in Writes
      BY <1>0, WriteKept
    <3> QED
      BY <1>0, <1>2, <3>1 DEF Writes
  <2>2. Types'
    BY <1>2, <2>1 DEF RadioInv, Types
  <2>3. OneOwner' /\ Shape' /\ Aimed' /\ SetOnlyToAsked'
    BY <1>2, <2>1 DEF RadioInv, OneOwner, Shape, Aimed, SetOnlyToAsked
  <2>4. [Write!Next]_(Write!wvars)
    BY <1>1, <1>2, <2>1 DEF Write!Next, Write!Expire, Write!wvars, Stage
  <2> QED
    BY <2>2, <2>3, <2>4 DEF RadioInv, Kept
<1>3. ASSUME NEW i \in Places(mon, wr.req), Reachable(mon, i), NEW w,
             w = [NoWrite EXCEPT !.cur = i, !.node = wr.req],
             \/ WriteSend(w, mon, [Idle EXCEPT !.cur = i])
             \/ Login(mon, i) /\ wr' = w
             \/ WriteFinish(w, mon)
      PROVE  Kept
  <2>1. i \in DOMAIN mon /\ mon[i].node = wr.req /\ mon[i].full /\ i \in Nat \ {0}
    BY <1>0, <1>3, ListIs DEF Places, Reachable
  <2>2. /\ w \in Writes /\ w.cur = i /\ w.node = wr.req
        /\ w.req = None /\ w.step = 0 /\ w.pause = FALSE /\ w.sent = FALSE
        /\ w.said = "no" /\ w.read = FALSE /\ w.hit = <<>> /\ w.moved = FALSE
    <3>1. i \in Nat
      BY <2>1
    <3>2. w = [NoWrite EXCEPT !.cur = i, !.node = wr.req]
      BY <1>3
    <3>3. wr.req \in Nodes \cup {None}
      BY <1>0
    <3>4. Begun(i, wr.req, [NoWrite EXCEPT !.cur = i, !.node = wr.req])
      BY <3>1, <3>3, NewWrite
    <3>5. Begun(i, wr.req, w)
      BY <3>2, <3>4
    <3> QED
      BY <3>5 DEF Begun
  <2>3. CASE Ended(w, wr') /\ ctl' = Idle /\ mon' = mon
    <3>1. Types'
      BY <2>3, Fresh DEF RadioInv, Types, Ended
    <3>2. OneOwner' /\ Shape' /\ Aimed' /\ SetOnlyToAsked'
      BY <1>1, <2>2, <2>3
         DEF RadioInv, Ended, OneOwner, Shape, Aimed, SetOnlyToAsked, Idle
    <3>3. Write!Begin
      BY <1>1, <2>2, <2>3 DEF Ended, Write!Begin, Stage
    <3> QED
      BY <3>1, <3>2, <3>3 DEF RadioInv, Kept, Write!Next
  <2>4. CASE Login(mon, i) /\ wr' = w
    <3>1. mon' = mon /\ ctl' \in Controls /\ ctl'.st = "login" /\ ctl'.cur = i
      BY <1>0, <2>1, <2>4, LoginEffect
    <3>2. Types'
      BY <2>2, <2>4, <3>1 DEF RadioInv, Types
    <3>3. OneOwner' /\ Shape' /\ Aimed' /\ SetOnlyToAsked'
      BY <1>1, <2>1, <2>2, <2>4, <3>1
         DEF RadioInv, OneOwner, Shape, Aimed, SetOnlyToAsked
    <3>4. Write!Begin
      BY <1>1, <2>1, <2>2, <2>4, <3>1 DEF Write!Begin, Stage
    <3> QED
      BY <3>2, <3>3, <3>4 DEF RadioInv, Kept, Write!Next
  <2>5. CASE /\ Left(w, mon, wr') /\ mon' = mon
             /\ ctl' \in Controls /\ ctl'.st = "wset" /\ ctl'.cur = i
    <3>1. PICK j \in At(mon, MeshIdx(mon, i)) : wr'.hit = Append(<<>>, mon[j].node)
      BY <2>2, <2>5 DEF Left
    <3>2. j = i
      BY <1>0, <2>1, <3>1, AtOwn
    <3>3. wr'.hit = <<wr.req>>
      BY <2>1, <3>1, <3>2
    <3>4. /\ wr' \in Writes /\ wr'.cur = i /\ wr'.step = 0 /\ wr'.pause = FALSE
          /\ wr'.sent = TRUE /\ wr'.req = None /\ wr'.node = wr.req
          /\ wr'.said = "no" /\ wr'.read = FALSE /\ wr'.moved = FALSE
      BY <2>2, <2>5 DEF Left
    <3>5. Types'
      BY <2>5, <3>4 DEF RadioInv, Types
    <3>6. OneOwner' /\ Shape' /\ Aimed' /\ SetOnlyToAsked'
      BY <1>1, <2>1, <2>5, <3>3, <3>4
         DEF RadioInv, OneOwner, Shape, Aimed, SetOnlyToAsked
    <3>7. Len(<<wr.req>>) = 1
      OBVIOUS
    <3>8. Write!Begin
      BY <1>1, <2>1, <2>5, <3>3, <3>4, <3>7 DEF Write!Begin, Stage
    <3> QED
      BY <3>5, <3>6, <3>8 DEF RadioInv, Kept, Write!Next
  <2>6. CASE WriteSend(w, mon, [Idle EXCEPT !.cur = i])
    <3>1. [Idle EXCEPT !.cur = i] \in Controls /\ [Idle EXCEPT !.cur = i].cur = i
      BY <2>1, OwnTurn
    <3> QED
      BY <1>0, <2>2, <2>3, <2>5, <2>6, <3>1, WriteEffect
  <2>7. CASE WriteFinish(w, mon)
    BY <2>2, <2>3, <2>7, EndedIs DEF WriteFinish
  <2> QED
    BY <1>3, <2>4, <2>6, <2>7
<1>4. ASSUME NEW i \in Places(mon, wr.req), Reachable(mon, i),
             IF mon[i].in
             THEN WriteSend([NoWrite EXCEPT !.cur = i, !.node = wr.req], mon,
                            [Idle EXCEPT !.cur = i])
             ELSE \/ Login(mon, i) /\ wr' = [NoWrite EXCEPT !.cur = i, !.node = wr.req]
                  \/ WriteFinish([NoWrite EXCEPT !.cur = i, !.node = wr.req], mon)
      PROVE  Kept
  BY <1>3, <1>4
<1> QED
  BY <1>2, <1>4 DEF WriteBegin

LEMMA NewSweep ==
  ASSUME NEW i \in Nat, NEW n \in Nodes \cup {None},
         NEW s, s = [NoSweep EXCEPT !.cur = i, !.node = n]
  PROVE  s \in Sweeps /\ s.cur = i /\ s.req = None
<1>1. 1 \in 1..ParamCount /\ 0 \in 0..SetSilentMax
  BY Numbers
<1> QED
  BY <1>1 DEF NoSweep, Sweeps

LEMMA SettingsBeginKeeps ==
  ASSUME RadioInv, ctl.st = "idle", wr.req = None, SettingsBegin,
         UNCHANGED <<some, round, wr, clk, misfiled>>
  PROVE  Kept
<1>0. /\ mon \in Seq(Entries) /\ ctl \in Controls /\ set \in Sweeps /\ clk \in Clocks
      /\ some \in BOOLEAN /\ round \in 0..(BackoffEvery - 1)
      /\ misfiled' \subseteq {"quiet", "node", "command"} /\ wr.cur = 0
  BY DEF RadioInv, Types, OneOwner
<1>1. CASE set' = [set EXCEPT !.req = None] /\ UNCHANGED <<mon, ctl>>
  <2>1. set' \in Sweeps
    BY <1>0, <1>1, SweepKept
  <2>2. Others
    BY <1>0, <1>1, <2>1 DEF Others, RadioInv, OneOwner
  <2> QED
    BY <2>2, OthersKeep
<1>2. ASSUME NEW i \in Places(mon, set.req), NEW s,
             s = [NoSweep EXCEPT !.cur = i, !.node = set.req],
             \/ SettingsSend(s, mon, [Idle EXCEPT !.cur = i])
             \/ Login(mon, i) /\ set' = s
             \/ SettingsFinish(s, mon)
      PROVE  Kept
  <2>1. i \in Nat \ {0} /\ i \in Nat
    BY <1>0, ListIs DEF Places
  <2>2. set.req \in Nodes \cup {None}
    BY <1>0 DEF Sweeps
  <2>3. s \in Sweeps /\ s.cur = i /\ s.req = None
    BY <1>2, <2>1, <2>2, NewSweep
  <2>4. [Idle EXCEPT !.cur = i] \in Controls /\ [Idle EXCEPT !.cur = i].cur = i
    BY <2>1, OwnTurn
  <2>5. CASE SweepGoesOn(s, mon, [Idle EXCEPT !.cur = i])
    <3>1. Others
      BY <1>0, <2>1, <2>3, <2>4, <2>5 DEF Others, SweepGoesOn, Idle
    <3> QED
      BY <3>1, OthersKeep
  <2>6. CASE Login(mon, i) /\ set' = s
    <3>1. mon' = mon /\ ctl' \in Controls /\ ctl'.st = "login" /\ ctl'.cur = i
      BY <1>0, <2>1, <2>6, LoginEffect
    <3>2. Others
      BY <1>0, <2>1, <2>3, <2>6, <3>1 DEF Others
    <3> QED
      BY <3>2, OthersKeep
  <2> QED
    BY <1>0, <1>2, <2>3, <2>4, <2>5, <2>6, SweepEffect
<1>3. ASSUME NEW i \in Places(mon, set.req),
             IF mon[i].in
             THEN SettingsSend([NoSweep EXCEPT !.cur = i, !.node = set.req], mon,
                               [Idle EXCEPT !.cur = i])
             ELSE \/ /\ Login(mon, i)
                     /\ set' = [NoSweep EXCEPT !.cur = i, !.node = set.req]
                  \/ SettingsFinish([NoSweep EXCEPT !.cur = i, !.node = set.req], mon)
      PROVE  Kept
  BY <1>2, <1>3
<1> QED
  BY <1>1, <1>3 DEF SettingsBegin

LEMMA ClockNext ==
  ASSUME NEW c \in Clocks, NEW i \in Nat
  PROVE  [c EXCEPT !.next = i + 1, !.cur = i, !.step = 0] \in Clocks
<1> DEFINE u == [c EXCEPT !.next = i + 1]
           x == [u EXCEPT !.cur = i]
<1>1. i + 1 \in Nat \ {0} /\ 0 \in 0..1
  OBVIOUS
<1>2. u \in Clocks
  BY <1>1, ClockKept
<1>3. x \in Clocks
  <2> HIDE DEF u
  <2> QED
    BY <1>2, ClockKept
<1>4. [x EXCEPT !.step = 0] \in Clocks
  <2> HIDE DEF x
  <2> QED
    BY <1>1, <1>3, ClockKept
<1> QED
  BY <1>4

LEMMA ClockAdvanceKeeps ==
  ASSUME RadioInv, ctl.st = "idle", wr.req = None, ClockAdvance,
         UNCHANGED <<some, round, wr, set, misfiled>>
  PROVE  Kept
<1>0. /\ mon \in Seq(Entries) /\ ctl \in Controls /\ set \in Sweeps /\ clk \in Clocks
      /\ some \in BOOLEAN /\ round \in 0..(BackoffEvery - 1)
      /\ misfiled' \subseteq {"quiet", "node", "command"} /\ wr.cur = 0
  BY DEF RadioInv, Types, OneOwner
<1>1. ASSUME NEW k \in Controls, RunGoesOn(mon, k), k.cur # 0
      PROVE  Kept
  <2>1. Others
    BY <1>0, <1>1 DEF Others, RunGoesOn, Idle
  <2> QED
    BY <2>1, OthersKeep
<1>2. CASE ClockFinish(mon)
  <2>1. [Idle EXCEPT !.cur = 1] \in Controls /\ [Idle EXCEPT !.cur = 1].cur = 1
    BY OwnTurn
  <2>2. RunGoesOn(mon, [Idle EXCEPT !.cur = 1])
    BY <1>0, <1>2, <2>1, ClockEffect
  <2>3. [Idle EXCEPT !.cur = 1].cur # 0
    BY <2>1
  <2> QED
    BY <1>1, <2>1, <2>2, <2>3
<1>3. ASSUME NEW i \in clk.next..Len(mon), NEW c,
             c = [clk EXCEPT !.next = i + 1, !.cur = i, !.step = 0],
             \/ ClockSend(c, mon, [Idle EXCEPT !.cur = i])
             \/ Login(mon, i) /\ clk' = c
             \/ ClockNodeDone(c, mon)
      PROVE  Kept
  <2>1. i \in Nat /\ i # 0
    <3>1. clk.next \in Nat \ {0}
      BY <1>0, ClockKept
    <3>2. Len(mon) \in Nat
      BY <1>0, ListIs
    <3> QED
      BY <3>1, <3>2
  <2>2. c \in Clocks
    BY <1>0, <1>3, <2>1, ClockNext
  <2>3. [Idle EXCEPT !.cur = i] \in Controls /\ [Idle EXCEPT !.cur = i].cur = i
    BY <2>1, OwnTurn
  <2>4. CASE ClockSend(c, mon, [Idle EXCEPT !.cur = i]) \/ ClockNodeDone(c, mon)
    <3>1. RunGoesOn(mon, [Idle EXCEPT !.cur = i])
      BY <1>0, <2>2, <2>3, <2>4, ClockEffect
    <3> QED
      BY <1>1, <2>1, <2>3, <3>1
  <2>5. CASE Login(mon, i) /\ clk' = c
    <3>1. mon' = mon /\ ctl' \in Controls /\ ctl'.st = "login" /\ ctl'.cur = i
      BY <1>0, <2>1, <2>5, LoginEffect
    <3>2. Others
      BY <1>0, <2>1, <2>2, <2>5, <3>1 DEF Others
    <3> QED
      BY <3>2, OthersKeep
  <2> QED
    BY <1>3, <2>4, <2>5
<1>4. ASSUME NEW i \in clk.next..Len(mon),
             IF mon[i].in
             THEN ClockSend([clk EXCEPT !.next = i + 1, !.cur = i, !.step = 0], mon,
                            [Idle EXCEPT !.cur = i])
             ELSE \/ /\ Login(mon, i)
                     /\ clk' = [clk EXCEPT !.next = i + 1, !.cur = i, !.step = 0]
                  \/ ClockNodeDone([clk EXCEPT !.next = i + 1, !.cur = i, !.step = 0], mon)
      PROVE  Kept
  BY <1>3, <1>4
<1> QED
  BY <1>2, <1>4 DEF ClockAdvance

LEMMA RoundStartKeeps ==
  ASSUME RadioInv, ctl.st = "idle", wr.req = None, RoundStart, UNCHANGED <<job, misfiled>>
  PROVE  Kept
<1>0. /\ mon \in Seq(Entries) /\ ctl \in Controls /\ set \in Sweeps /\ clk \in Clocks
      /\ some \in BOOLEAN /\ round \in 0..(BackoffEvery - 1)
      /\ misfiled' \subseteq {"quiet", "node", "command"} /\ wr.cur = 0
      /\ UNCHANGED <<set, wr, clk>>
  BY DEF RadioInv, Types, OneOwner, job
<1>1. ASSUME NEW l \in Seq(Entries), MonitorAdvance(l, 0) PROVE Kept
  <2>1. 0 \in Nat
    OBVIOUS
  <2>2. /\ SameKeys(l, mon') /\ ctl' \in Controls
        /\ \/ ctl' = Idle
           \/ ctl'.st \in {"login", "req", "telem", "nbr"} /\ ctl'.cur # 0
        /\ some' \in BOOLEAN /\ round' \in 0..(BackoffEvery - 1)
    BY <1>0, <1>1, <2>1, AdvanceEffect
  <2>3. Others
    BY <1>0, <2>2 DEF Others, SameKeys, Idle
  <2> QED
    BY <2>3, OthersKeep
<1>2. ASSUME NEW heard \in SUBSET DOMAIN mon
      PROVE  Synced([i \in DOMAIN mon |-> [mon[i] EXCEPT !.full = @ \/ i \in heard]])
               \in Seq(Entries)
  <2> DEFINE m == [i \in DOMAIN mon |-> [mon[i] EXCEPT !.full = mon[i].full \/ i \in heard]]
  <2>1. ASSUME NEW i \in DOMAIN mon
        PROVE  [mon[i] EXCEPT !.full = mon[i].full \/ i \in heard] \in Entries
    <3>1. mon[i] \in Entries
      BY <1>0
    <3>2. (mon[i].full \/ i \in heard) \in BOOLEAN
      BY Zenon
    <3> QED
      BY <3>1, <3>2, EntryKept
  <2>2. m \in Seq(Entries)
    BY <1>0, <2>1, ListIs
  <2> HIDE DEF m
  <2>3. Synced(m) \in Seq(Entries)
    BY <2>2, KeysKept DEF SameKeys
  <2> QED
    BY <2>3 DEF m
<1>3. PICK heard \in SUBSET {i \in DOMAIN mon : ~ mon[i].full} :
        MonitorAdvance(IF heard = {} THEN mon
                       ELSE Synced([i \in DOMAIN mon |->
                                     [mon[i] EXCEPT !.full = @ \/ i \in heard]]), 0)
  BY DEF RoundStart
<1> QED
  BY <1>0, <1>1, <1>2, <1>3

LEMMA TimerKeeps == ASSUME RadioInv, Timer PROVE Kept
<1>1. UNCHANGED misfiled
  BY DEF Timer
<1>2. CASE IdleTimer
  <2>1. ctl.st = "idle"
    BY <1>2 DEF IdleTimer
  <2>2. CASE wr.req # None
    BY <1>1, <1>2, <2>1, <2>2, WriteBeginKeeps DEF IdleTimer
  <2>3. CASE wr.req = None /\ set.req # None
    BY <1>1, <1>2, <2>1, <2>3, SettingsBeginKeeps DEF IdleTimer
  <2>4. CASE wr.req = None /\ set.req = None /\ clk.run
    BY <1>1, <1>2, <2>1, <2>4, ClockAdvanceKeeps DEF IdleTimer
  <2>5. CASE wr.req = None /\ set.req = None /\ ~ clk.run
    BY <1>1, <1>2, <2>1, <2>5, RoundStartKeeps DEF IdleTimer
  <2> QED
    BY <2>2, <2>3, <2>4, <2>5
<1> QED
  BY <1>1, <1>2, LoginTimerKeeps, PollTimerKeeps, CliTimerKeeps, ClkTimerKeeps,
     WsetTimerKeeps DEF Timer

LEMMA BatteryOutKeeps == ASSUME RadioInv, BatteryOut PROVE Kept
<1>0. /\ mon \in Seq(Entries) /\ set \in Sweeps /\ clk' \in Clocks /\ wr \in Writes
      /\ some \in BOOLEAN /\ round \in 0..(BackoffEvery - 1)
      /\ misfiled' \subseteq {"quiet", "node", "command"} /\ UNCHANGED <<some, round, set>>
      /\ SameKeys(mon, mon)
  BY Fresh, KeysKept DEF RadioInv, Types, BatteryOut
<1>1. CASE wr.cur # 0
  <2>1. wr.read \in BOOLEAN /\ [wr EXCEPT !.read = wr.read] = wr
    BY <1>0 DEF Writes
  <2>2. WriteFinish([wr EXCEPT !.read = wr.read], mon)
    BY <1>1, <2>1 DEF BatteryOut
  <2> QED
    BY <1>0, <1>1, <2>1, <2>2, WriteStops
<1>2. CASE wr.cur = 0
  <2>1. ctl' = Idle /\ UNCHANGED <<wr, mon>>
    BY <1>2 DEF BatteryOut
  <2>2. Others
    BY <1>0, <1>2, <2>1, Fresh DEF Others, Idle, RadioInv, Shape
  <2> QED
    BY <2>2, OthersKeep
<1> QED
  BY <1>1, <1>2

----------------------------------------------------------------------------
(* Requests, edits and the world *)

LEMMA RequestKeeps ==
  ASSUME RadioInv, NEW n \in Nodes, SettingsRequest(n) \/ WriteRequest(n) \/ ClockRequest
  PROVE  Kept
<1>0. /\ mon \in Seq(Entries) /\ ctl \in Controls /\ set \in Sweeps /\ clk \in Clocks
      /\ some \in BOOLEAN /\ round \in 0..(BackoffEvery - 1) /\ wr \in Writes
      /\ misfiled \subseteq {"quiet", "node", "command"}
  BY DEF RadioInv, Types
<1>1. CASE SettingsRequest(n)
  <2>1. set' = [set EXCEPT !.req = n] /\ set.cur = 0
        /\ UNCHANGED <<mon, ctl, some, round, clk, misfiled, wr>>
    BY <1>1 DEF SettingsRequest, Asked
  <2>2. set' \in Sweeps
    BY <1>0, <2>1, SweepKept
  <2>3. set'.cur = 0
    BY <1>0, <2>1 DEF Sweeps
  <2>4. Types'
    BY <1>0, <2>1, <2>2 DEF Types
  <2>5. OneOwner' /\ Shape' /\ Aimed' /\ SetOnlyToAsked'
    BY <2>1, <2>3 DEF RadioInv, OneOwner, Shape, Aimed, SetOnlyToAsked
  <2>6. UNCHANGED Write!wvars
    BY <2>1 DEF Write!wvars, Stage
  <2> QED
    BY <2>4, <2>5, <2>6 DEF RadioInv, Kept
<1>2. CASE WriteRequest(n)
  <2>1. wr' = [wr EXCEPT !.req = n] /\ wr.cur = 0 /\ set.cur = 0
        /\ UNCHANGED <<mon, ctl, some, round, clk, misfiled, set>>
    BY <1>2 DEF WriteRequest, Asked
  <2>2. /\ wr' \in Writes /\ wr'.req = n
        /\ wr'.cur = wr.cur /\ wr'.step = wr.step /\ wr'.pause = wr.pause
        /\ wr'.node = wr.node /\ wr'.sent = wr.sent /\ wr'.said = wr.said
        /\ wr'.read = wr.read /\ wr'.hit = wr.hit /\ wr'.moved = wr.moved
    <3>1. [wr EXCEPT !.req = n] \in Writes
      BY <1>0, WriteKept
    <3> QED
      BY <1>0, <2>1, <3>1 DEF Writes
  <2>3. Types'
    BY <1>0, <2>1, <2>2 DEF Types
  <2>4. OneOwner' /\ Shape' /\ Aimed' /\ SetOnlyToAsked'
    BY <2>1, <2>2 DEF RadioInv, OneOwner, Shape, Aimed, SetOnlyToAsked
  <2>5. n # None
    BY RadioAssumption
  <2>6. Write!Ask
    BY <2>1, <2>2, <2>5 DEF Write!Ask, Stage
  <2> QED
    BY <2>3, <2>4, <2>6 DEF RadioInv, Kept, Write!Next
<1>3. CASE ClockRequest
  <2>1. clk' = [NoClock EXCEPT !.run = TRUE]
        /\ UNCHANGED <<mon, ctl, some, round, set, wr, misfiled>>
    BY <1>3 DEF ClockRequest
  <2>2. clk' \in Clocks
    <3>1. NoClock \in Clocks
      BY Fresh
    <3>2. [NoClock EXCEPT !.run = TRUE] \in Clocks
      BY <3>1 DEF Clocks
    <3> QED
      BY <2>1, <3>2
  <2>3. Types'
    BY <1>0, <2>1, <2>2 DEF Types
  <2>4. OneOwner' /\ Shape' /\ Aimed' /\ SetOnlyToAsked'
    BY <2>1 DEF RadioInv, OneOwner, Shape, Aimed, SetOnlyToAsked
  <2>5. UNCHANGED Write!wvars
    BY <2>1 DEF Write!wvars, Stage
  <2> QED
    BY <2>3, <2>4, <2>5 DEF RadioInv, Kept
<1> QED
  BY <1>1, <1>2, <1>3

\* What touches the list marks the jobs that run.
LEMMA EditKeeps ==
  ASSUME RadioInv, NEW l \in Seq(Entries), NEW touched \in BOOLEAN, Edit(l, touched),
         touched \/ SameKeys(mon, l)
  PROVE  Kept
<1>0. /\ mon \in Seq(Entries) /\ ctl \in Controls /\ set \in Sweeps /\ clk \in Clocks
      /\ some \in BOOLEAN /\ round \in 0..(BackoffEvery - 1) /\ wr \in Writes
      /\ misfiled \subseteq {"quiet", "node", "command"}
      /\ UNCHANGED <<ctl, some, round, clk, misfiled>>
  BY DEF RadioInv, Types, Edit
<1>1. CASE ~ touched
  <2>1. mon' = l /\ SameKeys(mon, l) /\ UNCHANGED <<set, wr>>
    BY <1>1 DEF Edit
  <2>2. Types'
    BY <1>0, <2>1 DEF Types
  <2>3. OneOwner' /\ Shape' /\ Aimed' /\ SetOnlyToAsked'
    BY <1>0, <2>1 DEF RadioInv, OneOwner, Shape, Aimed, SetOnlyToAsked, SameKeys
  <2>4. UNCHANGED Write!wvars
    BY <1>0, <2>1 DEF Write!wvars, Stage
  <2> QED
    BY <2>2, <2>3, <2>4 DEF RadioInv, Kept
<1>2. CASE touched
  <2>1. mon' = Synced(l) /\ set' = Moved(set) /\ wr' = Moved(wr)
    BY <1>2 DEF Edit
  <2>2. mon' \in Seq(Entries)
    BY <2>1, KeysKept DEF SameKeys
  <2>3. set' \in Sweeps /\ set'.cur = set.cur
    <3>1. (set.moved \/ set.cur # 0) \in BOOLEAN
      BY Zenon
    <3>2. [set EXCEPT !.moved = set.moved \/ set.cur # 0] \in Sweeps
      BY <1>0, <3>1, SweepKept
    <3>3. [set EXCEPT !.moved = set.moved \/ set.cur # 0].cur = set.cur
      BY <1>0 DEF Sweeps
    <3> QED
      BY <2>1, <3>2, <3>3 DEF Moved
  <2>4. /\ wr' \in Writes /\ wr'.moved = (wr.moved \/ wr.cur # 0)
        /\ wr'.cur = wr.cur /\ wr'.step = wr.step /\ wr'.pause = wr.pause
        /\ wr'.node = wr.node /\ wr'.sent = wr.sent /\ wr'.said = wr.said
        /\ wr'.read = wr.read /\ wr'.hit = wr.hit /\ wr'.req = wr.req
    <3> DEFINE m == wr.moved \/ wr.cur # 0
    <3>1. m \in BOOLEAN
      BY Zenon
    <3> HIDE DEF m
    <3>2. [wr EXCEPT !.moved = m] \in Writes
      BY <1>0, <3>1, WriteKept
    <3>3. wr' = [wr EXCEPT !.moved = m]
      BY <2>1 DEF Moved, m
    <3>4. wr'.moved = m
      BY <1>0, <3>3 DEF Writes
    <3>5. /\ wr'.cur = wr.cur /\ wr'.step = wr.step /\ wr'.pause = wr.pause
          /\ wr'.node = wr.node /\ wr'.sent = wr.sent /\ wr'.said = wr.said
          /\ wr'.read = wr.read /\ wr'.hit = wr.hit /\ wr'.req = wr.req
      BY <1>0, <3>3 DEF Writes
    <3> QED
      BY <3>2, <3>3, <3>4, <3>5 DEF m
  <2>5. Types'
    BY <1>0, <2>2, <2>3, <2>4 DEF Types
  <2>6. OneOwner' /\ Shape' /\ Aimed' /\ SetOnlyToAsked'
    BY <1>0, <2>3, <2>4 DEF RadioInv, OneOwner, Shape, Aimed, SetOnlyToAsked
  <2>7. UNCHANGED Write!wvars
    BY <1>0, <2>4 DEF Write!wvars, Stage
  <2> QED
    BY <2>5, <2>6, <2>7 DEF RadioInv, Kept
<1> QED
  BY <1>1, <1>2

\* The edits of the web page and the console are edits of a list of entries.
LEMMA ListEdits ==
  ASSUME mon \in Seq(Entries), NEW n \in Nodes, NEW b \in BOOLEAN,
         MonAdd(n, b) \/ MonDelete(n) \/ MonPass(n) \/ MonEnable(n, b)
  PROVE  \E l \in Seq(Entries), touched \in BOOLEAN :
           Edit(l, touched) /\ (touched \/ SameKeys(mon, l))
<1>0. TRUE \in BOOLEAN /\ FALSE \in BOOLEAN
  OBVIOUS
<1>1. CASE MonAdd(n, b)
  <2> DEFINE known == Places(mon, n)
             fuller == [i \in DOMAIN mon |->
                         IF i \in known THEN [mon[i] EXCEPT !.full = mon[i].full \/ b]
                         ELSE mon[i]]
  <2>1. Append(mon, Entry(n, b)) \in Seq(Entries)
    <3>1. 0 \in 0..BackoffAfter
      BY Numbers
    <3>2. Entry(n, b) \in Entries
      BY <3>1 DEF Entry, Entries
    <3> QED
      BY <1>0, <3>2
  <2>2. fuller \in Seq(Entries)
    <3>1. ASSUME NEW i \in DOMAIN mon
          PROVE  /\ mon[i] \in Entries
                 /\ [mon[i] EXCEPT !.full = mon[i].full \/ b] \in Entries
      <4>1. mon[i] \in Entries
        BY <1>0
      <4>2. (mon[i].full \/ b) \in BOOLEAN
        BY Zenon
      <4> QED
        BY <4>1, <4>2, EntryKept
    <3> QED
      BY <1>0, <3>1, ListIs
  <2>3. Edit(IF known = {} THEN Append(mon, Entry(n, b)) ELSE fuller, TRUE)
    BY <1>1 DEF MonAdd
  <2> HIDE DEF known, fuller
  <2> QED
    BY <1>0, <2>1, <2>2, <2>3
<1>2. CASE MonDelete(n)
  <2>1. PICK i \in Places(mon, n) :
          Edit(SubSeq(mon, 1, i - 1) \o SubSeq(mon, i + 1, Len(mon)), TRUE)
    BY <1>2 DEF MonDelete
  <2>2. i \in 1..Len(mon)
    BY <1>0, ListIs DEF Places
  <2>3. SubSeq(mon, 1, i - 1) \in Seq(Entries)
        /\ SubSeq(mon, i + 1, Len(mon)) \in Seq(Entries)
    BY <1>0, <2>2
  <2>4. SubSeq(mon, 1, i - 1) \o SubSeq(mon, i + 1, Len(mon)) \in Seq(Entries)
    BY <2>3
  <2> QED
    BY <1>0, <2>1, <2>4
<1>3. CASE MonPass(n)
  <2>1. PICK i : Edit(SetIn(mon, i, FALSE), FALSE)
    BY <1>3 DEF MonPass
  <2>2. SameKeys(mon, SetIn(mon, i, FALSE))
    BY <1>0, KeysKept
  <2>3. SetIn(mon, i, FALSE) \in Seq(Entries)
    BY <2>2 DEF SameKeys
  <2> QED
    BY <1>0, <2>1, <2>2, <2>3
<1>4. CASE MonEnable(n, b)
  <2>1. PICK i \in Places(mon, n) : Edit([mon EXCEPT ![i].on = b], FALSE)
    BY <1>4 DEF MonEnable
  <2>2. i \in DOMAIN mon
    BY DEF Places
  <2>3. [mon[i] EXCEPT !.on = b] \in Entries
    <3>1. mon[i] \in Entries
      BY <1>0, <2>2
    <3> QED
      BY <3>1, EntryKept
  <2>4. /\ [mon[i] EXCEPT !.on = b].node = mon[i].node
        /\ [mon[i] EXCEPT !.on = b].full = mon[i].full
    BY <1>0, <2>2 DEF Entries
  <2>5. SameKeys(mon, [mon EXCEPT ![i] = [mon[i] EXCEPT !.on = b]])
    BY <1>0, <2>2, <2>3, <2>4, ListUpdated
  <2>6. [mon EXCEPT ![i].on = b] = [mon EXCEPT ![i] = [mon[i] EXCEPT !.on = b]]
    OBVIOUS
  <2>7. [mon EXCEPT ![i].on = b] \in Seq(Entries)
    BY <2>5, <2>6 DEF SameKeys
  <2> QED
    BY <1>0, <2>1, <2>5, <2>6, <2>7
<1> QED
  BY <1>1, <1>2, <1>3, <1>4

LEMMA ListEditsKeep ==
  ASSUME RadioInv, NEW n \in Nodes, NEW b \in BOOLEAN,
         MonAdd(n, b) \/ MonDelete(n) \/ MonPass(n) \/ MonEnable(n, b)
  PROVE  Kept
<1>1. PICK l \in Seq(Entries), touched \in BOOLEAN :
        Edit(l, touched) /\ (touched \/ SameKeys(mon, l))
  BY ListEdits DEF RadioInv, Types
<1> QED
  BY <1>1, EditKeeps

----------------------------------------------------------------------------
(* The first invariant *)

LEMMA RadioInit == Init => RadioInv /\ Write!Init
<1> SUFFICES ASSUME Init PROVE RadioInv /\ Write!Init
  OBVIOUS
<1>1. mon \in Seq(Entries)
  <2>1. Start \in Seq(Nodes) /\ 0 \in 0..BackoffAfter
    BY RadioAssumption, Numbers
  <2>2. ASSUME NEW i \in DOMAIN Start PROVE Entry(Start[i], TRUE) \in Entries
    <3>1. Start[i] \in Nodes
      BY <2>1
    <3> QED
      BY <2>1, <3>1 DEF Entry, Entries
  <2>3. mon = [i \in 1..Len(Start) |-> Entry(Start[i], TRUE)]
    BY <2>1 DEF Init
  <2>4. mon \in [1..Len(Start) -> Entries]
    <3>1. DOMAIN Start = 1..Len(Start)
      BY <2>1
    <3> QED
      BY <2>2, <2>3, <3>1
  <2>5. Len(Start) \in Nat
    BY <2>1
  <2> QED
    BY <2>4, <2>5
<1>2. Types
  <2>1. 0 \in 0..(BackoffEvery - 1)
    BY Numbers
  <2> QED
    BY <1>1, <2>1, Fresh DEF Init, Types
<1>3. OneOwner /\ Shape /\ Aimed /\ SetOnlyToAsked
  BY DEF Init, Idle, NoSweep, NoWrite, OneOwner, Shape, Aimed, SetOnlyToAsked
<1>4. Write!Init
  BY DEF Init, Idle, NoWrite, Write!Init, Stage
<1> QED
  BY <1>2, <1>3, <1>4 DEF RadioInv

LEMMA RadioStep == ASSUME RadioInv, [Next]_vars PROVE Kept
<1>1. CASE UNCHANGED <<mon, ctl, some, round, job, misfiled>>
  <2>1. Types' /\ OneOwner' /\ Shape' /\ Aimed' /\ SetOnlyToAsked'
    BY <1>1 DEF RadioInv, job, Types, OneOwner, Shape, Aimed, SetOnlyToAsked
  <2>2. UNCHANGED Write!wvars
    BY <1>1 DEF job, Write!wvars, Stage
  <2> QED
    BY <2>1, <2>2 DEF RadioInv, Kept
<1>2. CASE Reply
  BY <1>2, ReplyKeeps
<1>3. CASE Timer
  BY <1>3, TimerKeeps
<1>4. CASE BatteryOut
  BY <1>4, BatteryOutKeeps
<1>5. ASSUME NEW n \in Nodes, SettingsRequest(n) \/ WriteRequest(n) PROVE Kept
  BY <1>5, RequestKeeps
<1>6. ASSUME NEW n \in Nodes, MonDelete(n) \/ MonPass(n) PROVE Kept
  BY <1>6, ListEditsKeep
<1>7. ASSUME NEW n \in Nodes, NEW b \in BOOLEAN, MonAdd(n, b) \/ MonEnable(n, b)
      PROVE  Kept
  BY <1>7, ListEditsKeep
<1>8. ASSUME NEW n \in Nodes, Alert(n) PROVE Kept
  BY <1>1, <1>8 DEF Alert, Arrive
<1>9. CASE Answer
  BY <1>1, <1>9 DEF Answer, Arrive
<1>10. CASE ClockRequest
  <2>1. CASE Nodes # {}
    BY <1>10, <2>1, RequestKeeps
  <2>2. CASE Nodes = {}
    <3>1. mon \in Seq(Entries) /\ mon # <<>>
      BY <1>10 DEF RadioInv, Types, ClockRequest
    <3> QED
      BY <2>2, <3>1 DEF Entries
  <2> QED
    BY <2>1, <2>2
<1>11. CASE BatteryEmpty \/ BatteryFull \/ BrokerOff \/ BrokerOn
  BY <1>1, <1>11 DEF BatteryEmpty, BatteryFull, BrokerOff, BrokerOn, Switch
<1>12. CASE UNCHANGED vars
  BY <1>1, <1>12 DEF vars, job
<1> QED
  BY <1>2, <1>3, <1>4, <1>5, <1>6, <1>7, <1>8, <1>9, <1>10, <1>11, <1>12 DEF Next

----------------------------------------------------------------------------
(* Answers and jobs.  Second invariant: which node an answer that waits is  *)
(* from, which node the place of the sweep is, and which command an answer  *)
(* under way belongs to.                                                   *)

\* As long as the list was not touched, the place of the sweep is its node's.
Steered == set.cur # 0 /\ ~ set.moved => set.cur \in Places(mon, set.node)

\* An answer that came in a pause waits in that pause; as long as the list was
\* not touched while a job runs, its index is that of the node it came from.
Waits ==
  slot # None =>
    /\ slot.quiet => Quiet
    /\ (set.cur # 0 /\ ~ set.moved) \/ (wr.cur # 0 /\ ~ wr.moved) =>
         \E j \in At(mon, slot.idx) : mon[j].node = slot.node

\* What comes while a job waits for text comes to no other command than the one
\* that is out, or too late to tell.
Tied ==
  /\ ctl.st = "cli" /\ ~ set.pause =>
       /\ \A m \in air : m.cmd \in {None, <<"sweep", set.next>>}
       /\ slot # None => slot.cmd \in {None, <<"sweep", set.next>>}
  /\ ctl.st = "wset" /\ ~ wr.pause =>
       /\ \A m \in air : m.cmd \in {None, <<"write", wr.step>>}
       /\ slot # None => slot.cmd \in {None, <<"write", wr.step>>}

FiledInv == RadioInv /\ AnswersFiledRight /\ Steered /\ Waits /\ Tied

\* A turn of the machine: it leaves every node at its place, and the sweep is
\* over, the one that was, or one that begins at the place of its node.
Steady ==
  /\ DOMAIN mon' = DOMAIN mon /\ \A i \in DOMAIN mon : mon'[i].node = mon[i].node
  /\ \/ set'.cur = 0
     \/ set'.cur = set.cur /\ set'.node = set.node /\ set'.moved = set.moved
     \/ set'.cur \in Places(mon, set'.node)

\* The index of a full key is that of no other entry, and never 0.
LEMMA OneAtIndex ==
  ASSUME NEW l \in Seq(Entries), NEW i \in DOMAIN l, NEW j \in At(l, MeshIdx(l, i))
  PROVE  j = i
<1>1. CASE l[i].full
  BY <1>1, AtOwn
<1>2. CASE ~ l[i].full
  <2> DEFINE Full == {k \in 1..j : l[k].full}
  <2>1. j \in Nat /\ j >= 1 /\ j \in DOMAIN l /\ l[j].full
    BY ListIs DEF At
  <2>2. Cardinality(Full) = 0
    BY <1>2, <2>1 DEF At, MeshIdx
  <2>3. IsFiniteSet(1..j)
    BY <2>1, FS_Interval
  <2>4. IsFiniteSet(Full)
    <3>1. Full \subseteq 1..j
      OBVIOUS
    <3> QED
      BY <2>3, <3>1, FS_Subset
  <2>5. j \in Full
    BY <2>1
  <2> HIDE DEF Full
  <2> QED
    BY <2>2, <2>4, <2>5, FS_EmptySet
<1> QED
  BY <1>1, <1>2

\* The table of the mesh side depends on the keys only.
LEMMA SameIndex ==
  ASSUME NEW l \in Seq(Entries), NEW m, SameKeys(l, m), NEW k
  PROVE  At(l, k) = At(m, k)
<1>1. ASSUME NEW i \in DOMAIN l PROVE MeshIdx(l, i) = MeshIdx(m, i)
  <2>1. \A j \in 1..i : j \in DOMAIN l
    BY ListIs
  <2>2. {j \in 1..i : l[j].full} = {j \in 1..i : m[j].full}
    BY <2>1 DEF SameKeys
  <2> QED
    BY <1>1, <2>2 DEF MeshIdx, SameKeys
<1> QED
  BY <1>1 DEF At, SameKeys

LEMMA SameIsSteady ==
  ASSUME SameKeys(mon, mon'), UNCHANGED set
  PROVE  Steady
BY DEF SameKeys, Steady

LEMMA SweepIsSteady ==
  ASSUME RadioInv, NEW s \in Sweeps, NEW l \in Seq(Entries), NEW c \in Controls,
         SameKeys(mon, l),
         (s.cur = set.cur /\ s.node = set.node /\ s.moved = set.moved)
           \/ s.cur \in Places(mon, s.node),
         SettingsFinish(s, l) \/ SettingsAdvance(s, l, c) \/ SettingsSend(s, l, c)
  PROVE  Steady
<1>1. SweepGoesOn(s, l, c)
  BY SweepEffect
<1> QED
  BY <1>1 DEF SweepGoesOn, SameKeys, Steady

LEMMA ReplyIsSteady == ASSUME RadioInv, Reply PROVE Steady
<1>0. /\ mon \in Seq(Entries) /\ ctl \in Controls /\ set \in Sweeps /\ some \in BOOLEAN
      /\ wr \in Writes /\ SameKeys(mon, mon)
  BY KeysKept DEF RadioInv, Types
<1>1. CASE Ignored
  BY <1>0, <1>1, SameIsSteady DEF Ignored, job
<1>2. CASE SettingsReply
  <2> DEFINE s == [set EXCEPT !.silent = 0]
  <2>1. s \in Sweeps
    <3>1. 0 \in 0..SetSilentMax
      BY Numbers
    <3> QED
      BY <1>0, <3>1, SweepKept
  <2>2. s.cur = set.cur /\ s.node = set.node /\ s.moved = set.moved
    BY <1>0 DEF Sweeps
  <2>3. SettingsAdvance(s, mon, ctl)
    BY <1>2 DEF SettingsReply
  <2> HIDE DEF s
  <2> QED
    BY <1>0, <2>1, <2>2, <2>3, SweepIsSteady
<1>3. CASE WriteReply
  <2>1. mon' = mon /\ UNCHANGED set
    BY <1>3 DEF WriteReply, WriteFinish
  <2> QED
    BY <1>0, <2>1, SameIsSteady
<1>4. CASE ClockReply
  <2>1. mon' = mon /\ UNCHANGED set
    BY <1>4 DEF ClockReply, ClockSend, ClockNodeDone
  <2> QED
    BY <1>0, <2>1, SameIsSteady
<1>5. CASE Response
  <2>1. CASE UNCHANGED <<mon, ctl, some, job, air>>
    BY <1>0, <2>1, SameIsSteady DEF job
  <2>2. ASSUME NEW k \in 1..3, NEW g \in BOOLEAN, From(ctl.cur), UNCHANGED job,
               NEW l \in Seq(Entries), SameKeys(mon, l), StepOrEnd(k, l, g)
        PROVE  Steady
    <3>1. ctl.cur # 0
      BY <2>2 DEF From
    <3>2. SameKeys(l, mon')
      BY <1>0, <2>2, <3>1, TurnEffect
    <3>3. SameKeys(mon, mon')
      BY <2>2, <3>2 DEF SameKeys
    <3> QED
      BY <2>2, <3>3, SameIsSteady DEF job
  <2>3. 1 \in 1..3 /\ 2 \in 1..3 /\ 3 \in 1..3
    OBVIOUS
  <2>4. CASE From(ctl.cur) /\ LoginReply
    <3> DEFINE l == SetIn(mon, ctl.cur, TRUE)
    <3>1. SameKeys(mon, l)
      BY <1>0, KeysKept
    <3>2. l \in Seq(Entries)
      BY <3>1 DEF SameKeys
    <3>3. \/ WriteSend(wr, l, ctl) /\ UNCHANGED set
          \/ SettingsSend(set, l, ctl)
          \/ ClockSend(clk, l, ctl) /\ UNCHANGED set
          \/ StepOrEnd(1, l, some) /\ UNCHANGED job
      BY <2>4 DEF LoginReply
    <3> HIDE DEF l
    <3>4. CASE WriteSend(wr, l, ctl) /\ UNCHANGED set
      BY <3>1, <3>4, SameIsSteady DEF WriteSend, WriteFinish
    <3>5. CASE SettingsSend(set, l, ctl)
      BY <1>0, <3>1, <3>2, <3>5, SweepIsSteady
    <3>6. CASE ClockSend(clk, l, ctl) /\ UNCHANGED set
      BY <3>1, <3>6, SameIsSteady DEF ClockSend, ClockNodeDone
    <3>7. CASE StepOrEnd(1, l, some) /\ UNCHANGED job
      BY <1>0, <2>2, <2>3, <2>4, <3>1, <3>2, <3>7
    <3> QED
      BY <3>3, <3>4, <3>5, <3>6, <3>7
  <2>5. ASSUME NEW g \in {some, TRUE}, From(ctl.cur), UNCHANGED job,
               \/ StepOrEnd(2, mon, g)
               \/ StepOrEnd(3, mon, g)
               \/ mon' = mon \/ mon' = Cleared(mon, ctl.cur)
        PROVE  Steady
    <3>1. g \in BOOLEAN
      BY <1>0
    <3>2. SameKeys(mon, Cleared(mon, ctl.cur))
      BY <1>0, KeysKept
    <3>3. CASE mon' = mon \/ mon' = Cleared(mon, ctl.cur)
      BY <1>0, <2>5, <3>2, <3>3, SameIsSteady DEF job
    <3> QED
      BY <1>0, <2>2, <2>3, <2>5, <3>1, <3>3
  <2>6. \/ UNCHANGED <<mon, ctl, some, job, air>>
        \/ From(ctl.cur) /\ LoginReply
        \/ /\ From(ctl.cur) /\ UNCHANGED job
           /\ \E g \in {some, TRUE} :
                \/ StepOrEnd(2, mon, g) \/ StepOrEnd(3, mon, g)
                \/ mon' = mon \/ mon' = Cleared(mon, ctl.cur)
    BY <1>5 DEF Response
  <2> QED
    BY <2>1, <2>4, <2>5, <2>6
<1> QED
  BY <1>1, <1>2, <1>3, <1>4, <1>5 DEF Reply

LEMMA TimerIsSteady == ASSUME RadioInv, Timer PROVE Steady
<1>0. /\ mon \in Seq(Entries) /\ ctl \in Controls /\ set \in Sweeps /\ some \in BOOLEAN
      /\ wr \in Writes /\ round \in 0..(BackoffEvery - 1) /\ SameKeys(mon, mon)
  BY KeysKept DEF RadioInv, Types
<1>a. ASSUME NEW i PROVE SameKeys(mon, SetIn(mon, i, FALSE))
  BY <1>0, KeysKept
<1>1. CASE WriteBegin /\ UNCHANGED set
  <2>1. mon' = mon
    BY <1>1 DEF WriteBegin, WriteSend, WriteFinish, Login
  <2> QED
    BY <1>0, <1>1, <2>1, SameIsSteady
<1>2. CASE SettingsBegin
  <2>1. CASE set' = [set EXCEPT !.req = None] /\ UNCHANGED mon
    <3>1. set'.cur = set.cur /\ set'.node = set.node /\ set'.moved = set.moved
      BY <1>0, <2>1 DEF Sweeps
    <3> QED
      BY <2>1, <3>1 DEF Steady
  <2>2. ASSUME NEW i \in Places(mon, set.req), NEW s,
               s = [NoSweep EXCEPT !.cur = i, !.node = set.req],
               \/ SettingsSend(s, mon, [Idle EXCEPT !.cur = i])
               \/ Login(mon, i) /\ set' = s
               \/ SettingsFinish(s, mon)
        PROVE  Steady
    <3>1. i \in Nat \ {0} /\ i \in Nat
      BY <1>0, ListIs DEF Places
    <3>2. set.req \in Nodes \cup {None}
      BY <1>0 DEF Sweeps
    <3>3. s \in Sweeps /\ s.cur = i /\ s.req = None
      <4>1. 1 \in 1..ParamCount /\ 0 \in 0..SetSilentMax
        BY Numbers
      <4> QED
        BY <2>2, <3>1, <3>2, <4>1 DEF NoSweep, Sweeps
    <3>4. s.node = set.req
      BY <2>2 DEF NoSweep
    <3>5. s.cur \in Places(mon, s.node)
      BY <3>3, <3>4
    <3>6. [Idle EXCEPT !.cur = i] \in Controls
      BY <3>1, OwnTurn
    <3>7. CASE Login(mon, i) /\ set' = s
      <4>1. mon' = mon
        BY <3>7 DEF Login
      <4> QED
        BY <3>5, <3>7, <4>1 DEF Steady
    <3> QED
      BY <1>0, <2>2, <3>3, <3>5, <3>6, <3>7, SweepIsSteady
  <2>3. ASSUME NEW i \in Places(mon, set.req),
               IF mon[i].in
               THEN SettingsSend([NoSweep EXCEPT !.cur = i, !.node = set.req], mon,
                                 [Idle EXCEPT !.cur = i])
               ELSE \/ /\ Login(mon, i)
                       /\ set' = [NoSweep EXCEPT !.cur = i, !.node = set.req]
                    \/ SettingsFinish([NoSweep EXCEPT !.cur = i, !.node = set.req], mon)
        PROVE  Steady
    BY <2>2, <2>3
  <2> QED
    BY <1>2, <2>1, <2>3 DEF SettingsBegin
<1>3. CASE ClockAdvance /\ UNCHANGED set
  <2>1. mon' = mon
    BY <1>3 DEF ClockAdvance, ClockFinish, ClockSend, ClockNodeDone, Login
  <2> QED
    BY <1>0, <1>3, <2>1, SameIsSteady
<1>4. ASSUME NEW l \in Seq(Entries), NEW from \in Nat, MonitorAdvance(l, from),
             DOMAIN l = DOMAIN mon, \A i \in DOMAIN mon : l[i].node = mon[i].node,
             UNCHANGED set
      PROVE  Steady
  <2>1. SameKeys(l, mon')
    BY <1>0, <1>4, AdvanceEffect
  <2> QED
    BY <1>4, <2>1 DEF SameKeys, Steady
<1>5. CASE RoundStart /\ UNCHANGED job
  <2>1. PICK heard \in SUBSET {i \in DOMAIN mon : ~ mon[i].full} :
          MonitorAdvance(IF heard = {} THEN mon
                         ELSE Synced([i \in DOMAIN mon |->
                                       [mon[i] EXCEPT !.full = @ \/ i \in heard]]), 0)
    BY <1>5 DEF RoundStart
  <2> DEFINE m == [i \in DOMAIN mon |-> [mon[i] EXCEPT !.full = mon[i].full \/ i \in heard]]
  <2>2. ASSUME NEW i \in DOMAIN mon
        PROVE  /\ [mon[i] EXCEPT !.full = mon[i].full \/ i \in heard] \in Entries
               /\ [mon[i] EXCEPT !.full = mon[i].full \/ i \in heard].node = mon[i].node
    <3>1. mon[i] \in Entries
      BY <1>0
    <3>2. (mon[i].full \/ i \in heard) \in BOOLEAN
      BY Zenon
    <3>3. [mon[i] EXCEPT !.full = mon[i].full \/ i \in heard] \in Entries
      BY <3>1, <3>2, EntryKept
    <3>4. [mon[i] EXCEPT !.full = mon[i].full \/ i \in heard].node = mon[i].node
      BY <3>1 DEF Entries
    <3> QED
      BY <3>3, <3>4
  <2>3. m \in Seq(Entries) /\ DOMAIN m = DOMAIN mon
        /\ \A i \in DOMAIN mon : m[i].node = mon[i].node
    BY <1>0, <2>2, ListIs
  <2>4. MonitorAdvance(IF heard = {} THEN mon ELSE Synced(m), 0) /\ UNCHANGED set
    BY <1>5, <2>1 DEF job
  <2> HIDE DEF m
  <2>5. SameKeys(m, Synced(m))
    BY <2>3, KeysKept
  <2>6. /\ Synced(m) \in Seq(Entries) /\ DOMAIN Synced(m) = DOMAIN mon
        /\ \A i \in DOMAIN mon : Synced(m)[i].node = mon[i].node
    BY <2>3, <2>5 DEF SameKeys
  <2>7. 0 \in Nat
    OBVIOUS
  <2> QED
    BY <1>0, <1>4, <2>4, <2>6, <2>7
<1>6. CASE IdleTimer
  BY <1>1, <1>2, <1>3, <1>5, <1>6 DEF IdleTimer
<1>7. CASE LoginTimer
  <2>1. CASE SettingsFinish(set, mon)
    BY <1>0, <2>1, SweepIsSteady
  <2>2. CASE mon' \in {mon, Failed(mon, ctl.cur)} /\ UNCHANGED set
    <3>1. SameKeys(mon, Failed(mon, ctl.cur))
      BY <1>0, KeysKept
    <3> QED
      BY <1>0, <2>2, <3>1, SameIsSteady
  <2> QED
    BY <1>7, <2>1, <2>2 DEF LoginTimer, WriteFinish, ClockNodeDone, job
<1>8. CASE ReqTimer \/ TelemTimer
  <2>1. ctl.cur # 0 /\ UNCHANGED set
    BY <1>8 DEF ReqTimer, TelemTimer, RadioInv, OneOwner, job
  <2>2. 2 \in 1..3 /\ 3 \in 1..3
    OBVIOUS
  <2>3. mon' = mon \/ StepOrEnd(2, mon, some) \/ StepOrEnd(3, mon, some)
    BY <1>8 DEF ReqTimer, TelemTimer
  <2>4. SameKeys(mon, mon')
    BY <1>0, <2>1, <2>2, <2>3, TurnEffect
  <2> QED
    BY <2>1, <2>4, SameIsSteady
<1>9. CASE NbrTimer
  <2>1. SameKeys(mon, Failed(mon, ctl.cur)) /\ SameKeys(mon, Cleared(mon, ctl.cur))
    BY <1>0, KeysKept
  <2>2. Failed(mon, ctl.cur) \in Seq(Entries)
    BY <2>1 DEF SameKeys
  <2>3. SameKeys(Failed(mon, ctl.cur), SetIn(Failed(mon, ctl.cur), ctl.cur, FALSE))
    BY <2>2, KeysKept
  <2>4. SameKeys(mon, SetIn(Failed(mon, ctl.cur), ctl.cur, FALSE))
    BY <2>1, <2>3 DEF SameKeys
  <2> QED
    BY <1>9, <2>1, <2>4, SameIsSteady DEF NbrTimer, job
<1>10. CASE GapTimer
  <2>1. ctl.cur \in Nat
    BY <1>0 DEF Controls
  <2> QED
    BY <1>0, <1>4, <1>10, <2>1 DEF GapTimer, job
<1>11. CASE CliTimer
  <2> DEFINE s == [set EXCEPT !.silent = set.silent + 1]
             p == [set EXCEPT !.pause = FALSE]
  <2>1. /\ p \in Sweeps /\ p.cur = set.cur /\ p.node = set.node /\ p.moved = set.moved
        /\ s.cur = set.cur /\ s.node = set.node /\ s.moved = set.moved
    BY <1>0 DEF Sweeps
  <2>2. set.silent \in 0..SetSilentMax /\ s.silent = set.silent + 1
    BY <1>0 DEF Sweeps
  <2>3. s.silent < SetSilentMax => s \in Sweeps
    <3>1. s.silent < SetSilentMax => set.silent + 1 \in 0..SetSilentMax
      BY <2>2, Numbers
    <3> QED
      BY <1>0, <3>1, SweepKept
  <2>4. ~ (s.silent >= SetSilentMax) => s.silent < SetSilentMax
    BY <2>2, Numbers
  <2>5. \/ SettingsSend(p, mon, ctl)
        \/ SettingsFinish(s, SetIn(mon, set.cur, FALSE)) \/ SettingsFinish(s, mon)
        \/ ~ (s.silent >= SetSilentMax) /\ SettingsAdvance(s, mon, ctl)
    BY <1>11 DEF CliTimer
  <2> HIDE DEF s, p
  <2>6. ASSUME NEW l, SameKeys(mon, l), SettingsFinish(s, l) PROVE Steady
    <3>1. mon' = l /\ set'.cur = 0
      BY <2>6 DEF SettingsFinish, NoSweep
    <3> QED
      BY <2>6, <3>1 DEF SameKeys, Steady
  <2> QED
    BY <1>0, <1>a, <2>1, <2>3, <2>4, <2>5, <2>6, SweepIsSteady
<1>12. CASE ClkTimer
  <2>1. mon' \in {mon, SetIn(mon, clk.cur, FALSE)} /\ UNCHANGED set
    BY <1>12 DEF ClkTimer, ClockFinish, ClockNodeDone
  <2> QED
    BY <1>0, <1>a, <2>1, SameIsSteady
<1>13. CASE WsetTimer
  <2>1. mon' \in {mon, SetIn(mon, wr.cur, FALSE)} /\ UNCHANGED set
    BY <1>13 DEF WsetTimer, WriteSend, WriteFinish
  <2> QED
    BY <1>0, <1>a, <2>1, SameIsSteady
<1> QED
  BY <1>6, <1>7, <1>8, <1>9, <1>10, <1>11, <1>12, <1>13 DEF Timer

\* What a step adds to the first invariant.
FiledKept == AnswersFiledRight' /\ Steered' /\ Waits' /\ Tied'

\* A turn of the machine: when it waits for text, it is in a pause or its
\* command has just left.
Tidy ==
  /\ ctl'.st = "cli" =>
       set'.pause \/ \A m \in air' : m.cmd \in {None, <<"sweep", set'.next>>}
  /\ ctl'.st = "wset" =>
       wr'.pause \/ \A m \in air' : m.cmd \in {None, <<"write", wr'.step>>}

LEMMA TidyTied == ASSUME Tidy, slot' = None PROVE Tied'
BY DEF Tidy, Tied

LEMMA CommandLeaves ==
  ASSUME NEW l, NEW i, NEW cmd, Command(l, i, cmd)
  PROVE  \A m \in air' : m.cmd \in {None, cmd}
BY DEF Command

LEMMA PollTidy ==
  /\ \A l, i : Login(l, i) => Tidy
  /\ \A k \in 1..3 : \A l, g : StepOrEnd(k, l, g) => Tidy
  /\ \A l, i : MonitorAdvance(l, i) => Tidy
<1>1. \A l, i : Login(l, i) => ctl'.st = "login"
  BY DEF Login
<1>2. ASSUME NEW k \in 1..3, NEW l, NEW i, Step(k, l, i)
      PROVE  ctl'.st \in {"req", "telem", "nbr"}
  <2>1. PICK j \in k..3 : ctl' = [st |-> Requests[j], cur |-> i, retry |-> 0]
    BY <1>2 DEF Step
  <2>2. j = 1 \/ j = 2 \/ j = 3
    OBVIOUS
  <2> QED
    BY <2>1, <2>2 DEF Requests
<1>3. \A k \in 1..3 : \A l, g :
        StepOrEnd(k, l, g) => ctl'.st \in {"req", "telem", "nbr", "gap"}
  BY <1>2 DEF StepOrEnd, EndOfTurn, Gap
<1>4. ASSUME NEW l, NEW from, MonitorAdvance(l, from)
      PROVE  ctl'.st \in {"login", "req", "telem", "nbr", "idle"}
  <2>1. \/ ctl' = Idle
        \/ \E m, i : Step(1, m, i) \/ Login(m, i)
    BY <1>4 DEF MonitorAdvance
  <2>2. 1 \in 1..3
    OBVIOUS
  <2> QED
    BY <1>1, <1>2, <2>1, <2>2 DEF Idle
<1> QED
  BY <1>1, <1>3, <1>4 DEF Tidy

LEMMA SweepTidy ==
  ASSUME NEW s \in Sweeps, NEW l, NEW c \in Controls,
         SettingsFinish(s, l) \/ SettingsAdvance(s, l, c) \/ SettingsSend(s, l, c)
  PROVE  Tidy
<1>1. CASE SettingsFinish(s, l)
  BY <1>1 DEF SettingsFinish, Idle, Tidy
<1>2. CASE SettingsAdvance(s, l, c)
  <2>1. [s EXCEPT !.next = s.next + 1, !.pause = TRUE].pause = TRUE
    BY DEF Sweeps
  <2>2. [c EXCEPT !.st = "cli"].st = "cli"
    BY DEF Controls
  <2> QED
    BY <1>1, <1>2, <2>1, <2>2 DEF SettingsAdvance, Tidy
<1>3. CASE /\ Command(l, s.cur, <<"sweep", s.next>>)
           /\ set' = s
           /\ ctl' = [c EXCEPT !.st = "cli"]
  <2>1. ctl'.st = "cli"
    BY <1>3 DEF Controls
  <2> QED
    BY <1>3, <2>1, CommandLeaves DEF Tidy
<1> QED
  BY <1>1, <1>2, <1>3 DEF SettingsSend

LEMMA WriteTidy ==
  ASSUME NEW w \in Writes, NEW l, NEW c \in Controls,
         WriteFinish(w, l) \/ WriteSend(w, l, c)
  PROVE  Tidy
<1>1. CASE WriteFinish(w, l)
  BY <1>1 DEF WriteFinish, Idle, Tidy
<1>2. CASE /\ Command(l, w.cur, <<"write", w.step>>)
           /\ \E h : wr' = [w EXCEPT !.sent = TRUE, !.hit = h]
           /\ ctl' = [c EXCEPT !.st = "wset"]
  <2>1. ctl'.st = "wset"
    BY <1>2 DEF Controls
  <2>2. wr'.step = w.step
    BY <1>2 DEF Writes
  <2> QED
    BY <1>2, <2>1, <2>2, CommandLeaves DEF Tidy
<1> QED
  BY <1>1, <1>2 DEF WriteSend

LEMMA ClockTidy ==
  ASSUME NEW c, NEW l, NEW k \in Controls,
         ClockFinish(l) \/ ClockNodeDone(c, l) \/ ClockSend(c, l, k)
  PROVE  Tidy
<1>1. [k EXCEPT !.st = "clk"].st = "clk"
  BY DEF Controls
<1>2. ctl' = Idle \/ ctl' = [k EXCEPT !.st = "clk"]
  BY DEF ClockFinish, ClockNodeDone, ClockSend
<1>3. Idle.st = "idle"
  BY DEF Idle
<1> QED
  BY <1>1, <1>2, <1>3 DEF Tidy

LEMMA ReplyTied == ASSUME FiledInv, Reply PROVE Tied'
<1>0. /\ mon \in Seq(Entries) /\ ctl \in Controls /\ set \in Sweeps /\ wr \in Writes
      /\ slot' = None /\ slot # None
  BY DEF FiledInv, RadioInv, Types, Reply, Ignored, SettingsReply, WriteReply, ClockReply,
         Response, ForSweep, ForWrite, ForClock, Text
<1>1. CASE UNCHANGED <<ctl, air, set, wr>>
  BY <1>0, <1>1 DEF FiledInv, Tied
<1>2. CASE Ignored
  BY <1>1, <1>2 DEF Ignored, job
<1>3. CASE SettingsReply
  <2> DEFINE s == [set EXCEPT !.silent = 0]
  <2>1. s \in Sweeps
    BY <1>0, SweepKept, Numbers
  <2>2. SettingsAdvance(s, mon, ctl)
    BY <1>3 DEF SettingsReply
  <2> HIDE DEF s
  <2> QED
    BY <1>0, <2>1, <2>2, SweepTidy, TidyTied
<1>4. CASE WriteReply
  <2>1. CASE wr.step = 0
    <3>1. PICK said : wr' = [wr EXCEPT !.said = said, !.step = 1, !.pause = TRUE]
                      /\ ctl' = ctl
      BY <1>4, <2>1 DEF WriteReply
    <3>2. wr'.pause = TRUE /\ ctl'.st = "wset"
      BY <1>0, <1>4, <3>1 DEF Writes, WriteReply, ForWrite
    <3> QED
      BY <1>0, <3>2, TidyTied DEF Tidy
  <2>2. CASE wr.step # 0
    <3>1. PICK read \in BOOLEAN : WriteFinish([wr EXCEPT !.read = read], mon)
      BY <1>4, <2>2 DEF WriteReply
    <3> QED
      BY <1>0, <3>1, WriteKept, WriteTidy, TidyTied
  <2> QED
    BY <2>1, <2>2
<1>5. CASE ClockReply
  <2> DEFINE heard == [clk EXCEPT !.silent = 0]
  <2>1. \/ ClockNodeDone(heard, mon) \/ ClockNodeDone(clk, mon)
        \/ ClockSend([heard EXCEPT !.step = 1], mon, ctl)
    BY <1>5 DEF ClockReply
  <2> HIDE DEF heard
  <2> QED
    BY <1>0, <2>1, ClockTidy, TidyTied
<1>6. CASE Response
  <2>0. 1 \in 1..3 /\ 2 \in 1..3 /\ 3 \in 1..3
    OBVIOUS
  <2>1. CASE LoginReply
    <3> DEFINE l == SetIn(mon, ctl.cur, TRUE)
    <3>1. \/ WriteSend(wr, l, ctl) \/ SettingsSend(set, l, ctl)
          \/ ClockSend(clk, l, ctl) \/ StepOrEnd(1, l, some)
      BY <2>1 DEF LoginReply
    <3> HIDE DEF l
    <3> QED
      BY <1>0, <2>0, <3>1, WriteTidy, SweepTidy, ClockTidy, PollTidy, TidyTied
  <2>2. ASSUME NEW g, StepOrEnd(2, mon, g) \/ StepOrEnd(3, mon, g) PROVE Tied'
    BY <1>0, <2>0, <2>2, PollTidy, TidyTied
  <2>3. CASE ctl' = Gap(ctl.cur)
    BY <1>0, <2>3, TidyTied DEF Gap, Tidy
  <2> QED
    BY <1>1, <1>6, <2>1, <2>2, <2>3 DEF Response, job
<1> QED
  BY <1>2, <1>3, <1>4, <1>5, <1>6 DEF Reply

LEMMA TimerTied == ASSUME FiledInv, Timer PROVE Tied'
<1> SUFFICES Tidy
  BY TidyTied DEF Timer
<1>0. /\ mon \in Seq(Entries) /\ ctl \in Controls /\ set \in Sweeps /\ wr \in Writes
      /\ clk \in Clocks
  BY DEF FiledInv, RadioInv, Types
<1>1. 1 \in 1..3 /\ 2 \in 1..3 /\ 3 \in 1..3
  OBVIOUS
<1>2. CASE ctl'.st \in {"idle", "login", "req", "gap", "clk"}
  BY <1>2 DEF Tidy
<1>3. ASSUME NEW i PROVE Login(mon, i) => Tidy
  BY PollTidy
<1>4. CASE IdleTimer /\ wr.req # None
  <2>1. ASSUME NEW i \in Places(mon, wr.req),
               NEW w, w = [NoWrite EXCEPT !.cur = i, !.node = wr.req],
               \/ WriteSend(w, mon, [Idle EXCEPT !.cur = i])
               \/ WriteFinish(w, mon)
        PROVE  Tidy
    <3>1. i \in Nat /\ wr.req \in Nodes \cup {None}
      BY <1>0, ListIs DEF Places, Writes
    <3>2. w \in Writes
      BY <1>4, <2>1, <3>1, NewWrite DEF Begun
    <3>3. [Idle EXCEPT !.cur = i] \in Controls
      BY <3>1, OwnTurn
    <3> QED
      BY <2>1, <3>2, <3>3, WriteTidy
  <2>2. CASE UNCHANGED ctl
    BY <1>2, <1>4, <2>2 DEF IdleTimer
  <2> QED
    BY <1>3, <1>4, <2>1, <2>2 DEF IdleTimer, WriteBegin
<1>5. CASE IdleTimer /\ wr.req = None /\ set.req # None
  <2>1. ASSUME NEW i \in Places(mon, set.req),
               NEW s, s = [NoSweep EXCEPT !.cur = i, !.node = set.req],
               \/ SettingsSend(s, mon, [Idle EXCEPT !.cur = i])
               \/ SettingsFinish(s, mon)
        PROVE  Tidy
    <3>1. i \in Nat /\ set.req \in Nodes \cup {None}
      BY <1>0, ListIs DEF Places, Sweeps
    <3>2. s \in Sweeps
      <4>1. 1 \in 1..ParamCount /\ 0 \in 0..SetSilentMax
        BY Numbers
      <4> QED
        BY <2>1, <3>1, <4>1 DEF NoSweep, Sweeps
    <3>3. [Idle EXCEPT !.cur = i] \in Controls
      BY <3>1, OwnTurn
    <3> QED
      BY <2>1, <3>2, <3>3, SweepTidy
  <2>2. CASE UNCHANGED ctl
    BY <1>2, <1>5, <2>2 DEF IdleTimer
  <2> QED
    BY <1>3, <1>5, <2>1, <2>2 DEF IdleTimer, SettingsBegin
<1>6. CASE IdleTimer /\ wr.req = None /\ set.req = None /\ clk.run
  <2>1. ASSUME NEW i \in clk.next..Len(mon), NEW c,
               \/ ClockSend(c, mon, [Idle EXCEPT !.cur = i]) \/ ClockNodeDone(c, mon)
               \/ Login(mon, i)
        PROVE  Tidy
    <3>1. i \in Nat
      BY <1>0 DEF Clocks
    <3> QED
      BY <1>3, <2>1, <3>1, OwnTurn, ClockTidy
  <2>2. CASE ClockFinish(mon)
    BY <1>2, <2>2 DEF ClockFinish, Idle
  <2> QED
    BY <1>6, <2>1, <2>2 DEF IdleTimer, ClockAdvance
<1>7. CASE IdleTimer /\ wr.req = None /\ set.req = None /\ ~ clk.run
  BY <1>7, PollTidy DEF IdleTimer, RoundStart
<1>8. CASE LoginTimer
  <2>1. [ctl EXCEPT !.retry = 1].st = ctl.st
    BY <1>0 DEF Controls
  <2>2. /\ ctl.st = "login"
        /\ ctl' = [ctl EXCEPT !.retry = 1] \/ ctl' = Idle \/ ctl' = Gap(ctl.cur)
    BY <1>8 DEF LoginTimer, WriteFinish, SettingsFinish, ClockNodeDone
  <2>3. Idle.st = "idle" /\ Gap(ctl.cur).st = "gap"
    BY DEF Gap, Idle
  <2> QED
    BY <1>2, <2>1, <2>2, <2>3
<1>9. CASE ReqTimer \/ TelemTimer
  <2>1. [ctl EXCEPT !.retry = 1].st = ctl.st
    BY <1>0 DEF Controls
  <2> QED
    BY <1>1, <1>2, <1>9, <2>1, PollTidy DEF ReqTimer, TelemTimer
<1>10. CASE NbrTimer
  BY <1>2, <1>10 DEF NbrTimer, Gap
<1>11. CASE GapTimer
  BY <1>11, PollTidy DEF GapTimer
<1>12. CASE CliTimer
  <2> DEFINE s == [set EXCEPT !.silent = set.silent + 1]
             p == [set EXCEPT !.pause = FALSE]
  <2>1. p \in Sweeps
    BY <1>0, SweepKept
  <2>2. set.silent \in 0..SetSilentMax /\ s.silent = set.silent + 1
    BY <1>0 DEF Sweeps
  <2>3. ~ (s.silent >= SetSilentMax) => s \in Sweeps
    <3>1. ~ (s.silent >= SetSilentMax) => set.silent + 1 \in 0..SetSilentMax
      BY <2>2, Numbers
    <3> QED
      BY <1>0, <3>1, SweepKept
  <2>4. \/ SettingsSend(p, mon, ctl)
        \/ SettingsFinish(s, SetIn(mon, set.cur, FALSE)) \/ SettingsFinish(s, mon)
        \/ ~ (s.silent >= SetSilentMax) /\ SettingsAdvance(s, mon, ctl)
    BY <1>12 DEF CliTimer
  <2> HIDE DEF s, p
  <2>5. ASSUME NEW l, SettingsFinish(s, l) PROVE Tidy
    BY <1>2, <2>5 DEF SettingsFinish, Idle
  <2> QED
    BY <1>0, <2>1, <2>3, <2>4, <2>5, SweepTidy
<1>13. CASE ClkTimer
  <2>1. ctl' = Idle
    BY <1>13 DEF ClkTimer, ClockFinish, ClockNodeDone
  <2> QED
    BY <1>2, <2>1 DEF Idle
<1>14. CASE WsetTimer
  <2>1. [wr EXCEPT !.pause = FALSE] \in Writes
    BY <1>0, WriteKept
  <2> QED
    BY <1>0, <1>14, <2>1, WriteTidy DEF WsetTimer
<1> QED
  BY <1>4, <1>5, <1>6, <1>7, <1>8, <1>9, <1>10, <1>11, <1>12, <1>13, <1>14
     DEF Timer, IdleTimer

LEMMA SteeredKept == ASSUME Steered, Steady PROVE Steered'
BY DEF Steered, Steady, Places

\* An answer that waits is from the node at the place it was asked for.
LEMMA FromOwn ==
  ASSUME RadioInv, Waits, slot # None, NEW cur, NEW n, From(cur),
         cur \in Places(mon, n),
         (set.cur # 0 /\ ~ set.moved) \/ (wr.cur # 0 /\ ~ wr.moved)
  PROVE  slot.node = n
<1>1. PICK j \in At(mon, slot.idx) : mon[j].node = slot.node
  BY DEF Waits
<1>2. mon \in Seq(Entries) /\ cur \in DOMAIN mon /\ mon[cur].node = n
  BY DEF RadioInv, Types, Places
<1>3. j \in At(mon, MeshIdx(mon, cur))
  BY <1>1 DEF From
<1>4. j = cur
  BY <1>2, <1>3, OneAtIndex
<1> QED
  BY <1>1, <1>2, <1>4

\* What a job books is its own: the reply of a sweep, then that of a write.
LEMMA BooksOwn ==
  ASSUME FiledInv
  PROVE  /\ ForSweep /\ ~ set.pause => Wrong(set.node, <<"sweep", set.next>>, set.moved) = {}
         /\ ForWrite /\ ~ wr.pause => Wrong(wr.node, <<"write", wr.step>>, wr.moved) = {}
<1>1. ASSUME ForSweep, ~ set.pause
      PROVE  Wrong(set.node, <<"sweep", set.next>>, set.moved) = {}
  <2>1. slot # None /\ ctl.st = "cli" /\ set.cur # 0 /\ From(set.cur)
    BY <1>1 DEF ForSweep, Text, From
  <2>2. ~ slot.quiet
    BY <1>1, <2>1 DEF FiledInv, Waits, Quiet
  <2>3. ASSUME ~ set.moved PROVE slot.node = set.node
    <3>1. set.cur \in Places(mon, set.node)
      BY <2>1, <2>3 DEF FiledInv, Steered
    <3> QED
      BY <2>1, <2>3, <3>1, FromOwn DEF FiledInv
  <2>4. slot.cmd \in {None, <<"sweep", set.next>>}
    BY <1>1, <2>1 DEF FiledInv, Tied
  <2> QED
    BY <2>2, <2>3, <2>4 DEF Wrong
<1>2. ASSUME ForWrite, ~ wr.pause
      PROVE  Wrong(wr.node, <<"write", wr.step>>, wr.moved) = {}
  <2>1. slot # None /\ ctl.st = "wset" /\ wr.cur # 0 /\ From(wr.cur)
    BY <1>2 DEF ForWrite, Text, From
  <2>2. ~ slot.quiet
    BY <1>2, <2>1 DEF FiledInv, Waits, Quiet
  <2>3. ASSUME ~ wr.moved PROVE slot.node = wr.node
    <3>1. wr.cur \in Places(mon, wr.node)
      BY <2>1, <2>3 DEF FiledInv, RadioInv, Aimed, Places
    <3> QED
      BY <2>1, <2>3, <3>1, FromOwn DEF FiledInv
  <2>4. slot.cmd \in {None, <<"write", wr.step>>}
    BY <1>2, <2>1 DEF FiledInv, Tied
  <2> QED
    BY <2>2, <2>3, <2>4 DEF Wrong
<1> QED
  BY <1>1, <1>2

LEMMA ReplyFiled == ASSUME FiledInv, Reply PROVE FiledKept
<1>1. Steered'
  BY ReplyIsSteady, SteeredKept DEF FiledInv
<1>2. Waits' /\ Tied'
  BY ReplyTied DEF Reply, Waits
<1>3. CASE SettingsReply
  <2>1. misfiled' = misfiled
    BY <1>3, BooksOwn DEF SettingsReply, FiledInv
  <2> QED
    BY <1>1, <1>2, <2>1 DEF FiledKept, FiledInv, AnswersFiledRight
<1>4. CASE WriteReply
  <2>1. misfiled' = misfiled
    BY <1>4, BooksOwn DEF WriteReply, FiledInv
  <2> QED
    BY <1>1, <1>2, <2>1 DEF FiledKept, FiledInv, AnswersFiledRight
<1>5. CASE Ignored \/ ClockReply \/ Response
  <2>1. misfiled' = misfiled
    BY <1>5 DEF Ignored, ClockReply, Response
  <2> QED
    BY <1>1, <1>2, <2>1 DEF FiledKept, FiledInv, AnswersFiledRight
<1> QED
  BY <1>3, <1>4, <1>5 DEF Reply

LEMMA TimerFiled == ASSUME FiledInv, Timer PROVE FiledKept
<1>1. Steered'
  BY TimerIsSteady, SteeredKept DEF FiledInv
<1>2. slot' = None /\ misfiled' = misfiled
  BY DEF Timer
<1> QED
  BY <1>1, <1>2, TimerTied DEF FiledKept, FiledInv, AnswersFiledRight, Waits

\* A step that leaves the list, and every job that goes on, as it is.
LEMMA StillFiled ==
  ASSUME FiledInv, UNCHANGED <<slot, misfiled, mon>>, slot' # None /\ Quiet => Quiet',
         Tied',
         \/ set'.cur = 0
         \/ set'.cur = set.cur /\ set'.node = set.node /\ set'.moved = set.moved,
         \/ wr'.cur = 0
         \/ wr'.cur = wr.cur /\ wr'.moved = wr.moved
  PROVE  FiledKept
<1>1. Steered'
  BY DEF FiledInv, Steered, Places
<1>2. Waits'
  BY DEF FiledInv, Waits, At, MeshIdx
<1> QED
  BY <1>1, <1>2 DEF FiledKept, FiledInv, AnswersFiledRight

LEMMA BatteryOutFiled == ASSUME FiledInv, BatteryOut PROVE FiledKept
<1>1. UNCHANGED <<slot, misfiled, mon, set>> /\ ctl' = Idle
  BY DEF BatteryOut, WriteFinish
<1>2. Quiet' /\ Tied'
  BY <1>1 DEF Quiet, Idle, Tied
<1>3. wr' = wr \/ wr'.cur = 0
  <2>1. CASE wr.cur # 0
    <3>1. wr \in Writes
      BY DEF FiledInv, RadioInv, Types
    <3>2. WriteFinish(wr, mon)
      BY <2>1 DEF BatteryOut
    <3> QED
      BY <3>1, <3>2, EndedIs DEF WriteFinish, Ended
  <2> QED
    BY <2>1 DEF BatteryOut
<1> QED
  BY <1>1, <1>2, <1>3, StillFiled

LEMMA RequestFiled ==
  ASSUME FiledInv, NEW n \in Nodes, SettingsRequest(n) \/ WriteRequest(n)
  PROVE  FiledKept
<1>0. set \in Sweeps /\ wr \in Writes /\ UNCHANGED <<slot, air, misfiled, mon, ctl>>
  BY DEF FiledInv, RadioInv, Types, SettingsRequest, WriteRequest, Asked
<1>1. CASE SettingsRequest(n)
  <2>1. /\ set'.cur = set.cur /\ set'.node = set.node /\ set'.moved = set.moved
        /\ set'.pause = set.pause /\ set'.next = set.next /\ wr' = wr
    BY <1>0, <1>1 DEF SettingsRequest, Sweeps
  <2>2. Tied'
    BY <1>0, <2>1 DEF FiledInv, Tied
  <2> QED
    BY <1>0, <2>1, <2>2, StillFiled DEF Quiet
<1>2. CASE WriteRequest(n)
  <2>1. /\ wr'.cur = wr.cur /\ wr'.moved = wr.moved
        /\ wr'.pause = wr.pause /\ wr'.step = wr.step /\ set' = set
    BY <1>0, <1>2 DEF WriteRequest, Writes
  <2>2. Tied'
    BY <1>0, <2>1 DEF FiledInv, Tied
  <2> QED
    BY <1>0, <2>1, <2>2, StillFiled DEF Quiet
<1> QED
  BY <1>1, <1>2

\* An edit that touches the list marks the jobs; another keeps the keys.
LEMMA EditFiled ==
  ASSUME FiledInv, NEW l \in Seq(Entries), NEW touched \in BOOLEAN, Edit(l, touched),
         touched \/ SameKeys(mon, l)
  PROVE  FiledKept
<1>0. /\ set \in Sweeps /\ wr \in Writes /\ mon \in Seq(Entries)
      /\ UNCHANGED <<slot, air, misfiled, ctl>>
  BY DEF FiledInv, RadioInv, Types, Edit
<1>1. CASE ~ touched
  <2>1. mon' = l /\ SameKeys(mon, l) /\ UNCHANGED <<set, wr>>
    BY <1>1 DEF Edit
  <2>2. Steered'
    BY <1>0, <2>1 DEF FiledInv, Steered, SameKeys, Places
  <2>3. \A k : At(mon, k) = At(mon', k)
    BY <1>0, <2>1, SameIndex
  <2>4. \A j \in DOMAIN mon : mon'[j].node = mon[j].node
    BY <2>1 DEF SameKeys
  <2>5. Quiet' <=> Quiet
    BY <1>0, <2>1 DEF Quiet
  <2>6. Waits'
    BY <1>0, <2>1, <2>3, <2>4, <2>5 DEF FiledInv, Waits, At
  <2>7. Tied'
    BY <1>0, <2>1 DEF FiledInv, Tied
  <2> QED
    BY <1>0, <2>2, <2>6, <2>7 DEF FiledKept, FiledInv, AnswersFiledRight
<1>2. CASE touched
  <2>1. set' = Moved(set) /\ wr' = Moved(wr)
    BY <1>2 DEF Edit
  <2>2. /\ set'.cur = set.cur /\ set'.pause = set.pause /\ set'.next = set.next
        /\ set'.moved = (set.moved \/ set.cur # 0)
    BY <1>0, <2>1, Zenon DEF Moved, Sweeps
  <2>3. /\ wr'.cur = wr.cur /\ wr'.pause = wr.pause /\ wr'.step = wr.step
        /\ wr'.moved = (wr.moved \/ wr.cur # 0)
    BY <1>0, <2>1, Zenon DEF Moved, Writes
  <2>4. Quiet' <=> Quiet
    BY <1>0, <2>2, <2>3 DEF Quiet
  <2>5. Tied'
    BY <1>0, <2>2, <2>3 DEF FiledInv, Tied
  <2> QED
    BY <1>0, <2>2, <2>3, <2>4, <2>5
       DEF FiledKept, FiledInv, AnswersFiledRight, Steered, Waits
<1> QED
  BY <1>1, <1>2

\* An answer, or an alert, takes its place in the table with it.
LEMMA ArriveFiled ==
  ASSUME FiledInv, NEW n, NEW type, NEW cmd, Arrive(n, type, cmd),
         cmd = None \/ \E m \in air : m.cmd = cmd
  PROVE  FiledKept
<1>1. PICK j \in Places(mon, n) :
        /\ mon[j].full
        /\ slot' = [idx |-> MeshIdx(mon, j), node |-> n, type |-> type, cmd |-> cmd,
                     quiet |-> Quiet]
  BY DEF Arrive
<1>2. UNCHANGED <<mon, ctl, set, wr, air, misfiled>>
  BY DEF Arrive, job
<1>3. /\ slot'.idx = MeshIdx(mon, j) /\ slot'.node = n /\ slot'.quiet = Quiet
      /\ slot'.cmd = cmd
  BY <1>1
<1>4. j \in At(mon', slot'.idx) /\ mon'[j].node = slot'.node
  BY <1>1, <1>2, <1>3 DEF At, Places
<1>5. Quiet' <=> Quiet
  BY <1>2 DEF Quiet
<1>6. Waits'
  BY <1>3, <1>4, <1>5 DEF Waits
<1>7. Steered'
  BY <1>2 DEF FiledInv, Steered, Places
<1>8. Tied'
  BY <1>2, <1>3 DEF FiledInv, Tied
<1> QED
  BY <1>2, <1>6, <1>7, <1>8 DEF FiledKept, FiledInv, AnswersFiledRight

LEMMA ListEditsFiled ==
  ASSUME FiledInv, NEW n \in Nodes, NEW b \in BOOLEAN,
         MonAdd(n, b) \/ MonDelete(n) \/ MonPass(n) \/ MonEnable(n, b)
  PROVE  FiledKept
<1>1. PICK l \in Seq(Entries), touched \in BOOLEAN :
        Edit(l, touched) /\ (touched \/ SameKeys(mon, l))
  BY ListEdits DEF FiledInv, RadioInv, Types
<1> QED
  BY <1>1, EditFiled

LEMMA FiledInit == Init => AnswersFiledRight /\ Steered /\ Waits /\ Tied
BY DEF Init, Idle, NoSweep, NoWrite, AnswersFiledRight, Steered, Waits, Tied

LEMMA FiledStep == ASSUME FiledInv, [Next]_vars PROVE FiledKept
<1>1. CASE UNCHANGED <<mon, ctl, set, wr, slot, air, misfiled>>
  BY <1>1, StillFiled DEF Quiet, FiledInv, Tied
<1>2. CASE Reply
  BY <1>2, ReplyFiled
<1>3. CASE Timer
  BY <1>3, TimerFiled
<1>4. CASE BatteryOut
  BY <1>4, BatteryOutFiled
<1>5. ASSUME NEW n \in Nodes, SettingsRequest(n) \/ WriteRequest(n) PROVE FiledKept
  BY <1>5, RequestFiled
<1>6. ASSUME NEW n \in Nodes, MonDelete(n) \/ MonPass(n) PROVE FiledKept
  BY <1>6, ListEditsFiled
<1>7. ASSUME NEW n \in Nodes, NEW b \in BOOLEAN, MonAdd(n, b) \/ MonEnable(n, b)
      PROVE  FiledKept
  BY <1>7, ListEditsFiled
<1>8. ASSUME NEW n \in Nodes, Alert(n) PROVE FiledKept
  BY <1>8, ArriveFiled DEF Alert
<1>9. CASE Answer
  BY <1>9, ArriveFiled DEF Answer
<1>10. CASE ClockRequest
  BY <1>1, <1>10 DEF ClockRequest
<1>11. CASE BatteryEmpty \/ BatteryFull \/ BrokerOff \/ BrokerOn
  BY <1>1, <1>11 DEF BatteryEmpty, BatteryFull, BrokerOff, BrokerOn, Switch, job
<1>12. CASE UNCHANGED vars
  BY <1>1, <1>12 DEF vars, job
<1> QED
  BY <1>2, <1>3, <1>4, <1>5, <1>6, <1>7, <1>8, <1>9, <1>10, <1>11, <1>12 DEF Next

----------------------------------------------------------------------------
(* The theorems *)

\* The inductive invariant of the monitor.
THEOREM RadioSafe == Spec => []RadioInv
BY RadioInit, RadioStep, PTL DEF Spec, Kept

\* Type correctness, whatever the jobs, the mesh and the web page do: the sweep
\* never asks past the last parameter, the counters of silence and failure stay
\* within their limits (monitorAdvance, monSettingsAdvance, monRoundFailed).
THEOREM RadioTyped == Spec => []MonTypeOK
<1>1. RadioInv => MonTypeOK
  BY TypesAre DEF RadioInv
<1> QED
  BY <1>1, RadioSafe, PTL

\* A state that waits for text has its job, and a write has the machine to
\* itself (monWriteAccept and monSettingsAccept, the order in MON_IDLE).
THEOREM RadioOwned == Spec => []OneOwner
<1>1. RadioInv => OneOwner
  BY DEF RadioInv
<1> QED
  BY <1>1, RadioSafe, PTL

\* "set" reaches no other node than it was asked for, as long as the list
\* stays as it is (monWriteBegin looks the key up, monWriteSend the index).
THEOREM RadioAimed == Spec => []SetOnlyToAsked
<1>1. RadioInv => SetOnlyToAsked
  BY DEF RadioInv
<1> QED
  BY <1>1, RadioSafe, PTL

\* "niet_verstuurd" is only said of a write of which nothing reached the air
\* (_mwr_sent).
THEOREM RadioNotSent == Spec => []NotSentNotChanged
<1>1. RadioInv => NotSentNotChanged
  BY DEF RadioInv, Shape, NotSentNotChanged, Verdict
<1> QED
  BY <1>1, RadioSafe, PTL

\* The machine of the four jobs implements the write of MonWrite: one "set" at
\* most, the value read back after it, and the verdict kept till the next.
THEOREM RadioWrites == Spec => ImplementsWrite
<1>1. RadioInv /\ [Next]_vars => [Write!Next]_(Write!wvars)
  BY RadioStep DEF Kept
<1> QED
  BY <1>1, RadioInit, RadioSafe, PTL DEF Spec, ImplementsWrite, Write!Spec

\* A sweep or a write never books a text that came in the pause between two
\* commands, nor, as long as the list stays as it is, one of another node, nor
\* the answer to another command than the one that is out, unless it comes so
\* late that the next command has left (monitorLoop, monSettingsReply,
\* monWriteReply): then nothing tells the two apart.
THEOREM RadioFiled == Spec => []AnswersFiledRight
<1>1. RadioInv /\ AnswersFiledRight /\ Steered /\ Waits /\ Tied /\ [Next]_vars
        => AnswersFiledRight' /\ Steered' /\ Waits' /\ Tied'
  BY FiledStep DEF FiledInv, FiledKept
<1> QED
  BY <1>1, FiledInit, RadioSafe, PTL DEF Spec
============================================================================
