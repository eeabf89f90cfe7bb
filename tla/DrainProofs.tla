----------------------------- MODULE DrainProofs -----------------------------
(***************************************************************************)
(* Proofs about the tracker between its queue and the radio, for every     *)
(* size of the queue, every limit and any number of restarts.              *)
(*                                                                         *)
(* FifoDrain: the type invariant, and the two limits per hour.  They hold  *)
(* because the file knows of every attempt but the one under way, and      *)
(* because there is room for a repetition as long as one may come.         *)
(*                                                                         *)
(* MtSeq: no sequence number is used twice.  The numbers wrap around, so   *)
(* the invariant counts from the first number in the log: the log, the     *)
(* number in use and the one after the next start lie in this order, and   *)
(* the messages and the starts bound how far they reach.                   *)
(***************************************************************************)
EXTENDS FifoDrain, MtSeq, FiniteSetTheorems, SequenceTheorems, WellFoundedInduction, TLAPS

LEMMA QueueIntro ==
  ASSUME NEW D \in SUBSET Times, NEW f \in [D -> Item]
  PROVE  f \in Queue /\ DOMAIN f = D
BY DEF Queue

LEMMA QueueElim ==
  ASSUME NEW f \in Queue
  PROVE  DOMAIN f \in SUBSET Times /\ f \in [DOMAIN f -> Item]
BY DEF Queue

LEMMA NewType == New \in Item
BY DrainAssumption DEF New, Item

\* What the drain picks, and the oldest of it, are points of the queue.
LEMMA PickType ==
  ASSUME items \in Queue, NEW c
  PROVE  Pick \in SUBSET Times /\ OldestOf(Pick, c) \in SUBSET Times
BY QueueElim DEF Pick, Due, Parked, Queued, OldestOf

LEMMA UnheardType ==
  ASSUME items \in Queue, NEW S
  PROVE  Unheard(S) \in Queue
<1>1. Queued \in SUBSET Times /\ \A p \in Queued : items[p] \in Item
  BY QueueElim DEF Queued
<1>2. \A p \in Queued : items[p].tries \in 0 .. Pogingen
  BY <1>1 DEF Item
<1>. DEFINE e(p) == IF p \in S
                    THEN [tries |-> IF items[p].tries < Pogingen THEN items[p].tries + 1
                                    ELSE Pogingen, wait |-> TRUE]
                    ELSE items[p]
<1>3. \A p \in Queued : e(p) \in Item
  <2>. TAKE p \in Queued
  <2>1. (IF items[p].tries < Pogingen THEN items[p].tries + 1 ELSE Pogingen) \in 0 .. Pogingen
    BY <1>2, DrainAssumption
  <2>. QED  BY <1>1, <2>1 DEF Item
<1>4. Unheard(S) = [p \in Queued |-> e(p)]
  BY DEF Unheard
<1>. HIDE DEF e
<1>. QED
  BY <1>1, <1>3, <1>4, QueueIntro

LEMMA WithoutType ==
  ASSUME NEW f \in Queue, NEW S
  PROVE  Without(f, S) \in Queue
<1>1. DOMAIN f \in SUBSET Times /\ f \in [DOMAIN f -> Item]
  BY QueueElim
<1>2. Without(f, S) \in [DOMAIN f \ S -> Item]
  BY <1>1 DEF Without, Restrict
<1>. QED
  BY <1>1, <1>2, QueueIntro

LEMMA NoteType ==
  ASSUME hour \in Seq(Attempt), NEW S \in SUBSET Times, NEW known \in BOOLEAN
  PROVE  /\ Note(S, known) \in Seq(Attempt)
         /\ Len(Note(S, known)) = Len(hour) + 1
         /\ \A i \in 1 .. Len(hour) : Note(S, known)[i] = hour[i]
         /\ Note(S, known)[Len(hour) + 1].try
<1>1. [pts |-> S, heard |-> FALSE, try |-> TRUE, cnt |-> 0,
       tryFile |-> FALSE, cntFile |-> 0, known |-> known] \in Attempt
  BY DEF Attempt
<1>. QED
  BY <1>1, AppendProperties DEF Note

\* A sequence of attempts with one replaced by an attempt that counts as well.
LEMMA ReplaceType ==
  ASSUME NEW h \in Seq(Attempt), NEW i \in 1 .. Len(h), NEW a \in Attempt, a.try = h[i].try
  PROVE  /\ [h EXCEPT ![i] = a] \in Seq(Attempt)
         /\ Len([h EXCEPT ![i] = a]) = Len(h)
         /\ \A j \in 1 .. Len(h) : [h EXCEPT ![i] = a][j].try = h[j].try
<1>1. DOMAIN h = 1 .. Len(h)
  BY LenProperties
<1>2. [h EXCEPT ![i] = a] \in Seq(Attempt) /\ Len([h EXCEPT ![i] = a]) = Len(h)
  BY ExceptSeq
<1>3. \A j \in 1 .. Len(h) : [h EXCEPT ![i] = a][j] = IF j = i THEN a ELSE h[j]
  BY <1>1
<1>. QED
  BY <1>2, <1>3

\* Saving keeps the attempts, and the ring knows them afterwards as before.
LEMMA SaveType ==
  ASSUME NEW f \in Queue, NEW h \in Seq(Attempt), NEW w \in BOOLEAN, Save(f, h, w)
  PROVE  /\ disk' \in Queue /\ waited' \in [ram : BOOLEAN, file : BOOLEAN]
         /\ hour' \in Seq(Attempt) /\ Len(hour') = Len(h)
         /\ \A i \in 1 .. Len(h) : hour'[i].try = h[i].try
<1>1. DOMAIN f \in SUBSET Times /\ \A p \in DOMAIN f : f[p] \in Item
  BY QueueElim
<1>2. \A p \in DOMAIN f : [f[p] EXCEPT !.wait = FALSE] \in Item
  BY <1>1 DEF Item
<1>3. disk' = [p \in DOMAIN f |-> [f[p] EXCEPT !.wait = FALSE]]
  BY DEF Save
<1>4. disk' \in Queue
  BY <1>1, <1>2, <1>3, QueueIntro
<1>5. Len(h) \in Nat /\ DOMAIN h = 1 .. Len(h) /\ \A i \in 1 .. Len(h) : h[i] \in Attempt
  BY LenProperties, ElementOfSeq
<1>. DEFINE e(i) == [h[i] EXCEPT !.tryFile = h[i].try, !.cntFile = h[i].cnt]
<1>6. \A i \in 1 .. Len(h) : e(i) \in Attempt /\ e(i).try = h[i].try
  BY <1>5 DEF Attempt
<1>7. hour' = [i \in 1 .. Len(h) |-> e(i)]
  BY <1>5 DEF Save
<1>. HIDE DEF e
<1>8. hour' \in Seq(Attempt)
  BY <1>5, <1>6, <1>7, IsASeq
<1>9. Len(hour') = Len(h)
  BY <1>5, <1>7, <1>8, LenProperties
<1>. QED
  BY <1>4, <1>6, <1>7, <1>8, <1>9 DEF Save
-----------------------------------------------------------------------------
LEMMA TypeInit == Init => DrainTypeOK
<1>. SUFFICES ASSUME Init  PROVE DrainTypeOK
  OBVIOUS
<1>1. items \in Queue
  <2>1. items \in [{} -> Item] /\ {} \in SUBSET Times
    BY DEF Init
  <2>. QED  BY <2>1, QueueIntro
<1>2. hour \in Seq(Attempt)
  BY EmptySeq DEF Init
<1>. QED
  BY <1>1, <1>2, DrainAssumption DEF Init, DrainTypeOK

\* The steps that leave the attempts alone, or only save them.
LEMMA QuietTypes ==
  ASSUME DrainTypeOK,
         \/ SaveNew \/ CoverageOld \/ WachtOver \/ ParkedReset
         \/ FlushWaits \/ FlushBegin \/ FlushPause \/ FlushStop \/ NotHeard
         \/ \E firm, strong \in BOOLEAN : Coverage(firm, strong)
         \/ \E p \in Times : Arrive(p) \/ RetryDue(p)
         \/ UNCHANGED vars
  PROVE  /\ DrainTypeOK'
         /\ Len(hour') = Len(hour)
         /\ \A i \in 1 .. Len(hour) : hour'[i].try = hour[i].try
<1>. USE DEF DrainTypeOK
<1>0. /\ Queued \in SUBSET Times /\ items \in [Queued -> Item]
      /\ waited.ram \in BOOLEAN /\ waited.file \in BOOLEAN
  BY QueueElim DEF Queued
<1>1. CASE \E p \in Times : Arrive(p)
  <2>1. PICK p \in Times : Arrive(p)
    BY <1>1
  <2>2. items' \in [Queued \cup {p} -> Item]
    BY <1>0, <2>1, NewType DEF Arrive
  <2>3. items' \in Queue
    BY <1>0, <2>2, QueueIntro
  <2>. QED
    BY <2>1, <2>3 DEF Arrive
<1>2. CASE SaveNew
  BY <1>0, <1>2, SaveType DEF SaveNew
<1>3. CASE CoverageOld
  BY <1>3 DEF CoverageOld
<1>4. CASE WachtOver
  BY <1>4 DEF WachtOver
<1>5. CASE ParkedReset
  <2>1. items' \in [Queued -> Item]
    BY <1>0, <1>5, NewType DEF ParkedReset
  <2>2. items' \in Queue
    BY <1>0, <2>1, QueueIntro
  <2>. QED
    BY <1>0, <1>5, <2>2, SaveType DEF ParkedReset
<1>. DEFINE Rounds == [active : BOOLEAN, pending : BOOLEAN, full : BOOLEAN]
<1>a. Full \in BOOLEAN
  BY DEF Full
<1>6. CASE FlushWaits
  <2>1. round' \in Rounds
    BY <1>a, <1>6 DEF FlushWaits
  <2>. QED  BY <1>6, <2>1 DEF FlushWaits
<1>7. CASE FlushBegin
  BY <1>a, <1>7 DEF FlushBegin
<1>8. CASE FlushPause
  <2>1. round' \in Rounds
    BY <1>a, <1>8 DEF FlushPause
  <2>. QED  BY <1>8, <2>1 DEF FlushPause
<1>9. CASE FlushStop
  BY <1>9 DEF FlushStop, Stopped, StopsCov
<1>10. CASE NotHeard
  <2>1. items' \in Queue
    BY <1>10, UnheardType DEF NotHeard
  <2>2. fly' \subseteq Times /\ round' \in [active : BOOLEAN, pending : BOOLEAN, full : BOOLEAN]
        /\ cov' \in [stable : BOOLEAN, strong : BOOLEAN]
    BY <1>10 DEF NotHeard, Stopped, StopsCov
  <2>. QED
    BY <1>0, <1>10, <2>1, <2>2, SaveType DEF NotHeard
<1>11. CASE \E firm, strong \in BOOLEAN : Coverage(firm, strong)
  BY <1>11 DEF Coverage
<1>12. CASE \E p \in Times : RetryDue(p)
  <2>1. PICK p \in Times : RetryDue(p)
    BY <1>12
  <2>2. items' \in [Queued -> Item]
    BY <1>0, <2>1 DEF RetryDue, Item
  <2>3. items' \in Queue
    BY <1>0, <2>2, QueueIntro
  <2>. QED
    BY <2>1, <2>3 DEF RetryDue
<1>13. CASE UNCHANGED vars
  BY <1>13 DEF vars
<1>. QED
  BY <1>1, <1>2, <1>3, <1>4, <1>5, <1>6, <1>7, <1>8, <1>9, <1>10, <1>11, <1>12, <1>13
-----------------------------------------------------------------------------
\* A message notes one attempt.
LEMMA SendTypes ==
  ASSUME DrainTypeOK, NEW c \in Times, NEW partial \in BOOLEAN,
         SendFlush(c, partial) \/ SendFlushFails(c, partial)
  PROVE  /\ DrainTypeOK'
         /\ ~Capped
         /\ Len(hour') = Len(hour) + 1
         /\ \A i \in 1 .. Len(hour) : hour'[i].try = hour[i].try
         /\ hour'[Len(hour) + 1].try
<1>. USE DEF DrainTypeOK
<1>1. /\ Full \in BOOLEAN /\ waited.ram \in BOOLEAN /\ waited.file \in BOOLEAN
      /\ Len(hour) \in Nat
  BY LenProperties DEF Full
<1>2. OldestOf(Pick, c) \in SUBSET Times
  BY PickType
<1>3. CASE SendFlush(c, partial)
  <2>1. fly' \in SUBSET Times /\ hour' = Note(fly', TRUE) /\ ~Capped
    BY <1>2, <1>3 DEF SendFlush, MaySend
  <2>2. waited' \in [ram : BOOLEAN, file : BOOLEAN]
    BY <1>1, <1>3 DEF SendFlush
  <2>3. round' \in [active : BOOLEAN, pending : BOOLEAN, full : BOOLEAN]
    BY <1>1, <1>3 DEF SendFlush
  <2>4. /\ hour' \in Seq(Attempt) /\ Len(hour') = Len(hour) + 1
        /\ \A i \in 1 .. Len(hour) : hour'[i] = hour[i]
        /\ hour'[Len(hour) + 1].try
    BY <2>1, NoteType
  <2>5. UNCHANGED <<wacht, items, disk, cov, boots>>
    BY <1>3 DEF SendFlush
  <2>. QED
    BY <2>1, <2>2, <2>3, <2>4, <2>5
<1>4. CASE SendFlushFails(c, partial)
  <2>. DEFINE h == Note(OldestOf(Pick, c), FALSE)
  <2>1. items' \in Queue
    BY <1>2, <1>4, UnheardType DEF SendFlushFails
  <2>2. /\ h \in Seq(Attempt) /\ Len(h) = Len(hour) + 1
        /\ \A i \in 1 .. Len(hour) : h[i] = hour[i]
        /\ h[Len(hour) + 1].try
    BY <1>2, NoteType
  <2>3. (waited.ram /\ Full) \in BOOLEAN
    OBVIOUS
  <2>4. Save(items', h, waited.ram /\ Full) /\ ~Capped
    BY <1>4 DEF SendFlushFails, MaySend
  <2>. HIDE DEF h
  <2>5. /\ disk' \in Queue /\ waited' \in [ram : BOOLEAN, file : BOOLEAN]
        /\ hour' \in Seq(Attempt) /\ Len(hour') = Len(h)
        /\ \A i \in 1 .. Len(h) : hour'[i].try = h[i].try
    BY <2>1, <2>2, <2>3, <2>4, SaveType
  <2>6. /\ round' \in [active : BOOLEAN, pending : BOOLEAN, full : BOOLEAN]
        /\ cov' \in [stable : BOOLEAN, strong : BOOLEAN]
    BY <1>1, <1>4 DEF SendFlushFails, Stopped, StopsCov
  <2>7. UNCHANGED <<wacht, fly, boots>>
    BY <1>4 DEF SendFlushFails
  <2>8. /\ Len(hour') = Len(hour) + 1
        /\ \A i \in 1 .. Len(hour) : hour'[i].try = hour[i].try
        /\ hour'[Len(hour) + 1].try
    <3>1. hour'[Len(hour) + 1].try
      BY <1>1, <2>2, <2>5
    <3>2. \A i \in 1 .. Len(hour) : hour'[i].try = hour[i].try
      <4>. TAKE i \in 1 .. Len(hour)
      <4>1. i \in 1 .. Len(h)
        BY <1>1, <2>2
      <4>. QED  BY <2>2, <2>5, <4>1
    <3>. QED  BY <2>2, <2>5, <3>1, <3>2
  <2>9. DrainTypeOK'
    BY <2>1, <2>5, <2>6, <2>7
  <2>. QED
    BY <2>4, <2>8, <2>9
<1>. QED
  BY <1>3, <1>4

\* The steps that change what is known of an attempt, or forget the oldest.
LEMMA OutcomeTypes ==
  ASSUME DrainTypeOK,
         \/ \E firm, strong \in BOOLEAN : Heard(firm, strong)
         \/ \E i \in DOMAIN hour : Confirmed(i)
  PROVE  /\ DrainTypeOK'
         /\ Len(hour') = Len(hour)
         /\ \A i \in 1 .. Len(hour) : hour'[i].try = hour[i].try
<1>. USE DEF DrainTypeOK
<1>1. /\ waited.ram \in BOOLEAN /\ waited.file \in BOOLEAN
      /\ Len(hour) \in Nat /\ DOMAIN hour = 1 .. Len(hour)
      /\ \A i \in 1 .. Len(hour) : hour[i] \in Attempt
  BY LenProperties, ElementOfSeq
<1>2. CASE \E firm, strong \in BOOLEAN : Heard(firm, strong)
  <2>1. PICK firm \in BOOLEAN, strong \in BOOLEAN : Heard(firm, strong)
    BY <1>2
  <2>. DEFINE h == [hour EXCEPT ![Len(hour)].cnt = @ + 1, ![Len(hour)].heard = TRUE]
  <2>2. items' \in Queue
    BY <2>1, WithoutType DEF Heard
  <2>3. /\ h \in Seq(Attempt) /\ Len(h) = Len(hour)
        /\ \A i \in 1 .. Len(hour) : h[i].try = hour[i].try
    <3>1. CASE hour = <<>>
      <4>1. h = hour
        BY <1>1, <3>1
      <4>. QED  BY <4>1
    <3>2. CASE hour # <<>>
      <4>1. Len(hour) \in 1 .. Len(hour)
        BY <1>1, <3>2
      <4>2. h = [hour EXCEPT ![Len(hour)] = [hour[Len(hour)] EXCEPT !.cnt = @ + 1, !.heard = TRUE]]
        BY <1>1, <4>1
      <4>. DEFINE a == [hour[Len(hour)] EXCEPT !.cnt = @ + 1, !.heard = TRUE]
      <4>3. a \in Attempt /\ a.try = hour[Len(hour)].try
        <5>1. hour[Len(hour)] \in Attempt /\ hour[Len(hour)].cnt + 1 \in Nat
          BY <1>1, <4>1 DEF Attempt
        <5>. QED  BY <5>1 DEF Attempt
      <4>4. h = [hour EXCEPT ![Len(hour)] = a]
        BY <4>2
      <4>. HIDE DEF a, h
      <4>. QED  BY <4>1, <4>3, <4>4, ReplaceType
    <3>. QED  BY <3>1, <3>2
  <2>4. Save(items', h, FALSE)
    BY <2>1 DEF Heard
  <2>. HIDE DEF h
  <2>5. /\ disk' \in Queue /\ waited' \in [ram : BOOLEAN, file : BOOLEAN]
        /\ hour' \in Seq(Attempt) /\ Len(hour') = Len(h)
        /\ \A i \in 1 .. Len(h) : hour'[i].try = h[i].try
    BY <2>2, <2>3, <2>4, SaveType
  <2>6. /\ round' \in [active : BOOLEAN, pending : BOOLEAN, full : BOOLEAN]
        /\ cov' \in [stable : BOOLEAN, strong : BOOLEAN] /\ fly' \subseteq Times
        /\ UNCHANGED <<wacht, boots>>
    BY <2>1 DEF Heard
  <2>. QED
    BY <2>2, <2>3, <2>5, <2>6
<1>3. CASE \E i \in DOMAIN hour : Confirmed(i)
  <2>1. PICK i \in 1 .. Len(hour) : Confirmed(i)
    BY <1>1, <1>3
  <2>. DEFINE h == [hour EXCEPT ![i].cnt = IF ~hour[i].heard THEN @ + 1 ELSE @, ![i].known = FALSE]
  <2>2. items' \in Queue
    BY <2>1, WithoutType DEF Confirmed
  <2>3. /\ h \in Seq(Attempt) /\ Len(h) = Len(hour)
        /\ \A j \in 1 .. Len(hour) : h[j].try = hour[j].try
    <3>1. h = [hour EXCEPT ![i] = [hour[i] EXCEPT !.cnt = IF ~hour[i].heard THEN @ + 1 ELSE @, !.known = FALSE]]
      BY <1>1
    <3>. DEFINE a == [hour[i] EXCEPT !.cnt = IF ~hour[i].heard THEN @ + 1 ELSE @, !.known = FALSE]
    <3>2. a \in Attempt /\ a.try = hour[i].try
      <4>. DEFINE n == IF ~hour[i].heard THEN hour[i].cnt + 1 ELSE hour[i].cnt
      <4>1. hour[i] \in Attempt /\ n \in Nat
        BY <1>1 DEF Attempt
      <4>2. a = [hour[i] EXCEPT !.cnt = n, !.known = FALSE]
        BY <4>1 DEF Attempt
      <4>. HIDE DEF n, a
      <4>. QED  BY <4>1, <4>2 DEF Attempt
    <3>3. h = [hour EXCEPT ![i] = a]
      BY <3>1
    <3>. HIDE DEF a, h
    <3>. QED  BY <3>2, <3>3, ReplaceType
  <2>. HIDE DEF h
  <2>4. PICK w \in BOOLEAN : Save(items', h, w) \/ (hour' = h /\ UNCHANGED <<disk, waited>>)
    BY <1>1, <2>1 DEF Confirmed, h
  <2>5. /\ disk' \in Queue /\ waited' \in [ram : BOOLEAN, file : BOOLEAN]
        /\ hour' \in Seq(Attempt) /\ Len(hour') = Len(h)
        /\ \A j \in 1 .. Len(h) : hour'[j].try = h[j].try
    BY <2>2, <2>3, <2>4, SaveType
  <2>6. /\ cov' \in [stable : BOOLEAN, strong : BOOLEAN]
        /\ UNCHANGED <<wacht, round, fly, boots>>
    BY <2>1 DEF Confirmed
  <2>. QED
    BY <2>2, <2>3, <2>5, <2>6
<1>. QED
  BY <1>2, <1>3

LEMMA HourOverTypes ==
  ASSUME DrainTypeOK, HourOver
  PROVE  /\ DrainTypeOK'
         /\ Len(hour') = Len(hour) - 1
         /\ \A i \in 1 .. Len(hour') : hour'[i].try = hour[i + 1].try
BY HeadTailProperties DEF HourOver, DrainTypeOK

LEMMA RebootTypes ==
  ASSUME DrainTypeOK, Reboot
  PROVE  DrainTypeOK' /\ 0 < MaxBoots
<1>. USE DEF DrainTypeOK
<1>1. /\ Len(hour) \in Nat /\ DOMAIN hour = 1 .. Len(hour)
      /\ \A i \in 1 .. Len(hour) : hour[i] \in Attempt
  BY LenProperties, ElementOfSeq
<1>. DEFINE e(i) == [hour[i] EXCEPT !.try = hour[i].tryFile, !.cnt = hour[i].cntFile,
                                    !.known = FALSE]
<1>2. \A i \in 1 .. Len(hour) : e(i) \in Attempt
  BY <1>1 DEF Attempt
<1>3. hour' = [i \in 1 .. Len(hour) |-> e(i)]
  BY <1>1 DEF Reboot
<1>. HIDE DEF e
<1>4. hour' \in Seq(Attempt)
  BY <1>1, <1>2, <1>3, IsASeq
<1>5. /\ items' = disk /\ disk' = disk /\ wacht' = wacht /\ fly' = {}
      /\ round' \in [active : BOOLEAN, pending : BOOLEAN, full : BOOLEAN]
      /\ cov' \in [stable : BOOLEAN, strong : BOOLEAN]
  BY DEF Reboot
<1>6. waited' \in [ram : BOOLEAN, file : BOOLEAN]
  <2>1. waited.file \in BOOLEAN
    OBVIOUS
  <2>2. waited' = [waited EXCEPT !.ram = waited.file]
    BY DEF Reboot
  <2>. QED  BY <2>1, <2>2
<1>7. boots' \in 0 .. MaxBoots /\ 0 < MaxBoots
  <2>1. boots \in 0 .. MaxBoots /\ boots < MaxBoots /\ boots' = boots + 1
    BY DEF Reboot
  <2>. QED  BY <2>1, DrainAssumption
<1>. QED
  BY <1>4, <1>5, <1>6, <1>7
-----------------------------------------------------------------------------
LEMMA TypeNext == DrainTypeOK /\ [Next]_vars => DrainTypeOK'
<1>. SUFFICES ASSUME DrainTypeOK, [Next]_vars  PROVE DrainTypeOK'
  OBVIOUS
<1>1. CASE \E c \in Times, partial \in BOOLEAN : SendFlush(c, partial) \/ SendFlushFails(c, partial)
  BY <1>1, SendTypes
<1>2. CASE (\E firm, strong \in BOOLEAN : Heard(firm, strong)) \/ \E i \in DOMAIN hour : Confirmed(i)
  BY <1>2, OutcomeTypes
<1>3. CASE HourOver
  BY <1>3, HourOverTypes
<1>4. CASE Reboot
  BY <1>4, RebootTypes
<1>. QED
  BY <1>1, <1>2, <1>3, <1>4, QuietTypes DEF Next

\* The variables keep their types for every size of the queue, every number of
\* attempts and every limit: the counter of attempts of a point saturates, and
\* what fifo_load reads is what fifo_save wrote.
THEOREM DrainTypes == Spec => []DrainTypeOK
<1>. QED
  BY TypeInit, TypeNext, PTL DEF Spec

\* The attempts whose message a repeater was heard with, and those that the ring
\* of attempts (s_ring_try) has lost in a restart.
HeardOf(h)   == {i \in DOMAIN h : h[i].heard}
SkippedOf(h) == {i \in DOMAIN h : ~h[i].try}

\* The file knows of every attempt but the one whose outcome is awaited, and of
\* every repetition that was heard.
InFile ==
  \A i \in DOMAIN hour :
    /\ hour[i].tryFile => hour[i].try
    /\ hour[i].try /\ ~hour[i].tryFile => fly # {} /\ i = Len(hour)
    /\ hour[i].heard => hour[i].cnt > 0 /\ hour[i].cntFile > 0

\* A restart loses at most the attempt that was under way; while one is under
\* way, there is room for its repetition (fl_cap looked before it went).
RingInv ==
  /\ DrainTypeOK /\ InFile
  /\ fly # {} => hour # <<>> /\ Cardinality(HeardOf(hour)) < PerHour
  /\ RepeatedCapped
  /\ Cardinality(SkippedOf(hour)) <= boots
  /\ AttemptsCapped

LEMMA HourFacts ==
  ASSUME DrainTypeOK
  PROVE  /\ Len(hour) \in Nat /\ DOMAIN hour = 1 .. Len(hour)
         /\ \A i \in DOMAIN hour : hour[i] \in Attempt
         /\ PerHour \in Nat /\ PerHour > 0 /\ boots \in Nat /\ MaxBoots \in Nat
BY LenProperties, ElementOfSeq, DrainAssumption DEF DrainTypeOK

\* The positions in a sequence are few enough to be counted.
LEMMA Counts ==
  ASSUME NEW n \in Nat, NEW S \in SUBSET (1 .. n)
  PROVE  IsFiniteSet(S) /\ Cardinality(S) \in Nat /\ Cardinality(S) <= n
<1>1. IsFiniteSet(1 .. n) /\ Cardinality(1 .. n) = n
  <2>1. 1 \in Int /\ n \in Int
    OBVIOUS
  <2>2. IsFiniteSet(1 .. n) /\ Cardinality(1 .. n) = IF 1 > n THEN 0 ELSE n - 1 + 1
    BY <2>1, FS_Interval, Zenon
  <2>. QED  BY <2>2
<1>2. IsFiniteSet(S) /\ Cardinality(S) <= n
  BY <1>1, FS_Subset
<1>. QED
  BY <1>2, FS_CardinalityType

LEMMA CountsUpTo ==
  ASSUME NEW n \in Nat, NEW S \in SUBSET (1 .. n), NEW T \in SUBSET S
  PROVE  Cardinality(T) <= Cardinality(S)
BY Counts, FS_Subset

LEMMA CountsOneMore ==
  ASSUME NEW n \in Nat, NEW S \in SUBSET (1 .. n), NEW k \in 1 .. n, NEW T \in SUBSET (S \cup {k})
  PROVE  Cardinality(T) <= Cardinality(S) + 1
<1>1. IsFiniteSet(S) /\ Cardinality(S) \in Nat
  BY Counts
<1>2. IsFiniteSet(S \cup {k}) /\ Cardinality(S \cup {k}) <= Cardinality(S) + 1
  BY <1>1, FS_AddElement
<1>3. Cardinality(T) <= Cardinality(S \cup {k})
  BY <1>2, FS_Subset
<1>4. Cardinality(T) \in Nat /\ Cardinality(S \cup {k}) \in Nat
  BY <1>2, FS_Subset, FS_CardinalityType
<1>. QED
  BY <1>1, <1>2, <1>3, <1>4

\* What is counted moves up one place when the oldest attempt is forgotten.
LEMMA CountsMoved ==
  ASSUME NEW n \in Nat, NEW S \in SUBSET (1 .. n), NEW m \in Nat, NEW T \in SUBSET (1 .. m),
         \A i \in T : i + 1 \in S
  PROVE  Cardinality(T) <= Cardinality(S)
<1>. DEFINE f == [i \in T |-> i + 1]
<1>1. f \in Injection(T, S)
  BY DEF Injection, IsInjective
<1>2. IsFiniteSet(S)
  BY Counts
<1>. QED
  BY <1>1, <1>2, FS_Injection

\* While a limit is not reached, there is room for one attempt and for its repetition.
LEMMA CappedCounts ==
  ASSUME RingInv, ~Capped
  PROVE  Len(hour) < 2 * PerHour + boots /\ Cardinality(HeardOf(hour)) < PerHour
<1>. DEFINE n == Len(hour)
            T == {i \in DOMAIN hour : hour[i].try}
            C == {i \in DOMAIN hour : hour[i].cnt > 0}
            D == {i \in DOMAIN hour : hour[i].cnt > 1}
<1>1. /\ n \in Nat /\ DOMAIN hour = 1 .. n /\ PerHour \in Nat /\ boots \in Nat
      /\ InFile /\ Cardinality(SkippedOf(hour)) <= boots
  BY HourFacts DEF RingInv
<1>2. Cardinality(T) < 2 * PerHour /\ Cardinality(C) + Cardinality(D) < PerHour
  <2>1. /\ Cardinality(T) \in Nat /\ Cardinality(C) \in Nat /\ Cardinality(D) \in Nat
    BY <1>1, Counts
  <2>. HIDE DEF T, C, D
  <2>2. ~(Cardinality(T) >= 2 * PerHour) /\ ~(Cardinality(C) + Cardinality(D) >= PerHour)
    BY DEF Capped, Tried, Counted, T, C, D
  <2>. QED  BY <1>1, <2>1, <2>2
<1>3. Cardinality(HeardOf(hour)) < PerHour
  <2>1. HeardOf(hour) \in SUBSET C /\ C \in SUBSET (1 .. n) /\ D \in SUBSET (1 .. n)
    BY <1>1 DEF HeardOf, InFile
  <2>. HIDE DEF C, D
  <2>2. Cardinality(HeardOf(hour)) <= Cardinality(C)
    BY <1>1, <2>1, CountsUpTo
  <2>3. Cardinality(HeardOf(hour)) \in Nat /\ Cardinality(C) \in Nat /\ Cardinality(D) \in Nat
    BY <1>1, <2>1, Counts
  <2>. QED  BY <1>1, <1>2, <2>2, <2>3
<1>4. n = Cardinality(T) + Cardinality(SkippedOf(hour))
  <2>1. T \cup SkippedOf(hour) = 1 .. n /\ T \cap SkippedOf(hour) = {}
        /\ T \in SUBSET (1 .. n) /\ SkippedOf(hour) \in SUBSET (1 .. n)
    BY <1>1 DEF SkippedOf
  <2>. HIDE DEF T, C, D, n
  <2>2. IsFiniteSet(T) /\ IsFiniteSet(SkippedOf(hour)) /\ Cardinality(T) \in Nat
        /\ Cardinality(SkippedOf(hour)) \in Nat
    BY <1>1, <2>1, Counts
  <2>3. Cardinality(1 .. n) = Cardinality(T) + Cardinality(SkippedOf(hour))
                                - Cardinality({})
    BY <2>1, <2>2, FS_Union
  <2>4. Cardinality(1 .. n) = n
    <3>1. 1 \in Int /\ n \in Int
      BY <1>1
    <3>2. Cardinality(1 .. n) = IF 1 > n THEN 0 ELSE n - 1 + 1
      BY <3>1, FS_Interval, Zenon
    <3>. QED  BY <1>1, <3>2
  <2>. QED  BY <1>1, <2>2, <2>3, <2>4, FS_EmptySet
<1>5. Cardinality(T) \in Nat /\ Cardinality(SkippedOf(hour)) \in Nat
  BY <1>1, Counts DEF SkippedOf
<1>. HIDE DEF T, C, D
<1>6. n < 2 * PerHour + boots
  BY <1>1, <1>2, <1>4, <1>5
<1>. QED
  BY <1>3, <1>6

\* The steps after which every attempt is marked as before, or as before and saved.
LEMMA RingMarks ==
  ASSUME RingInv, DrainTypeOK', boots' = boots, Len(hour') = Len(hour),
         fly' = fly \/ (fly' = {} /\ \A i \in DOMAIN hour : hour'[i].tryFile = hour[i].try),
         \A i \in DOMAIN hour :
           /\ hour'[i].try = hour[i].try /\ hour'[i].heard = hour[i].heard
           /\ hour'[i].tryFile \in {hour[i].try, hour[i].tryFile}
           /\ hour'[i].heard => hour'[i].cnt > 0 /\ hour'[i].cntFile > 0
  PROVE  RingInv'
<1>1. DOMAIN hour' = DOMAIN hour /\ DOMAIN hour = 1 .. Len(hour) /\ Len(hour) \in Nat
  <2>1. DOMAIN hour = 1 .. Len(hour) /\ Len(hour) \in Nat
    BY HourFacts DEF RingInv
  <2>2. DOMAIN hour' = 1 .. Len(hour')
    BY LenProperties DEF DrainTypeOK
  <2>. QED  BY <2>1, <2>2
<1>2. HeardOf(hour') = HeardOf(hour) /\ SkippedOf(hour') = SkippedOf(hour)
  BY <1>1 DEF HeardOf, SkippedOf
<1>3. InFile'
  BY <1>1 DEF RingInv, InFile
<1>4. (hour # <<>>) => (hour' # <<>>)
  BY <1>1
<1>. QED
  BY <1>2, <1>3, <1>4 DEF RingInv, RepeatedCapped, HeardOf, AttemptsCapped

\* fifo_save marks every attempt in the file as it is.
LEMMA SaveMarks ==
  ASSUME NEW f, NEW h \in Seq(Attempt), NEW w, Save(f, h, w)
  PROVE  /\ DOMAIN hour' = DOMAIN h
         /\ \A i \in DOMAIN h :
              /\ hour'[i].try = h[i].try /\ hour'[i].heard = h[i].heard
              /\ hour'[i].cnt = h[i].cnt
              /\ hour'[i].tryFile = h[i].try /\ hour'[i].cntFile = h[i].cnt
<1>1. \A i \in DOMAIN h : h[i] \in Attempt
  BY LenProperties, ElementOfSeq
<1>2. hour' = [i \in DOMAIN h |-> [h[i] EXCEPT !.tryFile = h[i].try, !.cntFile = h[i].cnt]]
  BY DEF Save
<1>. QED
  BY <1>1, <1>2 DEF Attempt

LEMMA RingInit == Init => RingInv
<1>. SUFFICES ASSUME Init PROVE RingInv
  OBVIOUS
<1>1. DrainTypeOK /\ hour = <<>> /\ fly = {} /\ boots = 0 /\ DOMAIN hour = {} /\ Len(hour) = 0
  BY TypeInit DEF Init
<1>2. HeardOf(hour) = {} /\ SkippedOf(hour) = {}
  BY <1>1 DEF HeardOf, SkippedOf
<1>. QED
  BY <1>1, <1>2, FS_EmptySet, DrainAssumption
     DEF RingInv, InFile, RepeatedCapped, HeardOf, AttemptsCapped

LEMMA QuietRing ==
  ASSUME RingInv, DrainTypeOK',
         \/ SaveNew \/ CoverageOld \/ WachtOver \/ ParkedReset
         \/ FlushWaits \/ FlushBegin \/ FlushPause \/ FlushStop \/ NotHeard
         \/ \E firm, strong \in BOOLEAN : Coverage(firm, strong)
         \/ \E p \in Times : Arrive(p) \/ RetryDue(p)
         \/ UNCHANGED vars
  PROVE  RingInv'
<1>1. DrainTypeOK /\ InFile /\ hour \in Seq(Attempt)
  BY DEF RingInv, DrainTypeOK
<1>2. CASE hour' = hour /\ fly' = fly /\ boots' = boots
  BY <1>1, <1>2, RingMarks DEF InFile
<1>3. CASE SaveNew \/ ParkedReset \/ NotHeard
  <2>1. PICK f, w : Save(f, hour, w)
    BY <1>3 DEF SaveNew, ParkedReset, NotHeard
  <2>2. /\ DOMAIN hour' = DOMAIN hour
        /\ \A i \in DOMAIN hour :
             /\ hour'[i].try = hour[i].try /\ hour'[i].heard = hour[i].heard
             /\ hour'[i].cnt = hour[i].cnt
             /\ hour'[i].tryFile = hour[i].try /\ hour'[i].cntFile = hour[i].cnt
    BY <1>1, <2>1, SaveMarks
  <2>3. (fly' = fly \/ fly' = {}) /\ boots' = boots
    BY <1>3 DEF SaveNew, ParkedReset, NotHeard
  <2>4. Len(hour') = Len(hour)
    BY <1>1, <2>2, LenProperties DEF DrainTypeOK
  <2>. QED
    BY <1>1, <2>2, <2>3, <2>4, RingMarks DEF InFile
<1>. QED
  BY <1>2, <1>3 DEF Arrive, CoverageOld, WachtOver, FlushWaits, FlushBegin, FlushPause,
     FlushStop, Coverage, RetryDue, vars

\* A message has a point, the oldest of those that may go.
LEMMA SomeOldest ==
  ASSUME NEW S \in SUBSET Times, S # {}, NEW c \in Times
  PROVE  OldestOf(S, c) # {}
<1>. DEFINE Before(x) == {q \in S : q < x}
            T == {Before(x) : x \in S}
            R == StrictSubsetOrdering(S)
<1>1. PICK D \in T : \A E \in T : <<E, D>> \notin R
  <2>1. IsFiniteSet(1 .. MaxTs)
    <3>1. 1 \in Int /\ MaxTs \in Int
      BY DrainAssumption
    <3>. QED  BY <3>1, FS_Interval
  <2>2. IsWellFoundedOn(R, SUBSET S)
    BY <2>1, FS_Subset, FS_FiniteSubsetsOfFinite, FS_StrictSubsetOrderingWellFounded DEF Times
  <2>3. T \subseteq SUBSET S /\ T # {}
    OBVIOUS
  <2>. HIDE DEF T, R
  <2>. QED  BY <2>2, <2>3, WFMin
<1>2. PICK p \in S : {q \in S : q < p} = {}
  <2>1. PICK x \in S : D = Before(x)
    BY <1>1
  <2>2. ASSUME NEW y \in S, y < x
        PROVE  FALSE
    <3>. S \subseteq Int
      BY DEF Times
    <3>1. y \in Before(x) /\ y \notin Before(y)
      BY <2>2
    <3>a. \A q \in S : q < y => q < x
      BY <2>2
    <3>2. Before(y) \subseteq Before(x)
      BY <3>a
    <3>3. <<Before(y), Before(x)>> \in R
      BY <3>1, <3>2 DEF StrictSubsetOrdering
    <3>. QED  BY <1>1, <2>1, <3>3
  <2>. QED  BY <2>2
<1>3. Cardinality({q \in S : q < p}) = 0
  BY <1>2, FS_EmptySet
<1>4. 0 < c
  BY DrainAssumption DEF Times
<1>. QED
  BY <1>3, <1>4 DEF OldestOf

\* A new attempt is in the ring, and was not heard yet.
LEMMA NoteMarks ==
  ASSUME hour \in Seq(Attempt), NEW S \in SUBSET Times, NEW known \in BOOLEAN
  PROVE  /\ DOMAIN Note(S, known) = 1 .. Len(hour) + 1
         /\ \A i \in 1 .. Len(hour) : Note(S, known)[i] = hour[i]
         /\ Note(S, known)[Len(hour) + 1].try /\ ~Note(S, known)[Len(hour) + 1].heard
BY AppendProperties, LenProperties DEF Note

\* One attempt more, for which there was room.
LEMMA RingNoted ==
  ASSUME RingInv, DrainTypeOK', ~Capped, boots' = boots, fly = {},
         DOMAIN hour' = 1 .. Len(hour) + 1,
         hour'[Len(hour) + 1].try, ~hour'[Len(hour) + 1].heard,
         hour'[Len(hour) + 1].tryFile \/ fly' # {},
         \A i \in DOMAIN hour :
           /\ hour'[i].try = hour[i].try /\ hour'[i].heard = hour[i].heard
           /\ hour'[i].tryFile \in {hour[i].try, hour[i].tryFile}
           /\ hour'[i].heard => hour'[i].cnt > 0 /\ hour'[i].cntFile > 0
  PROVE  RingInv'
<1>1. /\ Len(hour) \in Nat /\ DOMAIN hour = 1 .. Len(hour) /\ PerHour \in Nat /\ boots \in Nat
      /\ InFile /\ DOMAIN hour' = 1 .. Len(hour') /\ Len(hour') \in Nat
  BY HourFacts, LenProperties DEF RingInv, DrainTypeOK
<1>2. Len(hour') = Len(hour) + 1 /\ hour' # <<>>
  BY <1>1
<1>3. HeardOf(hour') = HeardOf(hour) /\ SkippedOf(hour') = SkippedOf(hour)
  BY <1>1 DEF HeardOf, SkippedOf
<1>4. Len(hour) < 2 * PerHour + boots /\ Cardinality(HeardOf(hour)) < PerHour
  BY CappedCounts
<1>5. InFile'
  <2> SUFFICES ASSUME NEW i \in 1 .. Len(hour) + 1
               PROVE  /\ hour'[i].tryFile => hour'[i].try
                      /\ hour'[i].try /\ ~hour'[i].tryFile => fly' # {} /\ i = Len(hour')
                      /\ hour'[i].heard => hour'[i].cnt > 0 /\ hour'[i].cntFile > 0
    BY DEF InFile
  <2>1. CASE i \in DOMAIN hour
    BY <1>1, <2>1 DEF InFile
  <2>2. CASE i = Len(hour) + 1
    BY <1>2, <2>2
  <2>. QED  BY <1>1, <2>1, <2>2
<1>6. RepeatedCapped' /\ Cardinality(SkippedOf(hour')) <= boots'
  BY <1>3 DEF RingInv, RepeatedCapped, HeardOf
<1>7. Len(hour') <= 2 * PerHour + boots'
  BY <1>1, <1>2, <1>4
<1>. QED
  BY <1>2, <1>3, <1>4, <1>5, <1>6, <1>7 DEF RingInv, AttemptsCapped

LEMMA SendRing ==
  ASSUME RingInv, DrainTypeOK', NEW c \in Times, NEW partial \in BOOLEAN,
         SendFlush(c, partial) \/ SendFlushFails(c, partial)
  PROVE  RingInv'
<1>1. /\ DrainTypeOK /\ InFile /\ hour \in Seq(Attempt) /\ items \in Queue
      /\ DOMAIN hour = 1 .. Len(hour) /\ Len(hour) \in Nat
  BY HourFacts DEF RingInv, DrainTypeOK
<1>2. MaySend(partial) /\ ~Capped /\ fly = {} /\ boots' = boots
  BY DEF SendFlush, SendFlushFails, MaySend, Looks
<1>. DEFINE S == OldestOf(Pick, c)
<1>3. S \in SUBSET Times /\ S # {}
  <2>1. Pick \in SUBSET Times
    BY <1>1, PickType
  <2>2. Pick # {}
    <3>1. CASE Full
      <4>1. Cardinality({}) = 0
        BY FS_EmptySet
      <4>. QED  BY <3>1, <4>1, DrainAssumption DEF Full
    <3>. QED  BY <1>2, <3>1 DEF MaySend, Ready
  <2>. QED  BY <2>1, <2>2, SomeOldest, <1>1, PickType
<1>. HIDE DEF S
<1>4. CASE SendFlush(c, partial)
  <2>1. hour' = Note(S, TRUE) /\ fly' = S
    BY <1>4 DEF SendFlush, S
  <2>2. /\ DOMAIN hour' = 1 .. Len(hour) + 1
        /\ \A i \in 1 .. Len(hour) : hour'[i] = hour[i]
        /\ hour'[Len(hour) + 1].try /\ ~hour'[Len(hour) + 1].heard
    BY <1>1, <1>3, <2>1, NoteMarks
  <2>. QED
    BY <1>1, <1>2, <1>3, <2>1, <2>2, RingNoted DEF InFile
<1>5. CASE SendFlushFails(c, partial)
  <2>. DEFINE h == Note(S, FALSE)
  <2>1. PICK f, w : Save(f, h, w)
    BY <1>5 DEF SendFlushFails, S
  <2>2. /\ DOMAIN h = 1 .. Len(hour) + 1 /\ h \in Seq(Attempt)
        /\ \A i \in 1 .. Len(hour) : h[i] = hour[i]
        /\ h[Len(hour) + 1].try /\ ~h[Len(hour) + 1].heard
    BY <1>1, <1>3, NoteMarks, NoteType
  <2>. HIDE DEF h
  <2>3. /\ DOMAIN hour' = DOMAIN h
        /\ \A i \in DOMAIN h :
             /\ hour'[i].try = h[i].try /\ hour'[i].heard = h[i].heard
             /\ hour'[i].cnt = h[i].cnt
             /\ hour'[i].tryFile = h[i].try /\ hour'[i].cntFile = h[i].cnt
    BY <2>1, <2>2, SaveMarks
  <2>4. Len(hour) + 1 \in DOMAIN h /\ \A i \in DOMAIN hour : i \in DOMAIN h
    BY <1>1, <2>2
  <2>5. \A i \in DOMAIN hour :
          /\ hour'[i].try = hour[i].try /\ hour'[i].heard = hour[i].heard
          /\ hour'[i].tryFile = hour[i].try
          /\ hour'[i].heard => hour'[i].cnt > 0 /\ hour'[i].cntFile > 0
    BY <1>1, <2>2, <2>3, <2>4 DEF InFile
  <2>. QED
    BY <1>1, <1>2, <2>2, <2>3, <2>4, <2>5, RingNoted
<1>. QED
  BY <1>4, <1>5

\* The outcome of the attempt under way: one heard repetition more.
LEMMA HeardRing ==
  ASSUME RingInv, DrainTypeOK', NEW firm \in BOOLEAN, NEW strong \in BOOLEAN,
         Heard(firm, strong)
  PROVE  RingInv'
<1>. DEFINE n == Len(hour)
            h == [hour EXCEPT ![n].cnt = @ + 1, ![n].heard = TRUE]
<1>1. /\ DrainTypeOK /\ InFile /\ n \in Nat /\ DOMAIN hour = 1 .. n /\ hour # <<>>
      /\ \A i \in DOMAIN hour : hour[i] \in Attempt
      /\ fly' = {} /\ boots' = boots /\ PerHour \in Nat /\ Cardinality(HeardOf(hour)) < PerHour
  BY HourFacts DEF RingInv, Heard
<1>2. n \in DOMAIN hour
  BY <1>1
<1>3. PICK f, w : Save(f, h, w)
  BY DEF Heard
<1>4. /\ h \in Seq(Attempt) /\ DOMAIN h = DOMAIN hour
      /\ \A i \in DOMAIN hour : h[i].try = hour[i].try
      /\ \A i \in DOMAIN hour : i # n => h[i] = hour[i]
      /\ h[n].heard /\ h[n].cnt > 0
  <2>. DEFINE a == [hour[n] EXCEPT !.cnt = @ + 1, !.heard = TRUE]
  <2>1. hour[n] \in Attempt /\ hour[n].cnt + 1 \in Nat /\ hour[n].cnt + 1 > 0
    BY <1>1, <1>2 DEF Attempt
  <2>2. a \in Attempt /\ a.try = hour[n].try /\ a.heard /\ a.cnt > 0
    BY <2>1 DEF Attempt
  <2>3. h = [hour EXCEPT ![n] = a]
    BY <1>2
  <2>. HIDE DEF a
  <2>4. h \in Seq(Attempt)
    <3>1. n \in 1 .. Len(hour) /\ hour \in Seq(Attempt) /\ a \in Attempt /\ a.try = hour[n].try
      BY <1>1, <1>2, <2>2 DEF DrainTypeOK
    <3>. HIDE DEF n
    <3>2. [hour EXCEPT ![n] = a] \in Seq(Attempt)
      BY <3>1, ReplaceType
    <3>. QED  BY <2>3, <3>2
  <2>. QED  BY <1>2, <2>2, <2>3, <2>4
<1>. HIDE DEF h, n
<1>5. /\ DOMAIN hour' = DOMAIN hour
      /\ \A i \in DOMAIN hour :
           /\ hour'[i].try = h[i].try /\ hour'[i].heard = h[i].heard
           /\ hour'[i].tryFile = h[i].try /\ hour'[i].cntFile = h[i].cnt
           /\ hour'[i].cnt = h[i].cnt
  BY <1>3, <1>4, SaveMarks
<1>6. Len(hour') = n
  BY <1>1, <1>5, LenProperties DEF DrainTypeOK
<1>7. \A i \in DOMAIN hour : h[i].heard => h[i].cnt > 0
  BY <1>1, <1>4 DEF InFile
<1>8. InFile'
  BY <1>5, <1>7 DEF InFile
<1>9. HeardOf(hour') \subseteq HeardOf(hour) \cup {n} /\ SkippedOf(hour') = SkippedOf(hour)
  BY <1>4, <1>5 DEF HeardOf, SkippedOf
<1>10. Cardinality(HeardOf(hour')) <= PerHour
  <2>1. HeardOf(hour) \in SUBSET (1 .. n) /\ n \in 1 .. n
    BY <1>1, <1>2 DEF HeardOf
  <2>2. Cardinality(HeardOf(hour')) <= Cardinality(HeardOf(hour)) + 1
    BY <1>1, <1>9, <2>1, CountsOneMore
  <2>3. Cardinality(HeardOf(hour)) \in Nat /\ Cardinality(HeardOf(hour')) \in Nat
    BY <1>1, <1>5, <2>1, Counts DEF HeardOf
  <2>. QED  BY <1>1, <2>2, <2>3
<1>11. Len(hour') <= 2 * PerHour + boots'
  BY <1>1, <1>6 DEF RingInv, AttemptsCapped, n
<1>. QED
  BY <1>1, <1>8, <1>9, <1>10, <1>11 DEF RingInv, RepeatedCapped, HeardOf, AttemptsCapped

\* A T1F counts an attempt, and leaves it as heard or unheard as it was.
LEMMA ConfirmedRing ==
  ASSUME RingInv, DrainTypeOK', NEW k \in DOMAIN hour, Confirmed(k)
  PROVE  RingInv'
<1>. DEFINE h == [hour EXCEPT ![k].cnt = IF ~hour[k].heard THEN @ + 1 ELSE @, ![k].known = FALSE]
<1>1. /\ DrainTypeOK /\ InFile /\ DOMAIN hour = 1 .. Len(hour) /\ Len(hour) \in Nat
      /\ \A i \in DOMAIN hour : hour[i] \in Attempt
      /\ fly' = fly /\ boots' = boots
  BY HourFacts DEF RingInv, Confirmed
<1>2. /\ h \in Seq(Attempt) /\ DOMAIN h = DOMAIN hour
      /\ \A i \in DOMAIN hour :
           /\ h[i].try = hour[i].try /\ h[i].heard = hour[i].heard
           /\ h[i].tryFile = hour[i].tryFile /\ h[i].cntFile = hour[i].cntFile
           /\ hour[i].cnt > 0 => h[i].cnt > 0
  <2>. DEFINE m == IF ~hour[k].heard THEN hour[k].cnt + 1 ELSE hour[k].cnt
              a == [hour[k] EXCEPT !.cnt = m, !.known = FALSE]
  <2>1. hour[k] \in Attempt /\ m \in Nat /\ (hour[k].cnt > 0 => m > 0)
    BY <1>1 DEF Attempt
  <2>2. h = [hour EXCEPT ![k] = a]
    BY <1>1, <2>1 DEF Attempt
  <2>3. /\ a \in Attempt /\ a.try = hour[k].try /\ a.heard = hour[k].heard /\ a.cnt = m
        /\ a.tryFile = hour[k].tryFile /\ a.cntFile = hour[k].cntFile
    <3>. HIDE DEF m
    <3>. QED  BY <2>1 DEF Attempt
  <2>. HIDE DEF a, h, m
  <2>4. h \in Seq(Attempt)
    <3>1. k \in 1 .. Len(hour) /\ hour \in Seq(Attempt) /\ a \in Attempt /\ a.try = hour[k].try
      BY <1>1, <2>3 DEF DrainTypeOK
    <3>2. [hour EXCEPT ![k] = a] \in Seq(Attempt)
      BY <3>1, ReplaceType
    <3>. QED  BY <2>2, <3>2
  <2>5. DOMAIN h = DOMAIN hour /\ \A i \in DOMAIN hour : h[i] = IF i = k THEN a ELSE hour[i]
    BY <2>2
  <2>. QED  BY <2>1, <2>3, <2>4, <2>5
<1>3. (\E f, w : Save(f, h, w)) \/ hour' = h
  BY <1>1 DEF Confirmed
<1>. HIDE DEF h
<1>4. /\ DOMAIN hour' = DOMAIN hour
      /\ \A i \in DOMAIN hour :
           /\ hour'[i].try = h[i].try /\ hour'[i].heard = h[i].heard /\ hour'[i].cnt = h[i].cnt
           /\ hour'[i].tryFile \in {h[i].try, h[i].tryFile}
           /\ hour'[i].cntFile \in {h[i].cnt, h[i].cntFile}
  <2>1. CASE hour' = h
    BY <1>2, <2>1
  <2>2. CASE \E f, w : Save(f, h, w)
    <3>1. PICK f, w : Save(f, h, w)
      BY <2>2
    <3>. QED  BY <1>2, <3>1, SaveMarks
  <2>. QED  BY <1>3, <2>1, <2>2
<1>5. Len(hour') = Len(hour)
  BY <1>1, <1>4, LenProperties DEF DrainTypeOK
<1>6. \A i \in DOMAIN hour :
        /\ hour'[i].try = hour[i].try /\ hour'[i].heard = hour[i].heard
        /\ hour'[i].tryFile \in {hour[i].try, hour[i].tryFile}
        /\ hour'[i].heard => hour'[i].cnt > 0 /\ hour'[i].cntFile > 0
  BY <1>1, <1>2, <1>4 DEF InFile
<1>. QED
  BY <1>1, <1>5, <1>6, RingMarks

LEMMA HourOverRing ==
  ASSUME RingInv, DrainTypeOK', HourOver
  PROVE  RingInv'
<1>. DEFINE n == Len(hour)
<1>1. /\ DrainTypeOK /\ InFile /\ n \in Nat /\ DOMAIN hour = 1 .. n /\ n > 0
      /\ fly # {} => n > 1
      /\ fly' = fly /\ boots' = boots /\ hour' = Tail(hour) /\ hour \in Seq(Attempt)
      /\ PerHour \in Nat /\ boots \in Nat
  BY HourFacts DEF RingInv, HourOver, DrainTypeOK
<1>2. Len(hour') = n - 1 /\ DOMAIN hour' = 1 .. n - 1 /\ \A i \in 1 .. n - 1 : hour'[i] = hour[i + 1]
  BY <1>1, HeadTailProperties, LenProperties
<1>. HIDE DEF n
<1>3. \A i \in 1 .. n - 1 : i + 1 \in DOMAIN hour /\ (i + 1 = n => i = n - 1)
  BY <1>1
<1>4. InFile'
  BY <1>1, <1>2, <1>3 DEF InFile, n
<1>5. n - 1 \in Nat /\ \A i \in HeardOf(hour') : i + 1 \in HeardOf(hour)
  BY <1>1, <1>2, <1>3 DEF HeardOf
<1>6. \A i \in SkippedOf(hour') : i + 1 \in SkippedOf(hour)
  BY <1>1, <1>2, <1>3 DEF SkippedOf
<1>7. /\ HeardOf(hour') \in SUBSET (1 .. n - 1) /\ SkippedOf(hour') \in SUBSET (1 .. n - 1)
      /\ HeardOf(hour) \in SUBSET (1 .. n) /\ SkippedOf(hour) \in SUBSET (1 .. n)
  BY <1>1, <1>2 DEF HeardOf, SkippedOf
<1>8. /\ Cardinality(HeardOf(hour')) <= Cardinality(HeardOf(hour))
      /\ Cardinality(SkippedOf(hour')) <= Cardinality(SkippedOf(hour))
  <2>. DEFINE m == n - 1
  <2>1. m \in Nat /\ HeardOf(hour') \in SUBSET (1 .. m) /\ SkippedOf(hour') \in SUBSET (1 .. m)
    BY <1>5, <1>7
  <2>. HIDE DEF m
  <2>. QED  BY <1>1, <1>5, <1>6, <1>7, <2>1, CountsMoved
<1>9. /\ Cardinality(HeardOf(hour')) \in Nat /\ Cardinality(HeardOf(hour)) \in Nat
      /\ Cardinality(SkippedOf(hour')) \in Nat /\ Cardinality(SkippedOf(hour)) \in Nat
  <2>. DEFINE m == n - 1
  <2>1. m \in Nat /\ HeardOf(hour') \in SUBSET (1 .. m) /\ SkippedOf(hour') \in SUBSET (1 .. m)
    BY <1>5, <1>7
  <2>. HIDE DEF m
  <2>. QED  BY <1>1, <1>7, <2>1, Counts
<1>10. /\ fly' # {} => Cardinality(HeardOf(hour')) < PerHour
       /\ Cardinality(HeardOf(hour')) <= PerHour
       /\ Cardinality(SkippedOf(hour')) <= boots'
  <2>1. /\ fly # {} => Cardinality(HeardOf(hour)) < PerHour
        /\ Cardinality(HeardOf(hour)) <= PerHour
        /\ Cardinality(SkippedOf(hour)) <= boots
    BY DEF RingInv, RepeatedCapped, HeardOf
  <2>. QED  BY <1>1, <1>8, <1>9, <2>1
<1>11. Len(hour') <= 2 * PerHour + boots' /\ (fly' # {} => hour' # <<>>)
  <2>1. n <= 2 * PerHour + boots
    BY DEF RingInv, AttemptsCapped, n
  <2>2. fly' # {} => hour' # <<>>
    <3>1. fly' # {} => Len(hour') > 0
      BY <1>1, <1>2
    <3>2. Len(<<>>) = 0
      OBVIOUS
    <3>. QED  BY <3>1, <3>2
  <2>. QED  BY <1>1, <1>2, <2>1, <2>2
<1>. QED
  BY <1>4, <1>10, <1>11 DEF RingInv, RepeatedCapped, HeardOf, AttemptsCapped

\* The file had every attempt but the one under way.
LEMMA RebootRing ==
  ASSUME RingInv, DrainTypeOK', Reboot
  PROVE  RingInv'
<1>. DEFINE n == Len(hour)
<1>1. /\ DrainTypeOK /\ InFile /\ n \in Nat /\ DOMAIN hour = 1 .. n
      /\ \A i \in DOMAIN hour : hour[i] \in Attempt
      /\ fly' = {} /\ boots' = boots + 1 /\ PerHour \in Nat /\ boots \in Nat
  BY HourFacts DEF RingInv, Reboot
<1>a. hour' = [i \in DOMAIN hour |-> [hour[i] EXCEPT !.try = hour[i].tryFile,
                                  !.cnt = hour[i].cntFile, !.known = FALSE]]
  BY DEF Reboot
<1>2. /\ DOMAIN hour' = DOMAIN hour
      /\ \A i \in DOMAIN hour :
           /\ hour'[i].try = hour[i].tryFile /\ hour'[i].tryFile = hour[i].tryFile
           /\ hour'[i].heard = hour[i].heard
           /\ hour'[i].cnt = hour[i].cntFile /\ hour'[i].cntFile = hour[i].cntFile
  BY <1>1, <1>a DEF Attempt
<1>3. Len(hour') = n
  BY <1>1, <1>2, LenProperties DEF DrainTypeOK
<1>4. InFile'
  BY <1>1, <1>2 DEF InFile
<1>5. HeardOf(hour') = HeardOf(hour) /\ SkippedOf(hour') \subseteq SkippedOf(hour) \cup {n}
  BY <1>1, <1>2 DEF HeardOf, SkippedOf, InFile
<1>. HIDE DEF n
<1>6. Cardinality(SkippedOf(hour')) <= boots + 1
  <2>1. SkippedOf(hour) \in SUBSET (1 .. n) /\ SkippedOf(hour') \in SUBSET (1 .. n)
    BY <1>1, <1>2 DEF SkippedOf
  <2>2. Cardinality(SkippedOf(hour)) \in Nat /\ Cardinality(SkippedOf(hour')) \in Nat
    BY <1>1, <2>1, Counts
  <2>3. Cardinality(SkippedOf(hour)) <= boots
    BY DEF RingInv
  <2>4. CASE n = 0
    <3>1. SkippedOf(hour') = {}
      BY <1>1, <2>1, <2>4
    <3>. QED  BY <1>1, <3>1, FS_EmptySet
  <2>5. CASE n > 0
    <3>1. n \in 1 .. n
      BY <1>1, <2>5
    <3>2. Cardinality(SkippedOf(hour')) <= Cardinality(SkippedOf(hour)) + 1
      BY <1>1, <1>5, <2>1, <3>1, CountsOneMore
    <3>. QED  BY <1>1, <2>2, <2>3, <3>2
  <2>. QED  BY <1>1, <2>4, <2>5
<1>7. Len(hour') <= 2 * PerHour + boots'
  <2>1. n <= 2 * PerHour + boots
    BY DEF RingInv, AttemptsCapped, n
  <2>. QED  BY <1>1, <1>3, <2>1
<1>8. Cardinality(HeardOf(hour')) <= PerHour
  BY <1>5 DEF RingInv, RepeatedCapped, HeardOf
<1>. QED
  BY <1>1, <1>4, <1>6, <1>7, <1>8 DEF RingInv, RepeatedCapped, HeardOf, AttemptsCapped

LEMMA RingNext == RingInv /\ [Next]_vars => RingInv'
<1>. SUFFICES ASSUME RingInv, [Next]_vars PROVE RingInv'
  OBVIOUS
<1>0. DrainTypeOK'
  BY TypeNext DEF RingInv
<1>1. CASE \E c \in Times, partial \in BOOLEAN : SendFlush(c, partial) \/ SendFlushFails(c, partial)
  BY <1>0, <1>1, SendRing
<1>2. CASE \E firm, strong \in BOOLEAN : Heard(firm, strong)
  BY <1>0, <1>2, HeardRing
<1>3. CASE \E i \in DOMAIN hour : Confirmed(i)
  BY <1>0, <1>3, ConfirmedRing
<1>4. CASE HourOver
  BY <1>0, <1>4, HourOverRing
<1>5. CASE Reboot
  BY <1>0, <1>5, RebootRing
<1>6. CASE \/ SaveNew \/ CoverageOld \/ WachtOver \/ ParkedReset
           \/ FlushWaits \/ FlushBegin \/ FlushPause \/ FlushStop \/ NotHeard
           \/ \E firm, strong \in BOOLEAN : Coverage(firm, strong)
           \/ \E p \in Times : Arrive(p) \/ RetryDue(p)
           \/ UNCHANGED vars
  BY <1>0, <1>6, QuietRing
<1>. QED
  BY <1>1, <1>2, <1>3, <1>4, <1>5, <1>6 DEF Next

\* The tracker makes at most 2 * fifo_per_uur attempts an hour and one more for
\* each restart, whatever mixture of full, partial, refused and confirmed messages,
\* whatever the size of its queue and whenever it restarts (fl_cap looks before
\* send_flush notes the attempt, flush_done saves it).
THEOREM AttemptsLimit == Spec => []AttemptsCapped
<1>1. RingInv => AttemptsCapped
  BY DEF RingInv
<1>. QED
  BY RingInit, RingNext, <1>1, PTL DEF Spec

\* At most fifo_per_uur messages of an hour are heard repeated, though the limit is
\* looked at before a message and its repetition comes after it, a T1F counts
\* attempts of earlier, and restarts come at any time (fl_cap, flush_done,
\* fifo_confirm_seqs, fifo_load).
THEOREM RepeatedLimit == Spec => []RepeatedCapped
<1>1. RingInv => RepeatedCapped
  BY DEF RingInv
<1>. QED
  BY RingInit, RingNext, <1>1, PTL DEF Spec
-----------------------------------------------------------------------------
(* MtSeq *)

\* How far number x is ahead of the first one in the log.
Ahead(x) == Minus(x, log[1])
Newest == log[Len(log)]

\* The numbers of a log go up, seen from the first.
Rising(l) == \A i, j \in DOMAIN l : i < j => Minus(l[i], l[1]) < Minus(l[j], l[1])

\* In a run less than Step numbers are in use beyond the saved one, which the file
\* has, if the last write of it succeeded.
SavedInTime ==
  /\ pc = "run" => Minus(seq, saved) < Step /\ file \in {saved, Missing}
  /\ pc = "next" => Minus(seq, saved) = Step /\ file = Missing /\ Len(log) < MaxSent
  /\ pc = "boot" => file = Missing
  /\ (pc # "off" \/ log # <<>>) => starts > 0
  /\ log = <<>> /\ pc = "run" => seq = saved
  /\ log = <<>> /\ pc = "next" => Step = 1

\* The numbers in the log, in use, and after the next start, in this order, span
\* no more than the messages and the starts account for.
InOrder ==
  log # <<>> /\ ~lost =>
    /\ Rising(log)
    /\ pc = "run" =>
         /\ Ahead(saved) <= Ahead(seq) /\ Ahead(Newest) < Ahead(seq)
         /\ Ahead(seq) <= Len(log) + Step * (starts - 1)
    /\ pc = "next" =>
         /\ Ahead(saved) <= Ahead(seq) /\ Ahead(Newest) + 1 < Ahead(seq)
         /\ Ahead(seq) <= Len(log) + 1 + Step * (starts - 1)
    /\ pc = "boot" =>
         /\ Ahead(Newest) < Ahead(seq)
         /\ Ahead(seq) <= Len(log) + Step * (starts - 1)
    /\ pc = "off" /\ file # Missing =>
         /\ Ahead(Newest) < Ahead(file) + Step
         /\ Ahead(file) <= Len(log) + Step * (starts - 1)

SeqInv == SeqTypeOK /\ SavedInTime /\ InOrder

LEMMA Sizes ==
  W \in Nat /\ W > 0 /\ Step \in Nat /\ Step > 0 /\ MaxSent \in Nat /\ MaxStarts \in Nat
BY SpanAssumption

LEMMA NumbersNat == \A x \in Numbers : x \in Nat
BY Sizes DEF Numbers

LEMMA Wrapped ==
  ASSUME NEW x \in 0 .. 2 * W - 1
  PROVE  x % W = IF x < W THEN x ELSE x - W
<1>1. W \in Nat \ {0}
  BY SpanAssumption
<1>2. CASE x < W
  BY <1>1, <1>2
<1>3. CASE x >= W
  <2>1. (x - W) \in 0 .. W - 1 /\ x = (x - W) + W
    BY <1>1, <1>3
  <2>. QED  BY <1>1, <1>3, <2>1
<1>. QED
  BY <1>1, <1>2, <1>3

LEMMA MinusIs ==
  ASSUME NEW a \in Numbers, NEW b \in Numbers
  PROVE  Minus(a, b) = (IF a >= b THEN a - b ELSE a - b + W) /\ Minus(a, b) \in Numbers
<1>1. W \in Nat \ {0}
  BY SpanAssumption
<1>. DEFINE x == a - b + W
<1>2. x \in 0 .. 2 * W - 1
  BY <1>1 DEF Numbers
<1>3. x % W = IF x < W THEN x ELSE x - W
  <2>. HIDE DEF x
  <2>. QED  BY <1>2, Wrapped
<1>. QED
  BY <1>1, <1>3 DEF Minus, Numbers

LEMMA PlusIs ==
  ASSUME NEW a \in Numbers, NEW k \in 0 .. W
  PROVE  Plus(a, k) = (IF a + k < W THEN a + k ELSE a + k - W) /\ Plus(a, k) \in Numbers
<1>1. W \in Nat \ {0}
  BY SpanAssumption
<1>. DEFINE x == a + k
<1>2. x \in 0 .. 2 * W - 1
  BY <1>1 DEF Numbers
<1>3. x % W = IF x < W THEN x ELSE x - W
  <2>. HIDE DEF x
  <2>. QED  BY <1>2, Wrapped
<1>. QED
  BY <1>1, <1>3 DEF Plus, Numbers


\* Distances add up as long as they do not come around.
LEMMA Distances ==
  ASSUME NEW a \in Numbers, NEW b \in Numbers
  PROVE  /\ Minus(a, a) = 0
         /\ \A k \in 0 .. W : Minus(a, b) + k < W => Minus(Plus(a, k), b) = Minus(a, b) + k
         /\ Minus(a, b) > 0 =>
              Minus(a, 1) \in Numbers /\ Minus(Minus(a, 1), b) = Minus(a, b) - 1
         /\ \A c \in Numbers : Minus(b, c) <= Minus(a, c) =>
              Minus(a, b) = Minus(a, c) - Minus(b, c)
<1>1. W \in Nat \ {0}
  BY SpanAssumption
<1>2. Minus(a, a) = 0
  BY <1>1, MinusIs DEF Numbers
<1>3. ASSUME NEW k \in 0 .. W, Minus(a, b) + k < W
      PROVE  Minus(Plus(a, k), b) = Minus(a, b) + k
  <2>. DEFINE p == Plus(a, k)
  <2>1. p = (IF a + k < W THEN a + k ELSE a + k - W) /\ p \in Numbers
    BY PlusIs
  <2>2. Minus(p, b) = IF p >= b THEN p - b ELSE p - b + W
    BY <2>1, MinusIs
  <2>3. Minus(a, b) = IF a >= b THEN a - b ELSE a - b + W
    BY MinusIs
  <2>. HIDE DEF p
  <2>4. Minus(p, b) = Minus(a, b) + k
    BY <1>1, <1>3, <2>1, <2>2, <2>3 DEF Numbers
  <2>. QED  BY <2>4 DEF p
<1>4. ASSUME Minus(a, b) > 0
      PROVE  Minus(a, 1) \in Numbers /\ Minus(Minus(a, 1), b) = Minus(a, b) - 1
  <2>1. 1 \in Numbers
    BY <1>1, <1>4, MinusIs DEF Numbers
  <2>2. Minus(a, 1) = (IF a >= 1 THEN a - 1 ELSE a - 1 + W) /\ Minus(a, 1) \in Numbers
    BY <2>1, MinusIs
  <2>. DEFINE p == Minus(a, 1)
  <2>3. Minus(p, b) = IF p >= b THEN p - b ELSE p - b + W
    BY <2>2, MinusIs
  <2>4. Minus(a, b) = IF a >= b THEN a - b ELSE a - b + W
    BY MinusIs
  <2>5. p = (IF a >= 1 THEN a - 1 ELSE a - 1 + W) /\ p \in Numbers
    BY <2>2
  <2>. HIDE DEF p
  <2>6. Minus(p, b) = Minus(a, b) - 1
    BY <1>1, <1>4, <2>3, <2>4, <2>5 DEF Numbers
  <2>. QED  BY <2>2, <2>6 DEF p
<1>5. ASSUME NEW c \in Numbers, Minus(b, c) <= Minus(a, c)
      PROVE  Minus(a, b) = Minus(a, c) - Minus(b, c)
  <2>1. /\ Minus(a, b) = IF a >= b THEN a - b ELSE a - b + W
        /\ Minus(a, c) = IF a >= c THEN a - c ELSE a - c + W
        /\ Minus(b, c) = IF b >= c THEN b - c ELSE b - c + W
    BY MinusIs
  <2>. QED  BY <1>1, <1>5, <2>1 DEF Numbers
<1>. QED
  BY <1>2, <1>3, <1>4, <1>5

\* What the starts so far may have skipped, with the messages, stays below W.
LEMMA Budget ==
  ASSUME NEW s \in 1 .. MaxStarts
  PROVE  /\ Step * (s - 1) \in Nat
         /\ Step * (s - 1) + Step + MaxSent <= W
         /\ Step * ((s + 1) - 1) = Step * (s - 1) + Step
         /\ Step \in 1 .. W
<1>1. {W, Step} \subseteq Nat \ {0} /\ {MaxSent, MaxStarts} \subseteq Nat
      /\ MaxSent + Step * MaxStarts <= W
  BY SpanAssumption
<1>2. PICK k \in Nat : MaxStarts = s + k
  <2>1. MaxStarts - s \in Nat /\ MaxStarts = s + (MaxStarts - s)
    BY <1>1
  <2>. QED  BY <2>1
<1>3. Step * MaxStarts = Step * (s - 1) + Step + Step * k
  BY <1>1, <1>2
<1>4. Step * k \in Nat /\ Step * (s - 1) \in Nat
  BY <1>1, <1>2
<1>5. Step * ((s + 1) - 1) = Step * (s - 1) + Step
  BY <1>1
<1>. QED
  BY <1>1, <1>3, <1>4, <1>5


\* Room for one more start.
LEMMA Room ==
  ASSUME NEW s \in 1 .. MaxStarts, s < MaxStarts, NEW d \in Nat,
         d <= MaxSent + Step * (s - 1)
  PROVE  d + Step < W
<1>1. W \in Nat /\ Step \in Nat /\ Step > 0 /\ MaxSent \in Nat /\ MaxStarts \in Nat
  BY Sizes
<1>2. Step * (s - 1) \in Nat /\ Step * ((s + 1) - 1) = Step * (s - 1) + Step
  BY Budget
<1>3. s + 1 \in 1 .. MaxStarts
  BY <1>1
<1>4. Step * ((s + 1) - 1) + Step + MaxSent <= W
  BY <1>3, Budget
<1>. DEFINE q == Step * (s - 1)
<1>5. q \in Nat /\ q + Step + Step + MaxSent <= W /\ d <= MaxSent + q
  BY <1>1, <1>2, <1>4
<1>. HIDE DEF q
<1>. QED
  BY <1>1, <1>5

\* One more number in the log.
LEMMA Logged ==
  ASSUME log \in Seq(Numbers), NEW x \in Numbers
  PROVE  /\ Append(log, x) \in Seq(Numbers) /\ Append(log, x) # <<>>
         /\ Len(Append(log, x)) = Len(log) + 1
         /\ DOMAIN Append(log, x) = 1 .. Len(log) + 1
         /\ DOMAIN log = 1 .. Len(log)
         /\ Append(log, x)[Len(log) + 1] = x
         /\ \A i \in DOMAIN log : Append(log, x)[i] = log[i] /\ log[i] \in Numbers
         /\ log = <<>> => Len(log) = 0 /\ Append(log, x)[1] = x
         /\ log # <<>> => Len(log) \in DOMAIN log /\ 1 \in DOMAIN log
                          /\ Append(log, x)[1] = log[1]
<1>1. Len(log) \in Nat /\ DOMAIN log = 1 .. Len(log) /\ (log = <<>> <=> Len(log) = 0)
  BY LenProperties, EmptySeq
<1>2. \A i \in DOMAIN log : log[i] \in Numbers
  BY <1>1, ElementOfSeq
<1>. QED
  BY <1>1, <1>2, AppendProperties

\* A log goes on rising with a number beyond the newest.
LEMMA RisesOn ==
  ASSUME log \in Seq(Numbers), log # <<>>, Rising(log), NEW x \in Numbers,
         Ahead(Newest) < Ahead(x)
  PROVE  Rising(Append(log, x))
<1>. DEFINE l == Append(log, x)
<1>1. /\ l[1] = log[1] /\ l[Len(log) + 1] = x /\ DOMAIN l = 1 .. Len(log) + 1
      /\ \A i \in DOMAIN log : l[i] = log[i] /\ log[i] \in Numbers
      /\ DOMAIN log = 1 .. Len(log) /\ Len(log) \in DOMAIN log /\ 1 \in DOMAIN log
  BY Logged
<1>2. \A y \in Numbers : Ahead(y) \in Nat
  <2>1. \A y \in Numbers : Minus(y, log[1]) \in Numbers
    BY <1>1, MinusIs
  <2>. QED  BY <2>1, NumbersNat DEF Ahead
<1>. HIDE DEF l
<1>3. ASSUME NEW i \in DOMAIN log PROVE Ahead(log[i]) < Ahead(x)
  <2>1. CASE i = Len(log)
    BY <2>1 DEF Newest
  <2>2. CASE i < Len(log)
    <3>1. Ahead(log[i]) < Ahead(Newest)
      BY <1>1, <2>2 DEF Rising, Ahead, Newest
    <3>. QED  BY <1>1, <1>2, <3>1 DEF Newest
  <2>. QED  BY <1>1, <2>1, <2>2
<1>4. ASSUME NEW i \in DOMAIN l, NEW j \in DOMAIN l, i < j
      PROVE  Ahead(l[i]) < Ahead(l[j])
  <2>1. i \in DOMAIN log
    BY <1>1, <1>4
  <2>2. CASE j \in DOMAIN log
    BY <1>1, <1>4, <2>1, <2>2 DEF Rising, Ahead
  <2>3. CASE j = Len(log) + 1
    BY <1>1, <1>3, <2>1, <2>3
  <2>. QED  BY <1>1, <2>2, <2>3
<1>. QED
  BY <1>1, <1>4 DEF Rising, Ahead, l

LEMMA SeqInvInit == SeqInit => SeqInv
<1> SUFFICES ASSUME SeqInit PROVE SeqInv
  OBVIOUS
<1>1. 0 \in Numbers /\ MaxStarts \in Nat /\ MaxSent \in Nat
  BY Sizes DEF Numbers
<1>2. <<>> \in Seq(Numbers) /\ Len(<<>>) = 0
  OBVIOUS
<1>3. SeqTypeOK
  <2>1. pc = "off" /\ file \in Numbers \cup {Missing} /\ seq = 0 /\ saved = 0 /\ starts = 0
        /\ log = <<>> /\ lost = FALSE
    BY DEF SeqInit
  <2>2. log \in Seq(Numbers) /\ Len(log) <= MaxSent
    BY <1>1, <1>2, <2>1
  <2>3. starts \in 0 .. MaxStarts /\ seq \in Numbers /\ saved \in Numbers
    BY <1>1, <2>1
  <2>4. pc \in {"off", "boot", "run", "next"} /\ lost \in BOOLEAN
    BY <2>1
  <2>. QED  BY <2>1, <2>2, <2>3, <2>4, Zenon DEF SeqTypeOK
<1>4. SavedInTime
  BY DEF SeqInit, SavedInTime
<1>. QED
  BY <1>3, <1>4 DEF SeqInit, SeqInv, InOrder

\* What InOrder says of the numbers in the log does not change while none is added.
LEMMA BootKeeps == SeqInv /\ Boot => SeqInv'
<1> SUFFICES ASSUME SeqInv, Boot PROVE SeqInv'
  OBVIOUS
<1> DEFINE from == IF file = Missing THEN 0 ELSE file
<1>1. SeqTypeOK /\ SavedInTime /\ InOrder
  BY DEF SeqInv
<1> USE Sizes
<1>2. /\ pc = "off" /\ starts < MaxStarts /\ starts' = starts + 1 /\ seq' = Plus(from, Step)
      /\ file' = Missing /\ pc' = "boot" /\ saved' = saved /\ log' = log
      /\ lost' = (lost \/ (file = Missing /\ log # <<>>))
  BY DEF Boot
<1>3. from \in Numbers /\ starts' \in 1 .. MaxStarts /\ starts \in 0 .. MaxStarts
  BY <1>1, <1>2 DEF SeqTypeOK, Numbers
<1>4. Step \in 0 .. W
  BY <1>3, Budget
<1>5. seq' \in Numbers
  BY <1>2, <1>3, <1>4, PlusIs
<1>6. SeqTypeOK'
  BY <1>1, <1>2, <1>3, <1>5 DEF SeqTypeOK
<1>7. SavedInTime'
  BY <1>1, <1>2, <1>3 DEF SavedInTime
<1>8. InOrder'
  <2> SUFFICES ASSUME log # <<>>, ~lost, file # Missing PROVE InOrder'
    BY <1>2 DEF InOrder
  <2>1. /\ Rising(log)
        /\ Ahead(Newest) < Ahead(file) + Step /\ Ahead(file) <= Len(log) + Step * (starts - 1)
    BY <1>1, <1>2 DEF InOrder
  <2>2. log[1] \in Numbers /\ Newest \in Numbers /\ file \in Numbers /\ Len(log) \in 0 .. MaxSent
    BY <1>1, Logged, <1>3, LenProperties DEF SeqTypeOK, Newest
  <2>3. starts \in 1 .. MaxStarts
    BY <1>1, <1>3 DEF SavedInTime
  <2>4. Ahead(file) \in Numbers /\ Ahead(Newest) \in Numbers
    BY <2>2, MinusIs DEF Ahead
  <2>5. Step * (starts - 1) \in Nat /\ Step * (starts - 1) + Step + MaxSent <= W
    BY <2>3, Budget
  <2>6. Ahead(file) <= MaxSent + Step * (starts - 1)
    BY <1>1, <2>1, <2>2, <2>4, <2>5 DEF Numbers
  <2>7. Minus(file, log[1]) + Step < W
    <3>1. Ahead(file) \in Nat /\ starts < MaxStarts
      BY <1>1, <1>2, <2>4 DEF Numbers
    <3>. QED  BY <2>3, <2>6, <3>1, Room DEF Ahead
  <2>8. Minus(seq', log[1]) = Minus(file, log[1]) + Step
    BY <1>2, <1>4, <2>2, <2>7, Distances
  <2>9. Step * (starts' - 1) = Step * (starts - 1) + Step
    BY <1>2, <2>3, Budget
  <2>. QED
    BY <1>1, <1>2, <2>1, <2>2, <2>4, <2>5, <2>8, <2>9 DEF InOrder, Ahead, Newest, Numbers
<1>. QED
  BY <1>6, <1>7, <1>8 DEF SeqInv


LEMMA BootSavedKeeps == SeqInv /\ BootSaved => SeqInv'
<1> SUFFICES ASSUME SeqInv, BootSaved PROVE SeqInv'
  OBVIOUS
<1> USE Sizes
<1>1. SeqTypeOK /\ SavedInTime /\ InOrder
  BY DEF SeqInv
<1>2. /\ pc = "boot" /\ file' \in {seq, Missing} /\ saved' = seq /\ pc' = "run"
      /\ UNCHANGED <<seq, starts, log, lost>>
  BY DEF BootSaved, Written
<1>3. seq \in Numbers /\ Minus(seq, seq) = 0
  BY <1>1, Distances DEF SeqTypeOK
<1>4. SeqTypeOK'
  BY <1>1, <1>2, <1>3 DEF SeqTypeOK
<1>5. SavedInTime'
  BY <1>1, <1>2, <1>3 DEF SavedInTime
<1>6. InOrder'
  <2> SUFFICES ASSUME log # <<>>, ~lost PROVE InOrder'
    BY <1>2 DEF InOrder
  <2>1. log[1] \in Numbers
    BY <1>1, <1>3, Logged DEF SeqTypeOK
  <2>2. Ahead(seq) \in Numbers
    BY <1>3, <2>1, MinusIs DEF Ahead
  <2>. QED
    BY <1>1, <1>2, <2>2 DEF InOrder, Ahead, Newest, Numbers
<1>. QED
  BY <1>4, <1>5, <1>6 DEF SeqInv

\* While the number in use goes up by one, it stays less than W beyond the others.
LEMMA SeqNextKeeps == SeqInv /\ SeqNext => SeqInv'
<1> SUFFICES ASSUME SeqInv, SeqNext PROVE SeqInv'
  OBVIOUS
<1> USE Sizes
<1>1. SeqTypeOK /\ SavedInTime /\ InOrder
  BY DEF SeqInv
<1>2. /\ pc = "run" /\ Len(log) < MaxSent /\ seq' = Plus(seq, 1)
      /\ UNCHANGED <<saved, starts, lost>>
      /\ IF Minus(seq', saved) >= Step
         THEN pc' = "next" /\ file' = Missing /\ log' = log
         ELSE pc' = pc /\ file' = file /\ log' = Append(log, seq)
  BY DEF SeqNext
<1>3. /\ log \in Seq(Numbers) /\ seq \in Numbers /\ saved \in Numbers /\ Len(log) \in Nat
      /\ starts \in 1 .. MaxStarts
  BY <1>1, <1>2, LenProperties DEF SeqTypeOK, SavedInTime
<1>4. /\ Step * (starts - 1) \in Nat /\ Step * (starts - 1) + Step + MaxSent <= W
      /\ 1 \in 0 .. W
  BY <1>3, Budget
<1>5. seq' \in Numbers
  BY <1>2, <1>3, <1>4, PlusIs
<1>6. Minus(seq, saved) \in Nat /\ Minus(seq', saved) = Minus(seq, saved) + 1
      /\ Minus(seq, saved) < Step
  <2>1. Minus(seq, saved) \in Nat /\ Minus(seq, saved) < Step
    BY <1>1, <1>2, <1>3, MinusIs DEF SavedInTime, Numbers
  <2>2. Minus(seq, saved) + 1 < W
    BY <1>2, <1>3, <1>4, <2>1
  <2>. QED  BY <1>2, <1>3, <1>4, <2>1, <2>2, Distances
<1>7. SeqTypeOK'
  BY <1>1, <1>2, <1>3, <1>5, Logged DEF SeqTypeOK
<1>8. SavedInTime'
  <2>1. CASE Minus(seq', saved) >= Step
    <3>1. log = <<>> => Minus(seq, saved) = 0
      BY <1>1, <1>2, <1>3, Distances DEF SavedInTime
    <3>. QED
      BY <1>1, <1>2, <1>3, <1>6, <2>1, <3>1 DEF SavedInTime
  <2>2. CASE ~ (Minus(seq', saved) >= Step)
    BY <1>1, <1>2, <1>3, <1>6, <2>2, Logged DEF SavedInTime
  <2>. QED  BY <2>1, <2>2
<1>9. InOrder'
  <2>1. CASE log = <<>> /\ log' # <<>>
    <3>1. /\ log' = Append(log, seq) /\ pc' = "run" /\ seq = saved
          /\ log'[1] = seq /\ Len(log') = 1 /\ DOMAIN log' = 1 .. 1
      BY <1>1, <1>2, <1>3, <2>1, Logged DEF SavedInTime
    <3>2. Minus(seq, seq) = 0 /\ Minus(seq', seq) = 1
      BY <1>3, <1>6, <3>1, Distances
    <3>. QED
      BY <1>2, <1>4, <3>1, <3>2 DEF InOrder, Ahead, Newest, Rising
  <2>2. CASE log # <<>> /\ ~lost
    <3>1. /\ Rising(log)
          /\ Ahead(saved) <= Ahead(seq) /\ Ahead(Newest) < Ahead(seq)
          /\ Ahead(seq) <= Len(log) + Step * (starts - 1)
      BY <1>1, <1>2, <2>2 DEF InOrder
    <3>2. /\ log[1] \in Numbers /\ Newest \in Numbers
          /\ \A i \in DOMAIN log : log[i] \in Numbers
      BY <1>3, <2>2, Logged DEF Newest
    <3>3. Ahead(seq) \in Nat /\ Ahead(Newest) \in Nat /\ Ahead(saved) \in Nat
      <4>1. \A x \in Numbers : Ahead(x) \in Numbers
        BY <3>2, MinusIs DEF Ahead
      <4>. QED  BY <1>3, <3>2, <4>1, NumbersNat
    <3>4. Ahead(seq) + 1 < W
      BY <1>2, <1>3, <1>4, <3>1, <3>3
    <3>5. Minus(seq', log[1]) = Ahead(seq) + 1
      BY <1>2, <1>3, <1>4, <3>2, <3>4, Distances DEF Ahead
    <3>6. CASE log' = log
      BY <1>2, <1>3, <1>4, <2>2, <3>1, <3>3, <3>5, <3>6 DEF InOrder, Ahead, Newest
    <3>7. CASE log' = Append(log, seq)
      <4>1. /\ log'[1] = log[1] /\ Len(log') = Len(log) + 1 /\ log'[Len(log')] = seq
            /\ DOMAIN log' = DOMAIN log \cup {Len(log')}
            /\ \A i \in DOMAIN log : i < Len(log') /\ log'[i] = log[i]
            /\ DOMAIN log = 1 .. Len(log)
        BY <1>3, <2>2, <3>7, Logged
      <4>2. pc' = "run"
        <5>1. Len(log') # Len(log)
          <6>1. \A n, m \in Int : m = n + 1 => m # n
            OBVIOUS
          <6>2. Len(log) \in Int /\ Len(log') \in Int /\ Len(log') = Len(log) + 1
            BY <1>3, <1>7, <4>1, LenProperties DEF SeqTypeOK
          <6>. QED  BY <6>1, <6>2, Zenon
        <5>2. log' # log
          BY <5>1
        <5>. QED  BY <1>2, <5>2
      <4>4. Rising(log')
        BY <1>3, <2>2, <3>1, <3>7, RisesOn
      <4>5. /\ Minus(saved, log[1]) <= Minus(seq', log[1])
            /\ Minus(seq, log[1]) < Minus(seq', log[1])
            /\ Minus(seq', log[1]) <= Len(log') + Step * (starts - 1)
        BY <1>3, <1>4, <3>1, <3>3, <3>5, <4>1 DEF Ahead
      <4>. QED
        BY <1>2, <4>1, <4>2, <4>4, <4>5 DEF InOrder, Ahead, Newest
    <3>. QED  BY <1>2, <3>6, <3>7
  <2>. QED  BY <1>2, <2>1, <2>2 DEF InOrder
<1>. QED
  BY <1>7, <1>8, <1>9 DEF SeqInv


LEMMA NextSavedKeeps == SeqInv /\ NextSaved => SeqInv'
<1> SUFFICES ASSUME SeqInv, NextSaved PROVE SeqInv'
  OBVIOUS
<1> USE Sizes
<1> DEFINE x == Minus(seq, 1)
<1>1. SeqTypeOK /\ SavedInTime /\ InOrder
  BY DEF SeqInv
<1>2. /\ pc = "next" /\ file' \in {seq, Missing} /\ saved' = seq /\ pc' = "run"
      /\ log' = Append(log, x) /\ UNCHANGED <<seq, starts, lost>>
  BY DEF NextSaved, Written
<1>3. /\ log \in Seq(Numbers) /\ seq \in Numbers /\ saved \in Numbers
      /\ Len(log) \in Nat /\ Len(log) < MaxSent
      /\ starts \in 1 .. MaxStarts /\ Minus(seq, saved) = Step
  BY <1>1, <1>2, LenProperties DEF SeqTypeOK, SavedInTime
<1>4. /\ Step * (starts - 1) \in Nat /\ Step * (starts - 1) + Step + MaxSent <= W
  BY <1>3, Budget
<1>5. x \in Numbers /\ Minus(seq, seq) = 0
  BY <1>3, Distances
<1>. HIDE DEF x
<1>6. /\ log' \in Seq(Numbers) /\ log' # <<>> /\ Len(log') = Len(log) + 1
      /\ log'[Len(log')] = x
  BY <1>2, <1>3, <1>5, Logged
<1>7. SeqTypeOK'
  BY <1>1, <1>2, <1>3, <1>6 DEF SeqTypeOK
<1>8. SavedInTime'
  BY <1>1, <1>2, <1>3, <1>5, <1>6 DEF SavedInTime
<1>9. InOrder'
  <2>1. CASE log = <<>>
    <3>1. log'[1] = x /\ Len(log') = 1 /\ DOMAIN log' = 1 .. 1
      BY <1>2, <1>3, <1>5, <2>1, Logged
    <3>2. Step = 1
      BY <1>1, <1>2, <2>1 DEF SavedInTime
    <3>3. seq = Plus(x, 1)
      <4>1. 1 \in Numbers
        BY <1>3, <1>4, <3>2 DEF Numbers
      <4>2. x = (IF seq >= 1 THEN seq - 1 ELSE seq - 1 + W) /\ x \in Numbers
        BY <1>3, <4>1, MinusIs DEF x
      <4>3. Plus(x, 1) = IF x + 1 < W THEN x + 1 ELSE x + 1 - W
        BY <4>1, <4>2, PlusIs DEF Numbers
      <4>. QED  BY <1>3, <4>1, <4>2, <4>3 DEF Numbers
    <3>4. Minus(x, x) = 0 /\ Minus(seq, x) = 1
      <4>1. 1 \in 0 .. W /\ 1 < W
        BY <1>3, <1>4
      <4>. QED  BY <1>5, <3>3, <4>1, Distances
    <3>. QED
      BY <1>2, <1>4, <3>1, <3>4 DEF InOrder, Ahead, Newest, Rising
  <2>2. CASE log # <<>> /\ ~lost
    <3>1. /\ Rising(log) /\ Ahead(saved) <= Ahead(seq) /\ Ahead(Newest) + 1 < Ahead(seq)
          /\ Ahead(seq) <= Len(log) + 1 + Step * (starts - 1)
      BY <1>1, <1>2, <2>2 DEF InOrder
    <3>2. log[1] \in Numbers /\ Newest \in Numbers /\ log'[1] = log[1]
      BY <1>2, <1>3, <1>5, <2>2, Logged DEF Newest
    <3>3. Ahead(seq) \in Nat /\ Ahead(Newest) \in Nat
      <4>1. \A y \in Numbers : Ahead(y) \in Numbers
        BY <3>2, MinusIs DEF Ahead
      <4>. QED  BY <1>3, <3>2, <4>1, NumbersNat
    <3>4. Ahead(x) = Ahead(seq) - 1
      <4>1. Minus(seq, log[1]) > 0
        BY <3>1, <3>3 DEF Ahead
      <4>. QED  BY <1>3, <3>2, <4>1, Distances DEF Ahead, x
    <3>5. Rising(log')
      BY <1>2, <1>3, <1>5, <2>2, <3>1, <3>3, <3>4, RisesOn
    <3>6. /\ Minus(x, log[1]) < Minus(seq, log[1])
          /\ Minus(seq, log[1]) <= Len(log') + Step * (starts - 1)
          /\ Minus(seq, log[1]) <= Minus(seq, log[1])
      BY <1>3, <1>4, <1>6, <3>1, <3>3, <3>4 DEF Ahead
    <3>. QED
      BY <1>2, <1>6, <3>2, <3>5, <3>6 DEF InOrder, Ahead, Newest
  <2>. QED  BY <1>2, <2>1, <2>2 DEF InOrder
<1>. QED
  BY <1>7, <1>8, <1>9 DEF SeqInv

\* The file is less than Step behind the number in use when the power fails.
LEMMA PowerOffKeeps == SeqInv /\ PowerOff => SeqInv'
<1> SUFFICES ASSUME SeqInv, PowerOff PROVE SeqInv'
  OBVIOUS
<1> USE Sizes
<1>1. SeqTypeOK /\ SavedInTime /\ InOrder
  BY DEF SeqInv
<1>2. pc # "off" /\ pc' = "off" /\ UNCHANGED <<file, seq, saved, starts, log, lost>>
  BY DEF PowerOff
<1>3. SeqTypeOK'
  BY <1>1, <1>2 DEF SeqTypeOK
<1>4. SavedInTime'
  BY <1>1, <1>2 DEF SavedInTime
<1>5. InOrder'
  <2> SUFFICES ASSUME log # <<>>, ~lost PROVE InOrder'
    BY <1>2 DEF InOrder
  <2>1. Rising(log)
    BY <1>1 DEF InOrder
  <2>2. CASE file = Missing
    BY <1>2, <2>1, <2>2 DEF InOrder
  <2>3. CASE file # Missing
    <3>1. pc = "run" /\ file = saved /\ Minus(seq, saved) < Step
      BY <1>1, <1>2, <2>3 DEF SavedInTime, SeqTypeOK
    <3>2. /\ Ahead(saved) <= Ahead(seq) /\ Ahead(Newest) < Ahead(seq)
          /\ Ahead(seq) <= Len(log) + Step * (starts - 1)
      BY <1>1, <3>1 DEF InOrder
    <3>3. /\ log[1] \in Numbers /\ Newest \in Numbers /\ seq \in Numbers /\ saved \in Numbers
          /\ Len(log) \in Nat /\ starts \in 1 .. MaxStarts
      BY <1>1, <1>2, Logged, LenProperties DEF Newest, SeqTypeOK, SavedInTime
    <3>4. Ahead(seq) \in Nat /\ Ahead(Newest) \in Nat /\ Ahead(saved) \in Nat
      <4>1. \A y \in Numbers : Ahead(y) \in Numbers
        BY <3>3, MinusIs DEF Ahead
      <4>. QED  BY <3>3, <4>1, NumbersNat
    <3>5. Minus(seq, saved) = Ahead(seq) - Ahead(saved)
      BY <3>2, <3>3, Distances DEF Ahead
    <3>6. Step * (starts - 1) \in Nat
      BY <3>3, Budget
    <3>7. /\ Ahead(Newest) < Ahead(saved) + Step
          /\ Ahead(saved) <= Len(log) + Step * (starts - 1)
      BY <3>1, <3>2, <3>3, <3>4, <3>5, <3>6
    <3>. QED
      BY <1>2, <2>1, <3>1, <3>7 DEF InOrder, Ahead, Newest
  <2>. QED  BY <2>2, <2>3
<1>. QED
  BY <1>3, <1>4, <1>5 DEF SeqInv

LEMMA SeqInvStep == SeqInv /\ [SeqAnyStep]_seqVars => SeqInv'
<1>1. SeqInv /\ UNCHANGED seqVars => SeqInv'
  BY DEF SeqInv, SeqTypeOK, SavedInTime, InOrder, Rising, Ahead, Newest, seqVars
<1>. QED
  BY <1>1, BootKeeps, BootSavedKeeps, SeqNextKeeps, NextSavedKeeps, PowerOffKeeps
     DEF SeqAnyStep

\* A log that goes up has no number twice.
LEMMA RisingInjective == SeqInv => NeverReused
<1> SUFFICES ASSUME SeqInv, ~lost, NEW i \in DOMAIN log, NEW j \in DOMAIN log, i # j
             PROVE  log[i] # log[j]
  BY DEF NeverReused, IsInjective
<1>1. log \in Seq(Numbers) /\ InOrder /\ Len(log) \in Nat /\ DOMAIN log = 1 .. Len(log)
  BY LenProperties DEF SeqInv, SeqTypeOK
<1>2. log # <<>>
  BY <1>1
<1>3. Rising(log) /\ log[1] \in Numbers /\ log[i] \in Numbers /\ log[j] \in Numbers
  BY <1>1, <1>2, Logged DEF InOrder
<1>4. Minus(log[i], log[1]) \in Nat /\ Minus(log[j], log[1]) \in Nat
  BY <1>3, MinusIs, NumbersNat
<1>5. i < j \/ j < i
  BY <1>1
<1>. QED
  BY <1>3, <1>4, <1>5 DEF Rising

\* No two messages within the window of the server carry the same number, over
\* any number of starts that the span of the number allows (seq_begin, seq_next,
\* seq_save).
THEOREM SeqNeverReused == SeqSpec => []NeverReused
BY SeqInvInit, SeqInvStep, RisingInjective, PTL DEF SeqSpec

\* The numbers stay within 16 bits, and the file holds one of them or nothing.
THEOREM SeqTyped == SeqSpec => []SeqTypeOK
<1>1. SeqInv => SeqTypeOK
  BY DEF SeqInv
<1>. QED
  BY SeqInvInit, SeqInvStep, <1>1, PTL DEF SeqSpec
=============================================================================
