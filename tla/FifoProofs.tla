----------------------------- MODULE FifoProofs -----------------------------
(***************************************************************************)
(* Proofs about the queue of the tracker, for every value of the           *)
(* constants: first about FifoTracker, the tracker with any server that    *)
(* may be relied on, then about FifoSystem, the tracker with the server.   *)
(***************************************************************************)
EXTENDS FifoSystem, FiniteSetTheorems, SequenceTheorems, WellFoundedInduction, TLAPS
(***************************************************************************)
(* The state records the helpers work on: their types, and the sizes of    *)
(* the queue, of its file and of the buffer.                               *)
(***************************************************************************)
States == [pts : Buffers, fifo : SUBSET Times, disk : SUBSET Times, fl : SentMsg,
           sent : [0 .. SentMax - 1 -> SentMsg], owed : SUBSET Times]

Sizes(s) ==
  /\ Cardinality(s.fifo) <= FifoMax
  /\ Cardinality(s.disk) <= FifoMax
  /\ Cardinality(DOMAIN s.pts) <= PtsMax

Good(s) == s \in States /\ Sizes(s)

LEMMA TimesFinite ==
  ASSUME NEW S \in SUBSET Times
  PROVE  IsFiniteSet(S) /\ Cardinality(S) \in Nat
<1>1. IsFiniteSet(Times)
  BY FS_Interval, CountsAssumption DEF Times
<1>. QED
  BY <1>1, FS_Subset, FS_CardinalityType

LEMMA SmallerSet ==
  ASSUME NEW S \in SUBSET Times, NEW T \in SUBSET S
  PROVE  Cardinality(T) <= Cardinality(S)
BY TimesFinite, FS_Subset

\* A set of times that is not empty has an earliest one: of the sets of what
\* lies before one of its elements, a smallest one is empty.
LEMMA MinTime ==
  ASSUME NEW S \in SUBSET Times, S # {}
  PROVE  Min(S) \in S /\ \A q \in S : Min(S) <= q
<1>. DEFINE Before(x) == {q \in S : q < x}
            T == {Before(x) : x \in S}
            R == StrictSubsetOrdering(S)
<1>1. IsWellFoundedOn(R, SUBSET S)
  BY TimesFinite, FS_FiniteSubsetsOfFinite, FS_StrictSubsetOrderingWellFounded
<1>2. T \subseteq SUBSET S /\ T # {}
  OBVIOUS
<1>3. PICK D \in T : \A E \in T : <<E, D>> \notin R
  <2>. HIDE DEF T, R
  <2>. QED  BY <1>1, <1>2, WFMin
<1>4. PICK x \in S : D = Before(x)
  BY <1>3
<1>5. ASSUME NEW y \in S, y < x
      PROVE  FALSE
  <2>. S \subseteq Int
    BY DEF Times
  <2>1. y \in Before(x) /\ y \notin Before(y)
    BY <1>5
  <2>3. \A q \in S : q < y => q < x
    BY <1>5
  <2>4. Before(y) \subseteq Before(x)
    BY <2>3
  <2>2. <<Before(y), D>> \in R
    BY <1>4, <2>1, <2>4 DEF StrictSubsetOrdering
  <2>. QED  BY <1>3, <2>2
<1>6. \A y \in S : x <= y
  BY <1>5 DEF Times
<1>. QED
  BY <1>6 DEF Min

LEMMA BufferType ==
  ASSUME NEW f
  PROVE  f \in Buffers <=> f \in [DOMAIN f -> BOOLEAN] /\ DOMAIN f \subseteq Times
BY DEF Buffers

LEMMA WithoutType ==
  ASSUME NEW f \in Buffers, NEW S
  PROVE  /\ Without(f, S) \in Buffers
         /\ DOMAIN Without(f, S) = DOMAIN f \ S
         /\ \A p \in DOMAIN f \ S : Without(f, S)[p] = f[p]
BY BufferType DEF Without, Restrict

LEMMA SavedGood ==
  ASSUME NEW s, Good(s), NEW u \in Saved(s)
  PROVE  Good(u)
BY DEF Saved, Good, States, Sizes

LEMMA FifoAddGood ==
  ASSUME NEW s, Good(s), NEW S \in SUBSET Times, NEW u \in FifoAdd(s, S)
  PROVE  Good(u) /\ u.pts = s.pts
<1>1. CASE S \subseteq s.fifo
  BY <1>1 DEF FifoAdd
<1>2. CASE ~(S \subseteq s.fifo)
  <2>1. PICK g \in Kept(s.fifo, S \ s.fifo) :
          u = [s EXCEPT !.fifo = g, !.owed = @ \ (((s.fifo \cup S) \ g) \ DOMAIN s.pts)]
    BY <1>2 DEF FifoAdd
  <2>2. g \in SUBSET Times /\ Cardinality(g) <= FifoMax
    BY DEF Kept, Good, States
  <2>. QED
    BY <2>1, <2>2 DEF Good, States, Sizes
<1>. QED
  BY <1>1, <1>2

LEMMA SpillGood ==
  ASSUME NEW s, Good(s), NEW S \in SUBSET (DOMAIN s.pts), NEW u \in Spill(s, S)
  PROVE  Good(u) /\ u.pts = Without(s.pts, S)
<1>. DEFINE toFifo == {p \in S : s.pts[p] \/ ~Hoofd}
            r == [s EXCEPT !.pts = Without(s.pts, S),
                           !.owed = @ \ ((S \ toFifo) \ s.fifo)]
<1>1. s.pts \in Buffers /\ S \subseteq Times
  BY BufferType DEF Good, States
<1>2. Without(s.pts, S) \in Buffers /\ DOMAIN Without(s.pts, S) = DOMAIN s.pts \ S
  BY <1>1, WithoutType
<1>3. Cardinality(DOMAIN s.pts \ S) <= Cardinality(DOMAIN s.pts)
  BY <1>1, BufferType, SmallerSet
<1>4. Cardinality(DOMAIN s.pts \ S) \in Nat /\ Cardinality(DOMAIN s.pts) \in Nat
  BY <1>1, BufferType, TimesFinite
<1>5. r \in States
  BY <1>2 DEF Good, States
<1>6. Sizes(r)
  BY <1>2, <1>3, <1>4, CountsAssumption DEF Good, Sizes, States
<1>7. r.pts = Without(s.pts, S)
  BY DEF Good, States
<1>8. u \in FifoAdd(r, toFifo)
  BY DEF Spill
<1>. HIDE DEF r, toFifo
<1>9. toFifo \in SUBSET Times
  BY <1>1 DEF toFifo
<1>10. Good(r)
  BY <1>5, <1>6 DEF Good
<1>. QED
  BY <1>7, <1>8, <1>9, <1>10, FifoAddGood

LEMMA PtsPushGood ==
  ASSUME NEW s, Good(s), NEW ts \in Times, NEW main \in BOOLEAN, NEW u \in PtsPush(s, ts, main)
  PROVE  Good(u) /\ DOMAIN u.pts \subseteq DOMAIN s.pts \cup {ts}
<1>. DEFINE D == DOMAIN s.pts
            room == IF Cardinality(D) = PtsMax THEN Spill(s, {Min(D)}) ELSE {s}
<1>1. s.pts \in [D -> BOOLEAN] /\ D \in SUBSET Times
  BY BufferType DEF Good, States
<1>2. IsFiniteSet(D) /\ Cardinality(D) \in Nat /\ Cardinality(D) <= PtsMax
  BY <1>1, TimesFinite DEF Good, Sizes
<1>3. CASE \E p \in D : p >= ts
  <2>1. u = s \/ (ts \in D /\ u = [s EXCEPT !.pts[ts] = TRUE])
    BY <1>3 DEF PtsPush
  <2>2. CASE u = s
    BY <2>2
  <2>3. CASE ts \in D /\ u = [s EXCEPT !.pts[ts] = TRUE]
    <3>1. [s.pts EXCEPT ![ts] = TRUE] \in Buffers /\ DOMAIN [s.pts EXCEPT ![ts] = TRUE] = D
      BY <1>1, <2>3, BufferType
    <3>2. u = [s EXCEPT !.pts = [s.pts EXCEPT ![ts] = TRUE]]
      BY <2>3
    <3>. QED  BY <3>1, <3>2 DEF Good, States, Sizes
  <2>. QED  BY <2>1, <2>2, <2>3
<1>4. CASE ~ \E p \in D : p >= ts
  <2>. DEFINE pushed(r) == [p \in DOMAIN r.pts \cup {ts} |-> IF p = ts THEN main ELSE r.pts[p]]
  <2>1. PICK r \in room : u = [r EXCEPT !.pts = pushed(r)]
    BY <1>4 DEF PtsPush
  <2>2. /\ Good(r) /\ DOMAIN r.pts \subseteq D
        /\ Cardinality(DOMAIN r.pts) < PtsMax
    <3>1. CASE Cardinality(D) = PtsMax
      <4>1. D # {}
        BY <1>2, <3>1, FS_EmptySet, CountsAssumption
      <4>2. Min(D) \in D
        BY <1>1, <4>1, MinTime
      <4>3. Good(r) /\ r.pts = Without(s.pts, {Min(D)})
        BY <2>1, <3>1, <4>2, SpillGood
      <4>4. DOMAIN r.pts = D \ {Min(D)}
        BY <4>3, WithoutType DEF Good, States
      <4>5. Cardinality(D \ {Min(D)}) = Cardinality(D) - 1
        BY <1>2, <4>2, FS_RemoveElement
      <4>. QED  BY <1>2, <3>1, <4>3, <4>4, <4>5
    <3>2. CASE Cardinality(D) # PtsMax
      BY <1>2, <2>1, <3>2, CountsAssumption
    <3>. QED  BY <3>1, <3>2
  <2>3. DOMAIN pushed(r) = DOMAIN r.pts \cup {ts} /\ pushed(r) \in Buffers
    BY <2>2, BufferType DEF Good, States
  <2>4. Cardinality(DOMAIN pushed(r)) <= PtsMax
    <3>1. IsFiniteSet(DOMAIN r.pts) /\ Cardinality(DOMAIN r.pts) \in Nat
      BY <2>2, BufferType, TimesFinite DEF Good, States
    <3>2. Cardinality(DOMAIN r.pts \cup {ts}) \in
            {Cardinality(DOMAIN r.pts), Cardinality(DOMAIN r.pts) + 1}
      BY <3>1, FS_AddElement
    <3>. QED  BY <2>2, <2>3, <3>1, <3>2, CountsAssumption
  <2>5. u \in States
    BY <2>1, <2>2, <2>3 DEF Good, States
  <2>6. Sizes(u)
    BY <2>1, <2>2, <2>4 DEF Good, States, Sizes
  <2>7. DOMAIN u.pts \subseteq D \cup {ts}
    BY <2>1, <2>2, <2>3 DEF Good, States
  <2>. QED  BY <2>5, <2>6, <2>7 DEF Good
<1>. QED
  BY <1>3, <1>4

LEMMA PtsHeardGood ==
  ASSUME NEW s, Good(s), NEW lo \in Nat, NEW hi \in Nat, NEW u \in PtsHeard(s, lo, hi)
  PROVE  Good(u) /\ DOMAIN u.pts \subseteq DOMAIN s.pts
<1>. DEFINE D == DOMAIN s.pts
            In == {p \in D : lo <= p /\ p <= hi}
            r == [s EXCEPT !.pts = Without(s.pts, In)]
            old == {p \in D : p < lo}
<1>1. s.pts \in Buffers /\ D \subseteq Times
  BY BufferType DEF Good, States
<1>2. Without(s.pts, In) \in Buffers /\ DOMAIN Without(s.pts, In) = D \ In
  BY <1>1, WithoutType
<1>3. Cardinality(D \ In) <= Cardinality(D) /\ Cardinality(D \ In) \in Nat /\ Cardinality(D) \in Nat
  BY <1>1, SmallerSet, TimesFinite
<1>4. r \in States /\ r.pts = Without(s.pts, In)
  BY <1>2 DEF Good, States
<1>5. Sizes(r)
  BY <1>2, <1>3, CountsAssumption DEF Good, Sizes, States
<1>6. u \in Spill(r, old)
  BY DEF PtsHeard
<1>7. old \subseteq D \ In
  BY <1>1 DEF Times
<1>. HIDE DEF r, old, In
<1>8. Good(u) /\ u.pts = Without(r.pts, old)
  BY <1>2, <1>4, <1>5, <1>6, <1>7, SpillGood DEF Good
<1>9. DOMAIN u.pts = DOMAIN r.pts \ old
  BY <1>2, <1>4, <1>8, WithoutType
<1>. QED
  BY <1>2, <1>4, <1>8, <1>9

LEMMA FlushDoneGood ==
  ASSUME NEW s, Good(s), NEW heard \in BOOLEAN, NEW u \in FlushDone(s, heard)
  PROVE  Good(u) /\ u.pts = s.pts
<1>1. CASE s.fl.seq = 0
  BY <1>1 DEF FlushDone
<1>2. CASE s.fl.seq # 0
  <2>. DEFINE left == IF heard THEN s.fifo \ s.fl.pts ELSE s.fifo
              r == [s EXCEPT !.fl = NoMsg, !.fifo = left]
  <2>1. u \in Saved(r)
    BY <1>2 DEF FlushDone
  <2>2. Cardinality(left) <= FifoMax /\ left \subseteq Times
    <3>1. left \subseteq s.fifo /\ s.fifo \subseteq Times
      BY DEF Good, States
    <3>2. Cardinality(left) <= Cardinality(s.fifo) /\ Cardinality(left) \in Nat
          /\ Cardinality(s.fifo) \in Nat
      BY <3>1, SmallerSet, TimesFinite
    <3>. QED  BY <3>1, <3>2, CountsAssumption DEF Good, Sizes
  <2>3. NoMsg \in SentMsg
    BY CountsAssumption DEF NoMsg, SentMsg
  <2>. HIDE DEF left
  <2>4. Good(r) /\ r.pts = s.pts
    BY <2>2, <2>3 DEF Good, States, Sizes
  <2>. QED
    BY <2>1, <2>4, SavedGood DEF Saved, Good, States
<1>. QED
  BY <1>1, <1>2

LEMMA TxwFinishGood ==
  ASSUME NEW s, Good(s), NEW w \in Watch, NEW u \in TxwFinish(s, w)
  PROVE  Good(u) /\ DOMAIN u.pts \subseteq DOMAIN s.pts
BY FlushDoneGood, PtsHeardGood, CountsAssumption DEF TxwFinish, Watch

LEMMA DisplacedGood ==
  ASSUME txw \in Seq(Watch), NEW s, Good(s), NEW u \in Displaced(s)
  PROVE  Good(u) /\ DOMAIN u.pts \subseteq DOMAIN s.pts
<1>1. CASE Len(txw) = TxwMax
  <2>1. Head(txw) \in Watch
    BY <1>1, HeadTailProperties, EmptySeq, CountsAssumption
  <2>. QED  BY <1>1, <2>1, TxwFinishGood DEF Displaced
<1>2. CASE Len(txw) # TxwMax
  BY <1>2 DEF Displaced
<1>. QED
  BY <1>1, <1>2

LEMMA TxwAddType ==
  ASSUME txw \in Seq(Watch), NEW w \in Watch
  PROVE  TxwAdd(w) \in Seq(Watch)
<1>1. CASE Len(txw) = TxwMax
  <2>1. Tail(txw) \in Seq(Watch)
    BY <1>1, HeadTailProperties, EmptySeq, CountsAssumption
  <2>. QED  BY <1>1, <2>1, AppendProperties DEF TxwAdd
<1>2. CASE Len(txw) # TxwMax
  BY <1>2, AppendProperties DEF TxwAdd
<1>. QED
  BY <1>1, <1>2

LEMMA RemoveAtType ==
  ASSUME txw \in Seq(Watch), NEW i \in DOMAIN txw
  PROVE  RemoveAt(txw, i) \in Seq(Watch)
<1>1. i \in 1 .. Len(txw) /\ Len(txw) \in Nat
  BY LenProperties
<1>2. \A k \in 1 .. Len(txw) : txw[k] \in Watch
  BY ElementOfSeq
<1>3. SubSeq(txw, 1, i - 1) \in Seq(Watch)
  BY <1>1, <1>2, SubSeqProperties
<1>4. SubSeq(txw, i + 1, Len(txw)) \in Seq(Watch)
  BY <1>1, <1>2, SubSeqProperties
<1>. QED
  BY <1>3, <1>4, ConcatProperties DEF RemoveAt

(***************************************************************************)
(* Types and sizes are inductive together.                                 *)
(***************************************************************************)
TypeInv == TypeOK /\ Good(St)

LEMMA BecomesType ==
  ASSUME NEW s, Good(s), Becomes(s)
  PROVE  /\ pts' \in Buffers /\ fifo' \subseteq Times /\ disk' \subseteq Times
         /\ fl' \in SentMsg /\ sent' \in [0 .. SentMax - 1 -> SentMsg] /\ owed' \subseteq Times
         /\ Good(St)'
<1>1. s.pts \in Buffers /\ s.fifo \subseteq Times /\ s.disk \subseteq Times /\ s.fl \in SentMsg
      /\ s.sent \in [0 .. SentMax - 1 -> SentMsg] /\ s.owed \subseteq Times
  BY DEF Good, States
<1>2. (St \in States)'
  BY <1>1 DEF Becomes, St, States
<1>3. Sizes(St)'
  BY DEF Becomes, St, Good, Sizes
<1>. QED
  BY <1>1, <1>2, <1>3 DEF Becomes, Good

LEMMA OwingGood ==
  ASSUME TypeInv, NEW ts \in Times
  PROVE  Good(Owing(ts)) /\ Owing(ts).pts = pts
BY DEF TypeInv, Good, States, Sizes, St, Owing

LEMMA TypeInvInit == Init => TypeInv
<1>1. EmptyBuffer \in Buffers /\ DOMAIN EmptyBuffer = {}
  BY BufferType DEF EmptyBuffer
<1>2. NoMsg \in SentMsg
  BY CountsAssumption DEF NoMsg, SentMsg
<1>3. EmptyRing \in [0 .. SentMax - 1 -> SentMsg]
  BY <1>2 DEF EmptyRing
<1>4. <<>> \in Seq(Watch)
  BY EmptySeq
<1>5. 0 \in 0 .. MaxTs /\ 0 \in 0 .. MaxSeq /\ 0 \in 0 .. SentMax - 1
  BY CountsAssumption
<1>6. Cardinality({}) = 0
  BY FS_EmptySet
<1>. QED
  BY <1>1, <1>2, <1>3, <1>4, <1>5, <1>6, CountsAssumption
  DEF Init, TypeInv, TypeOK, Good, States, Sizes, St

LEMMA FixType ==
  ASSUME TypeInv, NEW keep \in BOOLEAN, Fix(keep)
  PROVE  TypeInv'
<1>1. gps + 1 \in Times /\ gps' \in 0 .. MaxTs
  BY CountsAssumption DEF Fix, TypeInv, TypeOK, Times
<1>2. PICK s \in IF keep THEN PtsPush(Owing(gps + 1), gps + 1, FALSE) ELSE {St} : Becomes(s)
  BY DEF Fix
<1>3. Good(s)
  BY <1>1, <1>2, PtsPushGood, OwingGood DEF TypeInv
<1>. QED
  BY <1>1, <1>2, <1>3, BecomesType DEF Fix, TypeInv, TypeOK

LEMMA SlowTakeType ==
  ASSUME TypeInv, SlowTake
  PROVE  TypeInv'
<1>1. gps \in Times
  BY DEF SlowTake, TypeInv, TypeOK, Times
<1>2. PICK s \in FifoAdd(Owing(gps), {gps}) : Becomes(s)
  BY DEF SlowTake
<1>3. Good(s)
  BY <1>1, <1>2, FifoAddGood, OwingGood
<1>. QED
  BY <1>2, <1>3, BecomesType DEF SlowTake, TypeInv, TypeOK

LEMMA NextSeq ==
  ASSUME TypeInv, seq < MaxSeq
  PROVE  seq + 1 \in Seqs /\ seq + 1 \in 0 .. MaxSeq
BY CountsAssumption DEF TypeInv, TypeOK, Seqs

LEMMA SendReportType ==
  ASSUME TypeInv, NEW k \in 0 .. ExtraMax, SendReport(k)
  PROVE  TypeInv'
<1>. DEFINE carried == NewestOf({p \in DOMAIN pts : p < gps}, k) \cup {gps}
            w == [seq |-> seq + 1, kind |-> "M", lo |-> Min(carried), hi |-> gps,
                  sent |-> FALSE, rep |-> FALSE, on |-> TRUE]
            m == [seq |-> seq + 1, kind |-> "M", pts |-> carried]
<1>1. gps \in Times /\ gps \in 0 .. MaxTs
  BY DEF SendReport, TypeInv, TypeOK, Times
<1>2. carried \subseteq Times /\ carried # {}
  BY <1>1, BufferType DEF NewestOf, TypeInv, TypeOK
<1>3. Min(carried) \in 0 .. MaxTs
  <2>1. Min(carried) \in carried
    BY <1>2, MinTime
  <2>. QED  BY <1>2, <2>1, CountsAssumption DEF Times
<1>4. seq + 1 \in Seqs /\ seq' \in 0 .. MaxSeq
  BY NextSeq DEF SendReport
<1>5. txw' = TxwAdd(w) /\ air' = air \cup {m}
  BY DEF SendReport
<1>6. PICK s \in PtsPush(Owing(gps), gps, TRUE) : \E u \in Displaced(s) : Becomes(u)
  BY DEF SendReport
<1>7. PICK u \in Displaced(s) : Becomes(u)
  BY <1>6
<1>. HIDE DEF carried
<1>8. w \in Watch /\ m \in Message
  BY <1>1, <1>2, <1>3, <1>4 DEF Watch, Message
<1>9. Good(u)
  BY <1>1, <1>6, <1>7, PtsPushGood, OwingGood, DisplacedGood DEF TypeInv, TypeOK
<1>10. txw' \in Seq(Watch)
  BY <1>5, <1>8, TxwAddType DEF TypeInv, TypeOK
<1>. QED
  BY <1>4, <1>5, <1>7, <1>8, <1>9, <1>10, BecomesType DEF SendReport, TypeInv, TypeOK

LEMMA SendReportFailsType ==
  ASSUME TypeInv, SendReportFails
  PROVE  TypeInv'
<1>1. gps \in Times
  BY DEF SendReportFails, TypeInv, TypeOK, Times
<1>2. seq' \in 0 .. MaxSeq
  BY NextSeq DEF SendReportFails
<1>3. PICK s \in PtsPush(Owing(gps), gps, TRUE) : Becomes(s)
  BY DEF SendReportFails
<1>4. Good(s)
  BY <1>1, <1>3, PtsPushGood, OwingGood
<1>. QED
  BY <1>2, <1>3, <1>4, BecomesType DEF SendReportFails, TypeInv, TypeOK

LEMMA AgeOutType ==
  ASSUME TypeInv, NEW cut \in Times, AgeOut(cut)
  PROVE  TypeInv'
<1>1. PICK s \in Spill(St, {p \in DOMAIN pts : p <= cut /\ (pts[p] \/ ~Hoofd)}) : Becomes(s)
  BY DEF AgeOut
<1>2. Good(s)
  BY <1>1, SpillGood DEF TypeInv, St
<1>. QED
  BY <1>1, <1>2, BecomesType DEF AgeOut, TypeInv, TypeOK

LEMMA FifoSaveType ==
  ASSUME TypeInv, FifoSave
  PROVE  TypeInv'
BY DEF FifoSave, TypeInv, TypeOK, Good, States, Sizes, St

LEMMA FlushOutGood ==
  ASSUME TypeInv, seq < MaxSeq, NEW S \in SUBSET fifo
  PROVE  Good(FlushOut(S)) /\ FlushOut(S).pts = pts
<1>1. [seq |-> seq + 1, pts |-> S] \in SentMsg
  BY NextSeq DEF SentMsg, TypeInv, TypeOK
<1>. QED
  BY <1>1 DEF TypeInv, Good, States, Sizes, St, FlushOut

LEMMA SendFlushType ==
  ASSUME TypeInv, NEW S \in SUBSET fifo, SendFlush(S)
  PROVE  TypeInv'
<1>. DEFINE w == [seq |-> seq + 1, kind |-> "Q", lo |-> 0, hi |-> 0,
                  sent |-> FALSE, rep |-> FALSE, on |-> TRUE]
            m == [seq |-> seq + 1, kind |-> "Q", pts |-> S]
            e == [seq |-> seq + 1, pts |-> S]
<1>1. seq + 1 \in Seqs /\ seq + 1 \in 0 .. MaxSeq /\ seq' \in 0 .. MaxSeq
  BY NextSeq DEF SendFlush
<1>2. sentI' \in 0 .. SentMax - 1
  BY CountsAssumption DEF SendFlush, TypeInv, TypeOK
<1>3. PICK u \in Displaced(FlushOut(S)) : Becomes([u EXCEPT !.sent[sentI] = e])
  BY DEF SendFlush
<1>4. Good(u)
  BY <1>3, FlushOutGood, DisplacedGood DEF SendFlush, TypeInv, TypeOK
<1>5. S \subseteq Times
  BY DEF TypeInv, TypeOK
<1>6. w \in Watch /\ m \in Message /\ e \in SentMsg
  BY <1>1, <1>5, CountsAssumption DEF Watch, Message, SentMsg
<1>7. txw' \in Seq(Watch) /\ air' \subseteq Message
  BY <1>6, TxwAddType DEF SendFlush, TypeInv, TypeOK
<1>8. Good([u EXCEPT !.sent[sentI] = e])
  <2>1. [u.sent EXCEPT ![sentI] = e] \in [0 .. SentMax - 1 -> SentMsg]
    BY <1>4, <1>6 DEF Good, States
  <2>. HIDE DEF e
  <2>2. [u EXCEPT !.sent = [u.sent EXCEPT ![sentI] = e]] \in States
    BY <1>4, <2>1 DEF Good, States
  <2>3. Sizes([u EXCEPT !.sent = [u.sent EXCEPT ![sentI] = e]])
    BY <1>4 DEF Good, States, Sizes
  <2>. QED  BY <2>2, <2>3 DEF Good
<1>. HIDE DEF e
<1>. QED
  BY <1>1, <1>2, <1>3, <1>7, <1>8, BecomesType DEF SendFlush, TypeInv, TypeOK

LEMMA SendFlushFailsType ==
  ASSUME TypeInv, NEW S \in SUBSET fifo, SendFlushFails(S)
  PROVE  TypeInv'
<1>1. seq' \in 0 .. MaxSeq
  BY NextSeq DEF SendFlushFails
<1>2. PICK u \in FlushDone(FlushOut(S), FALSE) : Becomes(u)
  BY DEF SendFlushFails
<1>3. Good(u)
  BY <1>2, FlushOutGood, FlushDoneGood DEF SendFlushFails
<1>. QED
  BY <1>1, <1>2, <1>3, BecomesType DEF SendFlushFails, TypeInv, TypeOK

LEMMA TxPacketType ==
  ASSUME TypeInv, NEW i \in DOMAIN txw, TxPacket(i)
  PROVE  TypeInv'
<1>1. txw \in Seq(Watch) /\ txw[i] \in Watch
  BY LenProperties, ElementOfSeq DEF TypeInv, TypeOK
<1>2. RemoveAt(txw, i) \in Seq(Watch) /\ [txw[i] EXCEPT !.sent = TRUE] \in Watch
  BY <1>1, RemoveAtType DEF Watch
<1>3. txw' \in Seq(Watch)
  BY <1>2, AppendProperties DEF TxPacket
<1>. QED
  BY <1>3 DEF TxPacket, TypeInv, TypeOK, Good, States, Sizes, St

LEMMA RepeatType ==
  ASSUME TypeInv, NEW i \in DOMAIN txw, Repeat(i)
  PROVE  TypeInv'
<1>1. txw \in Seq(Watch) /\ txw[i] \in Watch
  BY LenProperties, ElementOfSeq DEF TypeInv, TypeOK
<1>2. [txw[i] EXCEPT !.rep = TRUE] \in Watch /\ txw[i].seq \in Seqs
  BY <1>1 DEF Watch
<1>3. txw' \in Seq(Watch)
  BY <1>1, <1>2, ExceptSeq DEF Repeat
<1>. QED
  BY <1>2, <1>3 DEF Repeat, TypeInv, TypeOK, Good, States, Sizes, St

LEMMA WatchHeardType ==
  ASSUME TypeInv, NEW i \in DOMAIN txw, WatchHeard(i)
  PROVE  TypeInv'
<1>1. txw \in Seq(Watch) /\ txw[i] \in Watch
  BY LenProperties, ElementOfSeq DEF TypeInv, TypeOK
<1>2. [txw[i] EXCEPT !.on = FALSE] \in Watch
  BY <1>1 DEF Watch
<1>3. txw' \in Seq(Watch)
  BY <1>1, <1>2, ExceptSeq DEF WatchHeard
<1>4. PICK s \in TxwFinish(St, txw[i]) : Becomes(s)
  BY DEF WatchHeard
<1>5. Good(s)
  BY <1>1, <1>4, TxwFinishGood DEF TypeInv
<1>. QED
  BY <1>3, <1>4, <1>5, BecomesType DEF WatchHeard, TypeInv, TypeOK

LEMMA WatchExpiresType ==
  ASSUME TypeInv, NEW i \in DOMAIN txw, WatchExpires(i)
  PROVE  TypeInv'
<1>1. txw \in Seq(Watch) /\ txw[i] \in Watch
  BY LenProperties, ElementOfSeq DEF TypeInv, TypeOK
<1>2. txw' \in Seq(Watch)
  BY <1>1, RemoveAtType DEF WatchExpires
<1>3. PICK s \in TxwFinish(St, txw[i]) : Becomes(s)
  BY DEF WatchExpires
<1>4. Good(s)
  BY <1>1, <1>3, TxwFinishGood DEF TypeInv
<1>. QED
  BY <1>2, <1>3, <1>4, BecomesType DEF WatchExpires, TypeInv, TypeOK

LEMMA HandleT1FType ==
  ASSUME TypeInv, NEW S, HandleT1F(S)
  PROVE  TypeInv'
<1>. DEFINE known == {i \in DOMAIN sent : sent[i].seq \in S}
            gone  == UNION {sent[i].pts : i \in known}
            ring  == [i \in DOMAIN sent |-> IF i \in known THEN NoMsg ELSE sent[i]]
            s1 == [St EXCEPT !.fifo = fifo \ gone, !.sent = ring]
<1>1. PICK s \in IF known # {} THEN Saved(s1) ELSE {s1} : Becomes(s)
  BY DEF HandleT1F
<1>2. Cardinality(fifo \ gone) <= FifoMax
  <2>1. Cardinality(fifo \ gone) <= Cardinality(fifo) /\ Cardinality(fifo \ gone) \in Nat
        /\ Cardinality(fifo) \in Nat /\ Cardinality(fifo) <= FifoMax
    BY SmallerSet, TimesFinite DEF TypeInv, TypeOK, Good, Sizes, St
  <2>. QED  BY <2>1, CountsAssumption
<1>3. ring \in [0 .. SentMax - 1 -> SentMsg]
  BY CountsAssumption DEF NoMsg, SentMsg, TypeInv, TypeOK
<1>. HIDE DEF gone, ring, known
<1>4. Good(s1)
  BY <1>2, <1>3 DEF TypeInv, TypeOK, Good, States, Sizes, St
<1>5. Good(s)
  BY <1>1, <1>4, SavedGood
<1>. QED
  BY <1>1, <1>5, BecomesType DEF HandleT1F, TypeInv, TypeOK

LEMMA FifoClearType ==
  ASSUME TypeInv, FifoClear
  PROVE  TypeInv'
<1>. DEFINE r == [St EXCEPT !.fifo = {}, !.fl = NoMsg, !.owed = @ \ (fifo \ DOMAIN pts)]
<1>1. PICK s \in Saved(r) : Becomes(s)
  BY DEF FifoClear
<1>2. NoMsg \in SentMsg
  BY CountsAssumption DEF NoMsg, SentMsg
<1>3. Good(r)
  <2>1. owed \ (fifo \ DOMAIN pts) \subseteq Times
    BY DEF TypeInv, TypeOK
  <2>2. Cardinality({}) = 0
    BY FS_EmptySet
  <2>3. r \in States
    <3>. DEFINE left == owed \ (fifo \ DOMAIN pts)
    <3>1. r = [St EXCEPT !.fifo = {}, !.fl = NoMsg, !.owed = left]
      BY DEF St
    <3>2. left \in SUBSET Times /\ St \in States
      BY <2>1 DEF TypeInv, Good
    <3>. HIDE DEF left, r
    <3>. QED  BY <1>2, <3>1, <3>2 DEF States
  <2>4. Sizes(r)
    BY <2>2, CountsAssumption DEF TypeInv, Good, Sizes, St
  <2>. QED  BY <2>3, <2>4 DEF Good
<1>. HIDE DEF r
<1>4. Good(s)
  BY <1>1, <1>3, SavedGood
<1>5. txw' \in Seq(Watch)
  <2>1. Len(txw) \in Nat /\ DOMAIN txw = 1 .. Len(txw)
    BY LenProperties DEF TypeInv, TypeOK
  <2>2. \A i \in 1 .. Len(txw) : txw[i] \in Watch
    BY ElementOfSeq DEF TypeInv, TypeOK
  <2>3. \A i \in 1 .. Len(txw) : [txw[i] EXCEPT !.on = @ /\ txw[i].kind # "Q"] \in Watch
    BY <2>2 DEF Watch
  <2>4. txw' = [i \in 1 .. Len(txw) |-> [txw[i] EXCEPT !.on = @ /\ txw[i].kind # "Q"]]
    BY <2>1 DEF FifoClear
  <2>. QED  BY <2>1, <2>3, <2>4, IsASeq
<1>. QED
  BY <1>1, <1>4, <1>5, BecomesType DEF FifoClear, TypeInv, TypeOK

LEMMA RebootType ==
  ASSUME TypeInv, Reboot
  PROVE  TypeInv'
<1>1. EmptyBuffer \in Buffers /\ DOMAIN EmptyBuffer = {}
  BY BufferType DEF EmptyBuffer
<1>2. NoMsg \in SentMsg
  BY CountsAssumption DEF NoMsg, SentMsg
<1>3. EmptyRing \in [0 .. SentMax - 1 -> SentMsg] /\ 0 \in 0 .. SentMax - 1
  BY <1>2, CountsAssumption DEF EmptyRing
<1>4. <<>> \in Seq(Watch)
  BY EmptySeq
<1>5. Cardinality({}) = 0
  BY FS_EmptySet
<1>. QED
  BY <1>1, <1>2, <1>3, <1>4, <1>5, CountsAssumption
  DEF Reboot, TypeInv, TypeOK, Good, States, Sizes, St

LEMMA TrackerStepType == TypeInv /\ TrackerStep => TypeInv'
BY FixType, SlowTakeType, SendReportType, SendReportFailsType, AgeOutType, FifoSaveType,
   SendFlushType, SendFlushFailsType, TxPacketType, RepeatType, WatchHeardType,
   WatchExpiresType, FifoClearType, RebootType
DEF TrackerStep

TrackerInv == TypeInv /\ confirmed \subseteq Seqs

LEMMA TrackerInvInit == TrackerInit => TrackerInv
BY TypeInvInit DEF TrackerInit, TrackerInv

LEMMA TrackerInvNext == TrackerInv /\ [TrackerNext]_fifoVars => TrackerInv'
<1>. SUFFICES ASSUME TypeInv, confirmed \subseteq Seqs, [TrackerNext]_fifoVars
              PROVE  TypeInv' /\ confirmed' \subseteq Seqs
  BY DEF TrackerInv
<1>1. CASE TrackerAlone
  BY <1>1, TrackerStepType, HandleT1FType DEF TrackerAlone
<1>2. CASE \E S \in SUBSET Drained : Confirm(S)
  <2>1. Drained \subseteq Seqs
    BY DEF Drained, TypeInv, TypeOK, Message
  <2>. QED
    BY <1>2, <2>1 DEF Confirm, trackerVars, TypeInv, TypeOK, Good, States, Sizes, St
<1>3. CASE UNCHANGED fifoVars
  BY <1>3 DEF fifoVars, TypeInv, TypeOK, Good, States, Sizes, St
<1>. QED
  BY <1>1, <1>2, <1>3 DEF TrackerNext

THEOREM TypeInvAlways == TrackerSpec => []TrackerInv
BY TrackerInvInit, TrackerInvNext, PTL DEF TrackerSpec

\* Every variable of the tracker keeps its type.
THEOREM TrackerTypes == TrackerSpec => []TrackerTypeOK
<1>1. TrackerInv => TrackerTypeOK
  BY DEF TrackerInv, TypeInv, TrackerTypeOK
<1>. QED
  BY <1>1, TypeInvAlways, PTL

\* Neither the queue nor the buffer outgrows its array, for every size of both
\* (fifo_add and fifo_evict_one, pts_push, fifo_load).
THEOREM TrackerBounded == TrackerSpec => []FifoBounded
<1>1. TrackerInv => FifoBounded
  BY DEF TrackerInv, TypeInv, Good, Sizes, St, FifoBounded
<1>. QED
  BY <1>1, TypeInvAlways, PTL

(***************************************************************************)
(* Nothing is lost.  K stands for the points of the messages that were     *)
(* heard or confirmed, D for the points of the buffer.                     *)
(***************************************************************************)
Safe(s, K) == s.owed \subseteq DOMAIN s.pts \cup s.fifo \cup K

LEMMA FifoAddSafe ==
  ASSUME NEW s, Good(s), NEW S \in SUBSET Times, NEW u \in FifoAdd(s, S), NEW K,
         s.owed \subseteq DOMAIN s.pts \cup s.fifo \cup S \cup K
  PROVE  Safe(u, K) /\ u.fl = s.fl /\ u.sent = s.sent
<1>1. CASE S \subseteq s.fifo
  BY <1>1 DEF FifoAdd, Safe
<1>2. CASE ~(S \subseteq s.fifo)
  <2>1. PICK g \in Kept(s.fifo, S \ s.fifo) :
          u = [s EXCEPT !.fifo = g, !.owed = @ \ (((s.fifo \cup S) \ g) \ DOMAIN s.pts)]
    BY <1>2 DEF FifoAdd
  <2>2. /\ u.pts = s.pts /\ u.fl = s.fl /\ u.sent = s.sent /\ u.fifo = g
        /\ u.owed = s.owed \ (((s.fifo \cup S) \ g) \ DOMAIN s.pts)
    BY <2>1 DEF Good, States
  <2>. QED
    BY <2>2 DEF Safe
<1>. QED
  BY <1>1, <1>2

LEMMA SpillSafe ==
  ASSUME NEW s, Good(s), NEW S \in SUBSET (DOMAIN s.pts), NEW u \in Spill(s, S), NEW K,
         Safe(s, K)
  PROVE  Safe(u, K) /\ u.fl = s.fl /\ u.sent = s.sent
<1>. DEFINE toFifo == {p \in S : s.pts[p] \/ ~Hoofd}
            r == [s EXCEPT !.pts = Without(s.pts, S),
                           !.owed = @ \ ((S \ toFifo) \ s.fifo)]
<1>1. s.pts \in Buffers /\ S \subseteq Times
  BY BufferType DEF Good, States
<1>2. Without(s.pts, S) \in Buffers /\ DOMAIN Without(s.pts, S) = DOMAIN s.pts \ S
  BY <1>1, WithoutType
<1>3. Cardinality(DOMAIN s.pts \ S) <= Cardinality(DOMAIN s.pts)
  BY <1>1, BufferType, SmallerSet
<1>4. Cardinality(DOMAIN s.pts \ S) \in Nat /\ Cardinality(DOMAIN s.pts) \in Nat
  BY <1>1, BufferType, TimesFinite
<1>5. r \in States
  BY <1>2 DEF Good, States
<1>6. Sizes(r)
  BY <1>2, <1>3, <1>4, CountsAssumption DEF Good, Sizes, States
<1>7. /\ r.pts = Without(s.pts, S) /\ r.fifo = s.fifo /\ r.fl = s.fl /\ r.sent = s.sent
      /\ r.owed = s.owed \ ((S \ toFifo) \ s.fifo)
  BY DEF Good, States
<1>8. u \in FifoAdd(r, toFifo) /\ toFifo \subseteq S
  BY DEF Spill
<1>. HIDE DEF r, toFifo
<1>9. toFifo \in SUBSET Times
  BY <1>1, <1>8
<1>10. r.owed \subseteq DOMAIN r.pts \cup r.fifo \cup toFifo \cup K
  BY <1>2, <1>7 DEF Safe
<1>. QED
  BY <1>5, <1>6, <1>7, <1>8, <1>9, <1>10, FifoAddSafe DEF Good

LEMMA PtsPushSafe ==
  ASSUME NEW s, Good(s), NEW ts \in Times, NEW main \in BOOLEAN, NEW u \in PtsPush(s, ts, main),
         NEW K, Safe(s, K \cup {ts}), \A p \in DOMAIN s.pts : p <= ts
  PROVE  Safe(u, K) /\ u.fl = s.fl /\ u.sent = s.sent
<1>. DEFINE D == DOMAIN s.pts
            room == IF Cardinality(D) = PtsMax THEN Spill(s, {Min(D)}) ELSE {s}
<1>1. s.pts \in [D -> BOOLEAN] /\ D \in SUBSET Times
  BY BufferType DEF Good, States
<1>2. IsFiniteSet(D) /\ Cardinality(D) \in Nat
  BY <1>1, TimesFinite
<1>3. CASE \E p \in D : p >= ts
  <2>1. ts \in D
    BY <1>1, <1>3 DEF Times
  <2>2. u = s \/ u = [s EXCEPT !.pts[ts] = TRUE]
    BY <1>3 DEF PtsPush
  <2>3. CASE u = s
    BY <2>1, <2>3 DEF Safe
  <2>4. CASE u = [s EXCEPT !.pts[ts] = TRUE]
    <3>1. /\ DOMAIN u.pts = D /\ u.fifo = s.fifo /\ u.fl = s.fl /\ u.sent = s.sent
          /\ u.owed = s.owed
      BY <1>1, <2>4 DEF Good, States
    <3>. QED  BY <2>1, <3>1 DEF Safe
  <2>. QED  BY <2>2, <2>3, <2>4
<1>4. CASE ~ \E p \in D : p >= ts
  <2>. DEFINE pushed(r) == [p \in DOMAIN r.pts \cup {ts} |-> IF p = ts THEN main ELSE r.pts[p]]
  <2>1. PICK r \in room : u = [r EXCEPT !.pts = pushed(r)]
    BY <1>4 DEF PtsPush
  <2>2. Good(r) /\ Safe(r, K \cup {ts}) /\ r.fl = s.fl /\ r.sent = s.sent
    <3>1. CASE Cardinality(D) = PtsMax
      <4>1. D # {}
        BY <1>2, <3>1, FS_EmptySet, CountsAssumption
      <4>2. Min(D) \in D
        BY <1>1, <4>1, MinTime
      <4>. QED  BY <2>1, <3>1, <4>2, SpillGood, SpillSafe
    <3>2. CASE Cardinality(D) # PtsMax
      BY <2>1, <3>2
    <3>. QED  BY <3>1, <3>2
  <2>3. /\ DOMAIN u.pts = DOMAIN r.pts \cup {ts} /\ u.fifo = r.fifo /\ u.fl = r.fl
        /\ u.sent = r.sent /\ u.owed = r.owed
    BY <2>1, <2>2 DEF Good, States
  <2>. QED  BY <2>2, <2>3 DEF Safe
<1>. QED
  BY <1>3, <1>4

LEMMA PtsHeardSafe ==
  ASSUME NEW s, Good(s), NEW lo \in Nat, NEW hi \in Nat, NEW u \in PtsHeard(s, lo, hi), NEW K,
         Safe(s, K), \A p \in DOMAIN s.pts : lo <= p /\ p <= hi => p \in K
  PROVE  Safe(u, K) /\ u.fl = s.fl /\ u.sent = s.sent
<1>. DEFINE D == DOMAIN s.pts
            In == {p \in D : lo <= p /\ p <= hi}
            r == [s EXCEPT !.pts = Without(s.pts, In)]
            old == {p \in D : p < lo}
<1>1. s.pts \in Buffers /\ D \subseteq Times
  BY BufferType DEF Good, States
<1>2. Without(s.pts, In) \in Buffers /\ DOMAIN Without(s.pts, In) = D \ In
  BY <1>1, WithoutType
<1>3. Cardinality(D \ In) <= Cardinality(D) /\ Cardinality(D \ In) \in Nat /\ Cardinality(D) \in Nat
  BY <1>1, SmallerSet, TimesFinite
<1>4. /\ r \in States /\ r.pts = Without(s.pts, In) /\ r.fifo = s.fifo /\ r.owed = s.owed
      /\ r.fl = s.fl /\ r.sent = s.sent
  BY <1>2 DEF Good, States
<1>5. Sizes(r)
  BY <1>2, <1>3, CountsAssumption DEF Good, Sizes, States
<1>6. u \in Spill(r, old)
  BY DEF PtsHeard
<1>7. old \subseteq D \ In /\ In \subseteq K
  BY <1>1 DEF Times
<1>. HIDE DEF r, old, In
<1>8. Safe(r, K)
  BY <1>2, <1>4, <1>7 DEF Safe
<1>. QED
  BY <1>2, <1>4, <1>5, <1>6, <1>7, <1>8, SpillSafe DEF Good

LEMMA FlushDoneSafe ==
  ASSUME NEW s, Good(s), NEW heard \in BOOLEAN, NEW u \in FlushDone(s, heard), NEW K,
         Safe(s, K), heard /\ s.fl.seq # 0 => s.fl.pts \subseteq K
  PROVE  Safe(u, K) /\ u.fl.seq = 0 /\ u.sent = s.sent
<1>1. CASE s.fl.seq = 0
  BY <1>1 DEF FlushDone
<1>2. CASE s.fl.seq # 0
  <2>. DEFINE left == IF heard THEN s.fifo \ s.fl.pts ELSE s.fifo
              r == [s EXCEPT !.fl = NoMsg, !.fifo = left]
  <2>1. u \in Saved(r)
    BY <1>2 DEF FlushDone
  <2>2. /\ r.pts = s.pts /\ r.fl = NoMsg /\ r.fifo = left /\ r.owed = s.owed /\ r.sent = s.sent
    BY DEF Good, States
  <2>3. /\ u.pts = s.pts /\ u.fl = NoMsg /\ u.fifo = left /\ u.owed = s.owed /\ u.sent = s.sent
    <3>1. CASE u = r
      BY <2>2, <3>1
    <3>2. CASE u = [r EXCEPT !.disk = r.fifo]
      BY <3>2 DEF Good, States
    <3>. QED  BY <2>1, <3>1, <3>2 DEF Saved
  <2>. QED
    BY <1>2, <2>3 DEF Safe, NoMsg
<1>. QED
  BY <1>1, <1>2

\* The outcome of a watch that is about the message under way, or about a
\* message that carries its range.
LEMMA TxwFinishSafe ==
  ASSUME NEW s, Good(s), NEW w \in Watch, NEW u \in TxwFinish(s, w), NEW K, Safe(s, K),
         w.on /\ w.rep /\ w.kind = "Q" /\ s.fl.seq # 0 => s.fl.pts \subseteq K,
         w.rep /\ w.kind = "M" => \A p \in DOMAIN s.pts : w.lo <= p /\ p <= w.hi => p \in K
  PROVE  /\ Safe(u, K) /\ u.sent = s.sent
         /\ w.on /\ w.kind = "Q" => u.fl.seq = 0
         /\ ~(w.on /\ w.kind = "Q") => u.fl = s.fl
<1>0. w.lo \in Nat /\ w.hi \in Nat /\ w.on \in BOOLEAN /\ w.rep \in BOOLEAN /\ w.kind \in {"M", "Q"}
  BY CountsAssumption DEF Watch
<1>1. CASE ~w.on
  BY <1>1 DEF TxwFinish
<1>2. CASE w.on /\ w.kind = "Q"
  <2>1. u \in FlushDone(s, w.rep)
    BY <1>2 DEF TxwFinish
  <2>. QED  BY <1>0, <1>2, <2>1, FlushDoneSafe
<1>3. CASE w.on /\ w.kind = "M" /\ w.rep
  <2>1. u \in PtsHeard(s, w.lo, w.hi)
    BY <1>3 DEF TxwFinish
  <2>. QED  BY <1>0, <1>3, <2>1, PtsHeardSafe
<1>4. CASE w.on /\ w.kind = "M" /\ ~w.rep
  BY <1>4 DEF TxwFinish
<1>. QED
  BY <1>0, <1>1, <1>2, <1>3, <1>4

(***************************************************************************)
(* The inductive invariant.  What is on the air never changes, so what a   *)
(* watch or a place of the ring says of a message stays true; a watch of a *)
(* position message must also stay true of a buffer that goes on.          *)
(***************************************************************************)
\* Every point of the buffer D that lies in the range of the watch is in its
\* message.  g: the newest time, A: the air, R: what was repeated.
WatchTrue(w, g, A, R, D) ==
  /\ w.rep => w.seq \in R
  /\ w.kind = "M" =>
       /\ w.hi <= g
       /\ \E m \in A : /\ m.seq = w.seq /\ w.hi \in m.pts
                       /\ \A p \in D : w.lo <= p /\ p <= w.hi => p \in m.pts

OnAir(msg, A) == msg.seq # 0 => \E m \in A : m.seq = msg.seq /\ m.pts = msg.pts

\* The watches that wait for the outcome of a drain message.
Flushing(t) == {i \in DOMAIN t : t[i].on /\ t[i].kind = "Q"}

\* At most one watch waits for the outcome of a drain message, it waits for the
\* one under way, and there is one as long as a message is under way.
OneFlush(t, f) ==
  /\ \A i, j \in Flushing(t) : i = j
  /\ \A i \in Flushing(t) : t[i].seq = f.seq
  /\ f.seq # 0 => Flushing(t) # {}

KeepInv ==
  /\ TrackerInv
  /\ \A p \in DOMAIN pts : p <= gps
  /\ \A i \in DOMAIN txw : WatchTrue(txw[i], gps, air, repeated, DOMAIN pts)
  /\ OnAir(fl, air) /\ \A i \in DOMAIN sent : OnAir(sent[i], air)
  /\ OneFlush(txw, fl)
  /\ NothingLost

LEMMA WatchStaysTrue ==
  ASSUME NEW w \in Watch, NEW g \in Nat, NEW h \in Nat, g <= h, NEW A, NEW B, A \subseteq B,
         NEW R, NEW Q, R \subseteq Q, NEW D, NEW E \in SUBSET Times, E \subseteq D \cup {h},
         WatchTrue(w, g, A, R, D)
  PROVE  WatchTrue(w, h, B, Q, E)
<1>1. w.rep => w.seq \in Q
  BY DEF WatchTrue
<1>2. ASSUME w.kind = "M"
      PROVE  /\ w.hi <= h
             /\ \E m \in B : /\ m.seq = w.seq /\ w.hi \in m.pts
                             /\ \A p \in E : w.lo <= p /\ p <= w.hi => p \in m.pts
  <2>1. w.hi \in Nat /\ w.hi <= g
    BY <1>2, CountsAssumption DEF WatchTrue, Watch
  <2>2. PICK m \in A : /\ m.seq = w.seq /\ w.hi \in m.pts
                       /\ \A p \in D : w.lo <= p /\ p <= w.hi => p \in m.pts
    BY <1>2 DEF WatchTrue
  <2>3. ASSUME NEW p \in E, w.lo <= p, p <= w.hi
        PROVE  p \in m.pts
    <3>1. p = h => p = w.hi
      BY <2>1, <2>3
    <3>. QED  BY <2>2, <2>3, <3>1
  <2>. QED  BY <2>1, <2>2, <2>3
<1>. QED
  BY <1>1, <1>2 DEF WatchTrue

\* What WatchTrue reads of a watch.
SameWatch(v, w) ==
  v.rep = w.rep /\ v.seq = w.seq /\ v.kind = w.kind /\ v.lo = w.lo /\ v.hi = w.hi

\* What is heard or confirmed stays so.
LEMMA HeardGrows ==
  ASSUME air \subseteq air', repeated \subseteq repeated', confirmed \subseteq confirmed'
  PROVE  Heard \cup Served \subseteq (Heard \cup Served)'
BY DEF Heard, Served

\* A point in the range of a position message that was repeated is heard.
LEMMA RangeHeard ==
  ASSUME NEW w, NEW g, NEW D, WatchTrue(w, g, air, repeated, D), w.rep, w.kind = "M",
         NEW p \in D, w.lo <= p, p <= w.hi
  PROVE  p \in Heard
BY DEF WatchTrue, Heard

\* So are the points of the message under way once its watch is repeated.
LEMMA FlushHeard ==
  ASSUME KeepInv, NEW i \in DOMAIN txw, txw[i].on, txw[i].kind = "Q", txw[i].rep, fl.seq # 0
  PROVE  fl.pts \subseteq Heard
<1>1. txw[i].seq = fl.seq
  BY DEF KeepInv, OneFlush, Flushing
<1>2. fl.seq \in repeated
  BY <1>1 DEF KeepInv, WatchTrue
<1>. QED
  BY <1>2 DEF KeepInv, OnAir, Heard

\* Watches may change places: the flushing ones of u are flushing ones of t.
LEMMA SameFlush ==
  ASSUME NEW t, NEW u, NEW f, NEW h, OneFlush(t, f),
         \A k \in Flushing(u) : h[k] \in Flushing(t) /\ t[h[k]].seq = u[k].seq,
         \A k, l \in Flushing(u) : h[k] = h[l] => k = l,
         Flushing(t) # {} => Flushing(u) # {}
  PROVE  OneFlush(u, f)
BY DEF OneFlush

LEMMA NoFlush ==
  ASSUME NEW t, NEW f, Flushing(t) = {}, f.seq = 0
  PROVE  OneFlush(t, f)
BY DEF OneFlush

\* With no message under way nobody waits for one.
LEMMA NobodyWaits ==
  ASSUME KeepInv, fl.seq = 0
  PROVE  Flushing(txw) = {}
<1>. SUFFICES ASSUME NEW i \in Flushing(txw) PROVE FALSE
  OBVIOUS
<1>1. txw[i].seq = 0
  BY DEF KeepInv, OneFlush
<1>2. i \in DOMAIN txw /\ txw \in Seq(Watch)
  BY DEF Flushing, KeepInv, TrackerInv, TypeInv, TypeOK
<1>3. txw[i] \in Watch
  BY <1>2, LenProperties, ElementOfSeq
<1>. QED
  BY <1>1, <1>3, CountsAssumption DEF Watch, Seqs

\* What every step owes: the rest of the invariant follows.
LEMMA StepKeeps ==
  ASSUME KeepInv, TrackerInv', gps <= gps', air \subseteq air', repeated \subseteq repeated',
         DOMAIN pts' \subseteq DOMAIN pts \cup {gps'},
         \A k \in DOMAIN txw' :
           \/ WatchTrue(txw'[k], gps', air', repeated', DOMAIN pts')
           \/ \E j \in DOMAIN txw : SameWatch(txw'[k], txw[j]),
         fl' = fl \/ OnAir(fl', air'),
         \A i \in DOMAIN sent' : sent'[i] \in {sent[j] : j \in DOMAIN sent} \/ OnAir(sent'[i], air'),
         OneFlush(txw', fl'), NothingLost'
  PROVE  KeepInv'
<1>1. gps \in Nat /\ gps' \in Nat /\ DOMAIN pts \subseteq Times /\ DOMAIN pts' \subseteq Times
      /\ txw \in Seq(Watch)
  BY BufferType, CountsAssumption DEF KeepInv, TrackerInv, TypeInv, TypeOK
<1>2. ASSUME NEW p \in DOMAIN pts'
      PROVE  p <= gps'
  <2>1. p \in DOMAIN pts => p <= gps
    BY DEF KeepInv
  <2>. QED  BY <1>1, <2>1 DEF Times
<1>3. ASSUME NEW k \in DOMAIN txw'
      PROVE  WatchTrue(txw'[k], gps', air', repeated', DOMAIN pts')
  <2>1. CASE \E j \in DOMAIN txw : SameWatch(txw'[k], txw[j])
    <3>1. PICK j \in DOMAIN txw : SameWatch(txw'[k], txw[j])
      BY <2>1
    <3>2. txw[j] \in Watch
      BY <1>1, LenProperties, ElementOfSeq
    <3>3. WatchTrue(txw[j], gps, air, repeated, DOMAIN pts)
      BY DEF KeepInv
    <3>4. WatchTrue(txw[j], gps', air', repeated', DOMAIN pts')
      BY <1>1, <3>2, <3>3, WatchStaysTrue
    <3>. QED  BY <3>1, <3>4 DEF SameWatch, WatchTrue
  <2>. QED  BY <1>3, <2>1
<1>4. ASSUME NEW m, OnAir(m, air)
      PROVE  OnAir(m, air')
  BY <1>4 DEF OnAir
<1>5. OnAir(fl, air) /\ \A i \in DOMAIN sent : OnAir(sent[i], air)
  BY DEF KeepInv
<1>6. OnAir(fl', air') /\ \A i \in DOMAIN sent' : OnAir(sent'[i], air')
  BY <1>4, <1>5
<1>. QED
  BY <1>2, <1>3, <1>6 DEF KeepInv

(***************************************************************************)
(* The steps, one lemma each.                                              *)
(***************************************************************************)
LEMMA Becoming ==
  ASSUME NEW u, Becomes(u), Safe(u, (Heard \cup Served)')
  PROVE  NothingLost'
BY DEF Becomes, Safe, NothingLost

LEMMA StSafe ==
  ASSUME KeepInv, NEW K, Heard \cup Served \subseteq K
  PROVE  /\ Good(St) /\ Safe(St, K)
         /\ St.pts = pts /\ St.fifo = fifo /\ St.fl = fl /\ St.sent = sent /\ St.owed = owed
BY DEF KeepInv, TrackerInv, TypeInv, Safe, NothingLost, St

LEMMA OwingSafe ==
  ASSUME KeepInv, NEW ts \in Times, NEW K, Heard \cup Served \subseteq K
  PROVE  /\ Good(Owing(ts)) /\ Safe(Owing(ts), K \cup {ts})
         /\ Owing(ts).pts = pts /\ Owing(ts).fifo = fifo /\ Owing(ts).fl = fl
         /\ Owing(ts).sent = sent /\ Owing(ts).owed = owed \cup {ts}
<1>1. /\ Owing(ts).pts = pts /\ Owing(ts).fifo = fifo /\ Owing(ts).fl = fl
      /\ Owing(ts).sent = sent /\ Owing(ts).owed = owed \cup {ts}
  BY DEF Owing, St
<1>2. Good(Owing(ts))
  BY OwingGood DEF KeepInv, TrackerInv
<1>. QED
  BY <1>1, <1>2 DEF KeepInv, NothingLost, Safe

\* The places of the watch list after TxwAdd and RemoveAt.
Shift == IF Len(txw) = TxwMax THEN 1 ELSE 0

LEMMA TxwAddElements ==
  ASSUME txw \in Seq(Watch), NEW w \in Watch
  PROVE  /\ Len(txw) - Shift \in Nat /\ DOMAIN TxwAdd(w) = 1 .. Len(txw) - Shift + 1
         /\ \A k \in 1 .. Len(txw) - Shift : TxwAdd(w)[k] = txw[k + Shift]
         /\ TxwAdd(w)[Len(txw) - Shift + 1] = w
<1>0. Len(txw) \in Nat
  BY LenProperties
<1>1. CASE Len(txw) = TxwMax
  <2>1. txw # <<>>
    BY <1>1, EmptySeq, CountsAssumption
  <2>2. /\ Tail(txw) \in Seq(Watch) /\ Len(Tail(txw)) = Len(txw) - 1
        /\ \A k \in 1 .. Len(txw) - 1 : Tail(txw)[k] = txw[k + 1]
    BY <1>0, <2>1, HeadTailProperties
  <2>3. TxwAdd(w) = Append(Tail(txw), w) /\ Shift = 1 /\ Len(txw) - 1 \in Nat
    BY <1>1, CountsAssumption DEF TxwAdd, Shift
  <2>. QED  BY <2>2, <2>3, AppendProperties, LenProperties
<1>2. CASE Len(txw) # TxwMax
  <2>1. TxwAdd(w) = Append(txw, w) /\ Shift = 0
    BY <1>2 DEF TxwAdd, Shift
  <2>. QED  BY <1>0, <2>1, AppendProperties, LenProperties
<1>. QED
  BY <1>1, <1>2

LEMMA RemoveAtElements ==
  ASSUME txw \in Seq(Watch), NEW i \in DOMAIN txw
  PROVE  /\ Len(txw) \in Nat \ {0} /\ i \in 1 .. Len(txw) /\ DOMAIN txw = 1 .. Len(txw)
         /\ DOMAIN RemoveAt(txw, i) = 1 .. Len(txw) - 1 /\ Len(RemoveAt(txw, i)) = Len(txw) - 1
         /\ \A k \in 1 .. Len(txw) - 1 :
              RemoveAt(txw, i)[k] = txw[IF k < i THEN k ELSE k + 1]
<1>1. Len(txw) \in Nat \ {0} /\ i \in 1 .. Len(txw) /\ DOMAIN txw = 1 .. Len(txw)
  BY LenProperties
<1>2. \A k \in 1 .. Len(txw) : txw[k] \in Watch
  BY ElementOfSeq
<1>3. /\ SubSeq(txw, 1, i - 1) \in Seq(Watch) /\ Len(SubSeq(txw, 1, i - 1)) = i - 1
      /\ \A k \in 1 .. i - 1 : SubSeq(txw, 1, i - 1)[k] = txw[k]
  BY <1>1, <1>2, SubSeqProperties
<1>4. /\ SubSeq(txw, i + 1, Len(txw)) \in Seq(Watch)
      /\ Len(SubSeq(txw, i + 1, Len(txw))) = Len(txw) - i
      /\ \A k \in 1 .. Len(txw) - i : SubSeq(txw, i + 1, Len(txw))[k] = txw[i + k]
  BY <1>1, <1>2, SubSeqProperties
<1>. DEFINE a == SubSeq(txw, 1, i - 1)
            b == SubSeq(txw, i + 1, Len(txw))
<1>5. RemoveAt(txw, i) = a \o b
  BY DEF RemoveAt
<1>. HIDE DEF a, b
<1>6. /\ a \in Seq(Watch) /\ Len(a) = i - 1 /\ \A k \in 1 .. i - 1 : a[k] = txw[k]
      /\ b \in Seq(Watch) /\ Len(b) = Len(txw) - i
      /\ \A k \in 1 .. Len(txw) - i : b[k] = txw[i + k]
  BY <1>3, <1>4 DEF a, b
<1>7. /\ a \o b \in Seq(Watch) /\ Len(a \o b) = Len(a) + Len(b)
      /\ \A k \in 1 .. Len(a) + Len(b) :
           (a \o b)[k] = IF k <= Len(a) THEN a[k] ELSE b[k - Len(a)]
  BY <1>6, ConcatProperties
<1>8. ASSUME NEW k \in 1 .. Len(txw) - 1
      PROVE  (a \o b)[k] = txw[IF k < i THEN k ELSE k + 1]
  <2>1. CASE k < i
    BY <1>1, <1>6, <1>7, <2>1
  <2>2. CASE ~(k < i)
    <3>1. k - (i - 1) \in 1 .. Len(txw) - i /\ i + (k - (i - 1)) = k + 1
      BY <1>1, <2>2
    <3>2. (a \o b)[k] = b[k - (i - 1)]
      <4>1. k \in 1 .. Len(a) + Len(b) /\ ~(k <= Len(a)) /\ k - Len(a) = k - (i - 1)
        BY <1>1, <1>6, <2>2
      <4>. QED  BY <1>7, <4>1
    <3>. QED  BY <1>6, <2>2, <3>1, <3>2
  <2>. QED  BY <2>1, <2>2
<1>9. Len(txw) - 1 \in Nat /\ Len(a \o b) = Len(txw) - 1
  BY <1>1, <1>6, <1>7
<1>. QED
  BY <1>1, <1>5, <1>7, <1>8, <1>9, LenProperties

LEMMA DisplacedSafe ==
  ASSUME KeepInv, NEW s, Good(s), NEW u \in Displaced(s), NEW K, Safe(s, K), Heard \subseteq K,
         s.fl = fl \/ fl.seq = 0, DOMAIN s.pts \subseteq DOMAIN pts \cup {gps}
  PROVE  /\ Safe(u, K) /\ u.sent = s.sent
         /\ Shift = 1 /\ 1 \in Flushing(txw) => u.fl.seq = 0
         /\ ~(Shift = 1 /\ 1 \in Flushing(txw)) => u.fl = s.fl
<1>1. CASE Len(txw) # TxwMax
  BY <1>1 DEF Displaced, Shift
<1>2. CASE Len(txw) = TxwMax
  <2>. DEFINE w == Head(txw)
  <2>0. txw \in Seq(Watch) /\ gps \in Nat
    BY CountsAssumption DEF KeepInv, TrackerInv, TypeInv, TypeOK
  <2>1. /\ w = txw[1] /\ w \in Watch /\ 1 \in DOMAIN txw /\ Shift = 1
    BY <1>2, <2>0, HeadTailProperties, EmptySeq, LenProperties, ElementOfSeq, CountsAssumption
    DEF Shift
  <2>2. u \in TxwFinish(s, w)
    BY <1>2 DEF Displaced
  <2>3. w.on /\ w.rep /\ w.kind = "Q" /\ s.fl.seq # 0 => s.fl.pts \subseteq K
    <3>. SUFFICES ASSUME w.on, w.rep, w.kind = "Q", s.fl.seq # 0
                  PROVE  s.fl.pts \subseteq K
      OBVIOUS
    <3>1. 1 \in Flushing(txw)
      BY <2>1 DEF Flushing
    <3>2. fl.seq # 0
      BY <3>1, NobodyWaits
    <3>. QED  BY <2>1, <3>2, FlushHeard
  <2>4. w.rep /\ w.kind = "M" => \A p \in DOMAIN s.pts : w.lo <= p /\ p <= w.hi => p \in K
    <3>1. DOMAIN s.pts \subseteq Times
      BY BufferType DEF Good, States
    <3>2. WatchTrue(w, gps, air, repeated, DOMAIN pts)
      BY <2>1 DEF KeepInv
    <3>3. WatchTrue(w, gps, air, repeated, DOMAIN s.pts)
      BY <2>0, <2>1, <3>1, <3>2, WatchStaysTrue
    <3>. QED  BY <3>3, RangeHeard
  <2>5. /\ Safe(u, K) /\ u.sent = s.sent
        /\ w.on /\ w.kind = "Q" => u.fl.seq = 0
        /\ ~(w.on /\ w.kind = "Q") => u.fl = s.fl
    <3>. HIDE DEF w
    <3>. QED  BY <2>1, <2>2, <2>3, <2>4, TxwFinishSafe
  <2>6. w.on /\ w.kind = "Q" <=> 1 \in Flushing(txw)
    BY <2>1 DEF Flushing
  <2>. QED
    BY <2>1, <2>5, <2>6
<1>. QED
  BY <1>1, <1>2

LEMMA FixKeeps ==
  ASSUME KeepInv, TrackerInv', UNCHANGED confirmed, NEW keep \in BOOLEAN, Fix(keep)
  PROVE  KeepInv'
<1>. DEFINE K == (Heard \cup Served)'
<1>1. /\ gps + 1 \in Times /\ gps' = gps + 1 /\ gps \in Nat /\ DOMAIN pts \subseteq Times
      /\ UNCHANGED <<txw, air, repeated, sentI>>
  BY BufferType, CountsAssumption DEF Fix, KeepInv, TrackerInv, TypeInv, TypeOK, Times
<1>2. Heard \cup Served \subseteq K
  BY <1>1, HeardGrows
<1>3. PICK s \in IF keep THEN PtsPush(Owing(gps + 1), gps + 1, FALSE) ELSE {St} : Becomes(s)
  BY DEF Fix
<1>. HIDE DEF K
<1>4. /\ Safe(s, K) /\ s.fl = fl /\ s.sent = sent
      /\ DOMAIN s.pts \subseteq DOMAIN pts \cup {gps'}
  <2>1. CASE keep
    <3>1. \A p \in DOMAIN pts : p <= gps + 1
      BY <1>1 DEF KeepInv, Times
    <3>2. s \in PtsPush(Owing(gps + 1), gps + 1, FALSE)
      BY <1>3, <2>1
    <3>3. /\ Good(Owing(gps + 1)) /\ Safe(Owing(gps + 1), K \cup {gps + 1})
          /\ Owing(gps + 1).pts = pts /\ Owing(gps + 1).fl = fl /\ Owing(gps + 1).sent = sent
      BY <1>1, <1>2, OwingSafe
    <3>4. Safe(s, K) /\ s.fl = fl /\ s.sent = sent
      BY <1>1, <3>1, <3>2, <3>3, PtsPushSafe
    <3>5. DOMAIN s.pts \subseteq DOMAIN pts \cup {gps + 1}
      BY <1>1, <3>2, <3>3, PtsPushGood
    <3>. QED  BY <1>1, <3>4, <3>5
  <2>2. CASE ~keep
    <3>1. s = St
      BY <1>3, <2>2
    <3>2. Safe(St, K) /\ St.fl = fl /\ St.sent = sent /\ St.pts = pts
      BY <1>2, StSafe
    <3>. QED  BY <3>1, <3>2
  <2>. QED  BY <2>1, <2>2
<1>5. NothingLost'
  BY <1>3, <1>4, Becoming DEF K
<1>6. fl' = fl /\ sent' = sent /\ pts' = s.pts
  BY <1>3, <1>4 DEF Becomes
<1>. QED
  BY <1>1, <1>4, <1>5, <1>6, StepKeeps DEF KeepInv, SameWatch

LEMMA SlowTakeKeeps ==
  ASSUME KeepInv, TrackerInv', UNCHANGED confirmed, SlowTake
  PROVE  KeepInv'
<1>. DEFINE K == (Heard \cup Served)'
<1>1. gps \in Times /\ UNCHANGED <<gps, txw, air, repeated>> /\ gps <= gps'
  BY CountsAssumption DEF SlowTake, KeepInv, TrackerInv, TypeInv, TypeOK, Times
<1>2. Heard \cup Served \subseteq K
  BY <1>1, HeardGrows
<1>3. PICK s \in FifoAdd(Owing(gps), {gps}) : Becomes(s)
  BY DEF SlowTake
<1>. HIDE DEF K
<1>4. Safe(s, K) /\ s.fl = fl /\ s.sent = sent /\ s.pts = pts
  <2>1. Owing(gps).owed \subseteq DOMAIN Owing(gps).pts \cup Owing(gps).fifo \cup {gps} \cup K
    <3>1. Safe(Owing(gps), K \cup {gps})
      BY <1>1, <1>2, OwingSafe
    <3>. QED  BY <3>1 DEF Safe
  <2>2. /\ Good(Owing(gps)) /\ Owing(gps).pts = pts
        /\ Owing(gps).fl = fl /\ Owing(gps).sent = sent
    BY <1>1, <1>2, OwingSafe
  <2>3. Safe(s, K) /\ s.fl = Owing(gps).fl /\ s.sent = Owing(gps).sent
    BY <1>1, <1>3, <2>1, <2>2, FifoAddSafe
  <2>4. s.pts = Owing(gps).pts
    BY <1>1, <1>3, <2>2, FifoAddGood
  <2>. QED  BY <2>2, <2>3, <2>4
<1>5. NothingLost'
  BY <1>3, <1>4, Becoming DEF K
<1>6. fl' = fl /\ sent' = sent /\ pts' = pts
  BY <1>3, <1>4 DEF Becomes
<1>. QED
  BY <1>1, <1>5, <1>6, StepKeeps DEF KeepInv, SameWatch

LEMMA SendReportFailsKeeps ==
  ASSUME KeepInv, TrackerInv', UNCHANGED confirmed, SendReportFails
  PROVE  KeepInv'
<1>. DEFINE K == (Heard \cup Served)'
<1>1. gps \in Times /\ UNCHANGED <<gps, txw, air, repeated>> /\ gps <= gps'
  BY CountsAssumption DEF SendReportFails, KeepInv, TrackerInv, TypeInv, TypeOK, Times
<1>2. Heard \cup Served \subseteq K
  BY <1>1, HeardGrows
<1>3. PICK s \in PtsPush(Owing(gps), gps, TRUE) : Becomes(s)
  BY DEF SendReportFails
<1>. HIDE DEF K
<1>4. /\ Safe(s, K) /\ s.fl = fl /\ s.sent = sent
      /\ DOMAIN s.pts \subseteq DOMAIN pts \cup {gps}
  <2>1. \A p \in DOMAIN pts : p <= gps
    BY DEF KeepInv
  <2>2. /\ Good(Owing(gps)) /\ Safe(Owing(gps), K \cup {gps})
        /\ Owing(gps).pts = pts /\ Owing(gps).fl = fl /\ Owing(gps).sent = sent
    BY <1>1, <1>2, OwingSafe
  <2>3. Safe(s, K) /\ s.fl = Owing(gps).fl /\ s.sent = Owing(gps).sent
    BY <1>1, <1>3, <2>1, <2>2, PtsPushSafe
  <2>4. DOMAIN s.pts \subseteq DOMAIN pts \cup {gps}
    BY <1>1, <1>3, <2>2, PtsPushGood
  <2>. QED  BY <2>2, <2>3, <2>4
<1>5. NothingLost'
  BY <1>3, <1>4, Becoming DEF K
<1>6. fl' = fl /\ sent' = sent /\ pts' = s.pts
  BY <1>3, <1>4 DEF Becomes
<1>. QED
  BY <1>1, <1>4, <1>5, <1>6, StepKeeps DEF KeepInv, SameWatch

LEMMA AgeOutKeeps ==
  ASSUME KeepInv, TrackerInv', UNCHANGED confirmed, NEW cut \in Times, AgeOut(cut)
  PROVE  KeepInv'
<1>. DEFINE K == (Heard \cup Served)'
            old == {p \in DOMAIN pts : p <= cut /\ (pts[p] \/ ~Hoofd)}
<1>1. UNCHANGED <<gps, txw, air, repeated>> /\ gps <= gps'
  BY CountsAssumption DEF AgeOut, KeepInv, TrackerInv, TypeInv, TypeOK
<1>2. Heard \cup Served \subseteq K
  BY <1>1, HeardGrows
<1>3. PICK s \in Spill(St, old) : Becomes(s)
  BY DEF AgeOut
<1>4. old \subseteq DOMAIN pts
  OBVIOUS
<1>. HIDE DEF K, old
<1>5. /\ Safe(s, K) /\ s.fl = fl /\ s.sent = sent
      /\ DOMAIN s.pts \subseteq DOMAIN pts
  <2>1. /\ Good(St) /\ Safe(St, K) /\ St.pts = pts /\ St.fl = fl /\ St.sent = sent
        /\ pts \in Buffers
    BY <1>2, StSafe DEF KeepInv, TrackerInv, TypeInv, TypeOK
  <2>0. old \in SUBSET DOMAIN St.pts
    BY <1>4, <2>1
  <2>2. Safe(s, K) /\ s.fl = St.fl /\ s.sent = St.sent
    BY <1>3, <2>0, <2>1, SpillSafe
  <2>3. s.pts = Without(pts, old)
    BY <1>3, <2>0, <2>1, SpillGood
  <2>4. DOMAIN Without(pts, old) = DOMAIN pts \ old
    <3>1. pts \in Buffers
      BY <2>1
    <3>. QED  BY <3>1, WithoutType
  <2>. QED  BY <2>1, <2>2, <2>3, <2>4
<1>6. NothingLost'
  BY <1>3, <1>5, Becoming DEF K
<1>7. fl' = fl /\ sent' = sent /\ pts' = s.pts
  BY <1>3, <1>5 DEF Becomes
<1>. QED
  BY <1>1, <1>5, <1>6, <1>7, StepKeeps DEF KeepInv, SameWatch

LEMMA FifoSaveKeeps ==
  ASSUME KeepInv, TrackerInv', UNCHANGED confirmed, FifoSave
  PROVE  KeepInv'
<1>1. UNCHANGED <<gps, pts, fifo, fl, sent, txw, air, repeated, owed>>
  BY DEF FifoSave
<1>2. NothingLost'
  BY <1>1 DEF KeepInv, NothingLost, Heard, Served
<1>. QED
  BY <1>1, <1>2 DEF KeepInv

LEMMA SendReportKeeps ==
  ASSUME KeepInv, TrackerInv', UNCHANGED confirmed, NEW k \in 0 .. ExtraMax, SendReport(k)
  PROVE  KeepInv'
<1>. DEFINE K == (Heard \cup Served)'
            earlier == {p \in DOMAIN pts : p < gps}
            carried == NewestOf(earlier, k) \cup {gps}
            w == [seq |-> seq + 1, kind |-> "M", lo |-> Min(carried), hi |-> gps,
                  sent |-> FALSE, rep |-> FALSE, on |-> TRUE]
            m == [seq |-> seq + 1, kind |-> "M", pts |-> carried]
<1>1. /\ gps \in Times /\ gps \in 0 .. MaxTs /\ UNCHANGED <<gps, repeated>> /\ gps <= gps'
      /\ DOMAIN pts \subseteq Times /\ txw \in Seq(Watch) /\ seq + 1 \in Seqs
  <2>1. TypeInv /\ gps > 0 /\ UNCHANGED <<gps, repeated>> /\ seq < MaxSeq
    BY DEF SendReport, KeepInv, TrackerInv
  <2>2. seq + 1 \in Seqs
    BY <2>1, NextSeq
  <2>. QED  BY <2>1, <2>2, BufferType, CountsAssumption DEF TypeInv, TypeOK, Times
<1>2. txw' = TxwAdd(w) /\ air' = air \cup {m}
  BY DEF SendReport
<1>3. Heard \cup Served \subseteq K
  BY <1>1, <1>2, HeardGrows
<1>4. PICK s \in PtsPush(Owing(gps), gps, TRUE) : \E u \in Displaced(s) : Becomes(u)
  BY DEF SendReport
<1>5. PICK u \in Displaced(s) : Becomes(u)
  BY <1>4
<1>6. carried \subseteq Times /\ carried # {} /\ gps \in carried
  BY <1>1 DEF NewestOf
<1>7. Min(carried) \in carried /\ Min(carried) \in 0 .. MaxTs
  <2>1. Min(carried) \in carried
    BY <1>6, MinTime
  <2>. QED  BY <1>6, <2>1, CountsAssumption DEF Times
\* The buffered points that a message carries are the newest ones, so all those
\* that lie in its range.
<1>8. ASSUME NEW p \in DOMAIN pts \cup {gps}, Min(carried) <= p
      PROVE  p \in carried
  <2>1. p <= gps /\ p \in Times
    BY <1>1 DEF KeepInv, Times
  <2>2. CASE p = gps
    BY <1>6, <2>2
  <2>3. CASE p # gps
    <3>. DEFINE newer(q) == {r \in earlier : r > q}
    <3>1. p \in earlier
      BY <1>1, <2>1, <2>3 DEF Times
    <3>2. Min(carried) # gps
      BY <1>1, <1>8, <2>1, <2>3 DEF Times
    <3>3. Min(carried) \in NewestOf(earlier, k)
      BY <1>7, <3>2
    <3>4. Min(carried) \in Times /\ Cardinality(newer(Min(carried))) < k
      BY <1>6, <1>7, <3>3 DEF NewestOf
    <3>. HIDE DEF carried
    <3>5. newer(p) \subseteq newer(Min(carried)) /\ newer(Min(carried)) \in SUBSET Times
      BY <1>1, <1>8, <2>1, <3>4 DEF Times
    <3>6. newer(p) \in SUBSET Times
      BY <3>5
    <3>7. /\ Cardinality(newer(p)) <= Cardinality(newer(Min(carried)))
          /\ Cardinality(newer(p)) \in Nat /\ Cardinality(newer(Min(carried))) \in Nat
      <4>. HIDE DEF newer
      <4>. QED  BY <3>5, <3>6, SmallerSet, TimesFinite
    <3>8. Cardinality(newer(p)) < k
      BY <3>4, <3>7
    <3>9. p \in NewestOf(earlier, k)
      BY <3>1, <3>8 DEF NewestOf
    <3>. QED  BY <3>9 DEF carried
  <2>. QED  BY <2>2, <2>3
<1>. HIDE DEF K, carried
<1>9. w \in Watch
  BY <1>1, <1>7 DEF Watch
<1>10. /\ Safe(s, K) /\ s.fl = fl /\ s.sent = sent /\ Good(s)
       /\ DOMAIN s.pts \subseteq DOMAIN pts \cup {gps}
  <2>1. \A p \in DOMAIN pts : p <= gps
    BY DEF KeepInv
  <2>2. /\ Good(Owing(gps)) /\ Safe(Owing(gps), K \cup {gps})
        /\ Owing(gps).pts = pts /\ Owing(gps).fl = fl /\ Owing(gps).sent = sent
    BY <1>1, <1>3, OwingSafe
  <2>3. Safe(s, K) /\ s.fl = Owing(gps).fl /\ s.sent = Owing(gps).sent
    BY <1>1, <1>4, <2>1, <2>2, PtsPushSafe
  <2>4. Good(s) /\ DOMAIN s.pts \subseteq DOMAIN pts \cup {gps}
    BY <1>1, <1>4, <2>2, PtsPushGood
  <2>. QED  BY <2>2, <2>3, <2>4
<1>11. Heard \subseteq K
  BY <1>3
<1>12. /\ Safe(u, K) /\ u.sent = s.sent
       /\ Shift = 1 /\ 1 \in Flushing(txw) => u.fl.seq = 0
       /\ ~(Shift = 1 /\ 1 \in Flushing(txw)) => u.fl = s.fl
  BY <1>5, <1>10, <1>11, DisplacedSafe
<1>13. DOMAIN u.pts \subseteq DOMAIN pts \cup {gps}
  BY <1>1, <1>5, <1>10, DisplacedGood
<1>14. pts' = u.pts /\ fl' = u.fl /\ sent' = sent
  BY <1>5, <1>10, <1>12 DEF Becomes
<1>15. NothingLost'
  BY <1>5, <1>12, Becoming DEF K
<1>. DEFINE n == Len(txw) - Shift
<1>16. /\ n \in Nat /\ DOMAIN txw' = 1 .. n + 1
       /\ \A j \in 1 .. n : txw'[j] = txw[j + Shift] /\ j + Shift \in DOMAIN txw
       /\ txw'[n + 1] = w
  <2>1. /\ n \in Nat /\ DOMAIN TxwAdd(w) = 1 .. n + 1
        /\ \A j \in 1 .. n : TxwAdd(w)[j] = txw[j + Shift]
        /\ TxwAdd(w)[n + 1] = w
    <3>. HIDE DEF w
    <3>. QED  BY <1>1, <1>9, TxwAddElements
  <2>2. \A j \in 1 .. n : j + Shift \in DOMAIN txw
    BY <1>1, LenProperties DEF Shift
  <2>. QED  BY <1>2, <2>1, <2>2
<1>17. WatchTrue(w, gps', air', repeated', DOMAIN pts')
  <2>1. \A p \in DOMAIN pts' : Min(carried) <= p /\ p <= gps => p \in carried
    BY <1>8, <1>13, <1>14
  <2>2. m \in air' /\ m.seq = w.seq /\ gps \in m.pts /\ m.pts = carried
    BY <1>2, <1>6
  <2>. QED  BY <1>1, <2>1, <2>2 DEF WatchTrue
<1>18. w.kind = "M"
  OBVIOUS
<1>. HIDE DEF w, m
<1>19. \A j \in DOMAIN txw' :
         \/ WatchTrue(txw'[j], gps', air', repeated', DOMAIN pts')
         \/ \E i \in DOMAIN txw : SameWatch(txw'[j], txw[i])
  <2>. TAKE j \in DOMAIN txw'
  <2>1. CASE j = n + 1
    BY <1>16, <1>17, <2>1
  <2>2. CASE j # n + 1
    <3>1. j \in 1 .. n
      BY <1>16, <2>2
    <3>. QED  BY <1>16, <3>1 DEF SameWatch
  <2>. QED  BY <2>1, <2>2
<1>20. \A j \in Flushing(txw') : j \in 1 .. n /\ j + Shift \in Flushing(txw)
                                 /\ txw[j + Shift].seq = txw'[j].seq
  <2>. TAKE j \in Flushing(txw')
  <2>1. j \in 1 .. n + 1 /\ j # n + 1
    BY <1>16, <1>18 DEF Flushing
  <2>2. j \in 1 .. n
    BY <1>16, <2>1
  <2>. QED  BY <1>16, <2>2 DEF Flushing
<1>21. OneFlush(txw', fl')
  <2>0. OneFlush(txw, fl) /\ Shift \in {0, 1}
    BY DEF KeepInv, Shift
  <2>1. CASE Shift = 1 /\ 1 \in Flushing(txw)
    <3>1. ASSUME NEW j \in Flushing(txw')
          PROVE  FALSE
      <4>1. j + 1 = 1 /\ j \in 1 .. n
        BY <1>20, <2>0, <2>1 DEF OneFlush
      <4>. QED  BY <4>1
    <3>. QED  BY <1>12, <1>14, <2>1, <3>1, NoFlush
  <2>2. CASE ~(Shift = 1 /\ 1 \in Flushing(txw))
    <3>. DEFINE h == [j \in 1 .. n |-> j + Shift]
    <3>1. fl' = fl
      BY <1>10, <1>12, <1>14, <2>2
    <3>2. ASSUME NEW i \in Flushing(txw)
          PROVE  i - Shift \in Flushing(txw')
      <4>1. i \in 1 .. Len(txw)
        BY <1>1, LenProperties DEF Flushing
      <4>2. i - Shift \in 1 .. n /\ (i - Shift) + Shift = i
        BY <1>1, <2>0, <2>2, <4>1, LenProperties
      <4>. QED  BY <1>16, <4>2 DEF Flushing
    <3>3. \A j \in Flushing(txw') : h[j] \in Flushing(txw) /\ txw[h[j]].seq = txw'[j].seq
      BY <1>20
    <3>4. \A j, l \in Flushing(txw') : h[j] = h[l] => j = l
      BY <1>20, <2>0
    <3>5. Flushing(txw) # {} => Flushing(txw') # {}
      BY <3>2
    <3>. HIDE DEF h
    <3>. QED  BY <2>0, <3>1, <3>3, <3>4, <3>5, SameFlush
  <2>. QED  BY <2>1, <2>2
<1>22. fl' = fl \/ OnAir(fl', air')
  BY <1>10, <1>12, <1>14 DEF OnAir
<1>. QED
  BY <1>1, <1>2, <1>13, <1>14, <1>15, <1>19, <1>21, <1>22, StepKeeps DEF KeepInv

LEMMA SendFlushKeeps ==
  ASSUME KeepInv, TrackerInv', UNCHANGED confirmed, NEW S \in SUBSET fifo, SendFlush(S)
  PROVE  KeepInv'
<1>. DEFINE K == (Heard \cup Served)'
            w == [seq |-> seq + 1, kind |-> "Q", lo |-> 0, hi |-> 0,
                  sent |-> FALSE, rep |-> FALSE, on |-> TRUE]
            m == [seq |-> seq + 1, kind |-> "Q", pts |-> S]
            e == [seq |-> seq + 1, pts |-> S]
<1>1. TypeInv /\ fl.seq = 0 /\ seq < MaxSeq /\ UNCHANGED <<gps, repeated>>
      /\ txw' = TxwAdd(w) /\ air' = air \cup {m}
  BY DEF SendFlush, KeepInv, TrackerInv
<1>2. seq + 1 \in Seqs /\ gps <= gps' /\ txw \in Seq(Watch) /\ sent \in [0 .. SentMax - 1 -> SentMsg]
  BY <1>1, NextSeq, CountsAssumption DEF TypeInv, TypeOK
<1>3. Heard \cup Served \subseteq K /\ Heard \subseteq K
  <2>1. Heard \cup Served \subseteq K
    BY <1>1, HeardGrows
  <2>. QED  BY <2>1
<1>4. PICK u \in Displaced(FlushOut(S)) : Becomes([u EXCEPT !.sent[sentI] = e])
  BY DEF SendFlush
<1>. HIDE DEF K
<1>5. /\ FlushOut(S).pts = pts /\ FlushOut(S).fifo = fifo /\ FlushOut(S).owed = owed
      /\ FlushOut(S).fl = e /\ FlushOut(S).sent = sent
  BY DEF FlushOut, St
<1>6. Good(FlushOut(S)) /\ Safe(FlushOut(S), K)
  <2>1. Good(FlushOut(S))
    BY <1>1, FlushOutGood
  <2>. QED  BY <1>3, <1>5, <2>1 DEF Safe, KeepInv, NothingLost
<1>7. Flushing(txw) = {}
  BY <1>1, NobodyWaits
<1>8. Safe(u, K) /\ u.sent = sent /\ u.fl = e
  <2>1. /\ Safe(u, K) /\ u.sent = FlushOut(S).sent
        /\ ~(Shift = 1 /\ 1 \in Flushing(txw)) => u.fl = FlushOut(S).fl
    <3>1. FlushOut(S).fl = fl \/ fl.seq = 0
      BY <1>1
    <3>2. DOMAIN FlushOut(S).pts \subseteq DOMAIN pts \cup {gps}
      BY <1>5
    <3>. QED  BY <1>3, <1>4, <1>6, <3>1, <3>2, DisplacedSafe
  <2>. QED  BY <1>5, <1>7, <2>1
<1>9. DOMAIN u.pts \subseteq DOMAIN pts /\ Good(u)
  BY <1>2, <1>4, <1>5, <1>6, DisplacedGood
<1>10. /\ pts' = u.pts /\ fifo' = u.fifo /\ owed' = u.owed /\ fl' = e
       /\ sent' = [sent EXCEPT ![sentI] = e]
  <2>. HIDE DEF e
  <2>1. u \in States
    BY <1>9 DEF Good
  <2>. QED  BY <1>4, <1>8, <2>1 DEF Becomes, States
<1>11. NothingLost'
  BY <1>8, <1>10 DEF Safe, NothingLost, K
<1>12. OnAir(fl', air')
  <2>1. m \in air' /\ m.seq = e.seq /\ m.pts = e.pts
    BY <1>1
  <2>. HIDE DEF m, e
  <2>. QED  BY <1>10, <2>1 DEF OnAir
<1>13. \A i \in DOMAIN sent' : sent'[i] \in {sent[j] : j \in DOMAIN sent} \/ OnAir(sent'[i], air')
  <2>. TAKE i \in DOMAIN sent'
  <2>1. i \in DOMAIN sent /\ (sent'[i] = sent[i] \/ sent'[i] = fl')
    <3>. HIDE DEF e
    <3>. QED  BY <1>2, <1>10
  <2>. QED  BY <1>12, <2>1
<1>14. w \in Watch
  BY <1>2, CountsAssumption DEF Watch
<1>. DEFINE n == Len(txw) - Shift
<1>15. /\ n \in Nat /\ DOMAIN txw' = 1 .. n + 1
       /\ \A j \in 1 .. n : txw'[j] = txw[j + Shift] /\ j + Shift \in DOMAIN txw
       /\ txw'[n + 1] = w
  <2>1. /\ n \in Nat /\ DOMAIN TxwAdd(w) = 1 .. n + 1
        /\ \A j \in 1 .. n : TxwAdd(w)[j] = txw[j + Shift]
        /\ TxwAdd(w)[n + 1] = w
    <3>. HIDE DEF w
    <3>. QED  BY <1>2, <1>14, TxwAddElements
  <2>2. \A j \in 1 .. n : j + Shift \in DOMAIN txw
    BY <1>2, LenProperties DEF Shift
  <2>. QED  BY <1>1, <2>1, <2>2
<1>16. WatchTrue(w, gps', air', repeated', DOMAIN pts') /\ w.seq = fl'.seq /\ w.on /\ w.kind = "Q"
  BY <1>10 DEF WatchTrue
<1>. HIDE DEF w, m, e
<1>17. \A j \in DOMAIN txw' :
         \/ WatchTrue(txw'[j], gps', air', repeated', DOMAIN pts')
         \/ \E i \in DOMAIN txw : SameWatch(txw'[j], txw[i])
  <2>. TAKE j \in DOMAIN txw'
  <2>1. CASE j = n + 1
    BY <1>15, <1>16, <2>1
  <2>2. CASE j # n + 1
    <3>1. j \in 1 .. n
      BY <1>15, <2>2
    <3>. QED  BY <1>15, <3>1 DEF SameWatch
  <2>. QED  BY <2>1, <2>2
<1>18. Flushing(txw') = {n + 1}
  <2>1. n + 1 \in Flushing(txw')
    BY <1>15, <1>16 DEF Flushing
  <2>2. ASSUME NEW j \in Flushing(txw'), j # n + 1
        PROVE  FALSE
    <3>1. j \in 1 .. n
      BY <1>15, <2>2 DEF Flushing
    <3>. QED  BY <1>7, <1>15, <2>2, <3>1 DEF Flushing
  <2>. QED  BY <2>1, <2>2
<1>19. OneFlush(txw', fl')
  BY <1>15, <1>16, <1>18 DEF OneFlush
<1>20. DOMAIN pts' \subseteq DOMAIN pts \cup {gps'}
  BY <1>9, <1>10
<1>. QED
  BY <1>1, <1>2, <1>11, <1>12, <1>13, <1>17, <1>19, <1>20, StepKeeps

LEMMA SendFlushFailsKeeps ==
  ASSUME KeepInv, TrackerInv', UNCHANGED confirmed, NEW S \in SUBSET fifo, SendFlushFails(S)
  PROVE  KeepInv'
<1>. DEFINE K == (Heard \cup Served)'
<1>1. TypeInv /\ fl.seq = 0 /\ seq < MaxSeq /\ UNCHANGED <<gps, txw, air, repeated>>
  BY DEF SendFlushFails, KeepInv, TrackerInv
<1>2. gps <= gps'
  BY <1>1, CountsAssumption DEF TypeInv, TypeOK
<1>3. Heard \cup Served \subseteq K
  BY <1>1, HeardGrows
<1>4. PICK u \in FlushDone(FlushOut(S), FALSE) : Becomes(u)
  BY DEF SendFlushFails
<1>. HIDE DEF K
<1>5. /\ FlushOut(S).pts = pts /\ FlushOut(S).fifo = fifo /\ FlushOut(S).owed = owed
      /\ FlushOut(S).sent = sent
  BY DEF FlushOut, St
<1>6. Good(FlushOut(S)) /\ Safe(FlushOut(S), K)
  <2>1. Good(FlushOut(S))
    BY <1>1, FlushOutGood
  <2>. QED  BY <1>3, <1>5, <2>1 DEF Safe, KeepInv, NothingLost
<1>7. Safe(u, K) /\ u.fl.seq = 0 /\ u.sent = FlushOut(S).sent
  BY <1>4, <1>6, FlushDoneSafe
<1>8. u.pts = FlushOut(S).pts
  BY <1>4, <1>6, FlushDoneGood
<1>9. NothingLost'
  BY <1>4, <1>7, Becoming DEF K
<1>10. pts' = pts /\ fl'.seq = 0 /\ sent' = sent
  BY <1>4, <1>5, <1>7, <1>8 DEF Becomes
<1>11. OneFlush(txw', fl')
  BY <1>1, <1>10, NobodyWaits, NoFlush
<1>. QED
  BY <1>1, <1>2, <1>9, <1>10, <1>11, StepKeeps DEF SameWatch, OnAir

\* Taking a watch from the list.
LEMMA RemoveFlush ==
  ASSUME KeepInv, NEW i \in DOMAIN txw
  PROVE  /\ i \notin Flushing(txw) => OneFlush(RemoveAt(txw, i), fl)
         /\ i \in Flushing(txw) => Flushing(RemoveAt(txw, i)) = {}
         /\ \A k \in DOMAIN RemoveAt(txw, i) : \E j \in DOMAIN txw : RemoveAt(txw, i)[k] = txw[j]
<1>. DEFINE r == RemoveAt(txw, i)
            h == [k \in 1 .. Len(txw) - 1 |-> IF k < i THEN k ELSE k + 1]
<1>1. txw \in Seq(Watch) /\ OneFlush(txw, fl)
  BY DEF KeepInv, TrackerInv, TypeInv, TypeOK
<1>2. /\ Len(txw) \in Nat \ {0} /\ i \in 1 .. Len(txw) /\ DOMAIN txw = 1 .. Len(txw)
      /\ DOMAIN r = 1 .. Len(txw) - 1
      /\ \A k \in 1 .. Len(txw) - 1 : r[k] = txw[IF k < i THEN k ELSE k + 1]
  BY <1>1, RemoveAtElements
<1>. HIDE DEF r
<1>3. \A k \in DOMAIN r : h[k] \in DOMAIN txw /\ h[k] # i /\ r[k] = txw[h[k]]
  BY <1>2
<1>4. \A k, l \in DOMAIN r : h[k] = h[l] => k = l
  BY <1>2
<1>5. ASSUME NEW j \in DOMAIN txw, j # i
      PROVE  \E k \in DOMAIN r : h[k] = j
  <2>1. CASE j < i
    <3>1. j \in DOMAIN r /\ h[j] = j
      BY <1>2, <2>1
    <3>. QED  BY <3>1
  <2>2. CASE ~(j < i)
    <3>1. j - 1 \in DOMAIN r /\ h[j - 1] = j
      BY <1>2, <1>5, <2>2
    <3>. QED  BY <3>1
  <2>. QED  BY <2>1, <2>2
<1>. HIDE DEF h
<1>6. ASSUME i \notin Flushing(txw)
      PROVE  OneFlush(r, fl)
  <2>1. \A k \in Flushing(r) : h[k] \in Flushing(txw) /\ txw[h[k]].seq = r[k].seq
    BY <1>3 DEF Flushing
  <2>2. \A k, l \in Flushing(r) : h[k] = h[l] => k = l
    BY <1>4 DEF Flushing
  <2>3. Flushing(txw) # {} => Flushing(r) # {}
    BY <1>3, <1>5, <1>6 DEF Flushing
  <2>. QED  BY <1>1, <2>1, <2>2, <2>3, SameFlush
<1>7. ASSUME i \in Flushing(txw)
      PROVE  Flushing(r) = {}
  BY <1>1, <1>3, <1>7 DEF Flushing, OneFlush
<1>. QED
  BY <1>3, <1>6, <1>7 DEF r

LEMMA FinishSafe ==
  ASSUME KeepInv, NEW i \in DOMAIN txw, NEW u \in TxwFinish(St, txw[i]), NEW K,
         Heard \cup Served \subseteq K
  PROVE  /\ Safe(u, K) /\ u.sent = sent /\ DOMAIN u.pts \subseteq DOMAIN pts
         /\ i \in Flushing(txw) => u.fl.seq = 0
         /\ i \notin Flushing(txw) => u.fl = fl
<1>. DEFINE w == txw[i]
<1>1. w \in Watch
  BY LenProperties, ElementOfSeq DEF KeepInv, TrackerInv, TypeInv, TypeOK
<1>2. Good(St) /\ Safe(St, K) /\ St.pts = pts /\ St.fl = fl /\ St.sent = sent
  BY StSafe
<1>3. w.on /\ w.rep /\ w.kind = "Q" /\ St.fl.seq # 0 => St.fl.pts \subseteq K
  BY <1>2, FlushHeard
<1>4. w.rep /\ w.kind = "M" => \A p \in DOMAIN St.pts : w.lo <= p /\ p <= w.hi => p \in K
  <2>1. WatchTrue(w, gps, air, repeated, DOMAIN pts)
    BY DEF KeepInv
  <2>. QED  BY <1>2, <2>1, RangeHeard
<1>5. w.on /\ w.kind = "Q" <=> i \in Flushing(txw)
  BY DEF Flushing
<1>. HIDE DEF w
<1>6. u \in TxwFinish(St, w)
  BY DEF w
<1>7. /\ Safe(u, K) /\ u.sent = St.sent
      /\ w.on /\ w.kind = "Q" => u.fl.seq = 0
      /\ ~(w.on /\ w.kind = "Q") => u.fl = St.fl
  BY <1>1, <1>2, <1>3, <1>4, <1>6, TxwFinishSafe
<1>8. DOMAIN u.pts \subseteq DOMAIN St.pts
  BY <1>1, <1>2, <1>6, TxwFinishGood
<1>. QED
  BY <1>2, <1>5, <1>7, <1>8

LEMMA TxPacketKeeps ==
  ASSUME KeepInv, TrackerInv', UNCHANGED confirmed, NEW i \in DOMAIN txw, TxPacket(i)
  PROVE  KeepInv'
<1>. DEFINE r == RemoveAt(txw, i)
            v == [txw[i] EXCEPT !.sent = TRUE]
<1>1. /\ txw \in Seq(Watch) /\ OneFlush(txw, fl) /\ gps <= gps'
      /\ UNCHANGED <<gps, pts, fifo, fl, sent, air, repeated, owed>>
  BY CountsAssumption DEF TxPacket, KeepInv, TrackerInv, TypeInv, TypeOK
<1>2. txw[i] \in Watch
  BY <1>1, LenProperties, ElementOfSeq
<1>3. v \in Watch /\ SameWatch(v, txw[i]) /\ v.on = txw[i].on
  BY <1>2 DEF Watch, SameWatch
<1>4. NothingLost'
  BY <1>1 DEF KeepInv, NothingLost, Heard, Served
<1>5. txw' = IF txw[i].on THEN Append(r, v) ELSE r
  BY DEF TxPacket
<1>6. /\ Len(txw) \in Nat \ {0} /\ i \in 1 .. Len(txw) /\ DOMAIN txw = 1 .. Len(txw)
      /\ DOMAIN r = 1 .. Len(txw) - 1 /\ Len(r) = Len(txw) - 1
      /\ \A k \in 1 .. Len(txw) - 1 : r[k] = txw[IF k < i THEN k ELSE k + 1]
  BY <1>1, RemoveAtElements
<1>7. r \in Seq(Watch)
  BY <1>1, RemoveAtType
<1>8. CASE txw[i].on
  <2>. DEFINE h == [k \in 1 .. Len(txw) |-> IF k = Len(txw) THEN i ELSE IF k < i THEN k ELSE k + 1]
  <2>. HIDE DEF r, v
  <2>1. /\ DOMAIN txw' = 1 .. Len(txw) /\ txw'[Len(txw)] = v
        /\ \A k \in 1 .. Len(txw) - 1 : txw'[k] = r[k]
    <3>1. txw' = Append(r, v)
      BY <1>5, <1>8
    <3>2. /\ Append(r, v) \in Seq(Watch) /\ Len(Append(r, v)) = Len(r) + 1
          /\ \A k \in 1 .. Len(r) : Append(r, v)[k] = r[k]
          /\ Append(r, v)[Len(r) + 1] = v
      BY <1>3, <1>7, AppendProperties
    <3>3. Len(r) + 1 = Len(txw)
      BY <1>6
    <3>. QED  BY <1>6, <3>1, <3>2, <3>3, LenProperties
  <2>2. \A k \in DOMAIN txw' : h[k] \in DOMAIN txw /\ SameWatch(txw'[k], txw[h[k]])
                               /\ txw'[k].on = txw[h[k]].on
    <3>. TAKE k \in DOMAIN txw'
    <3>1. CASE k = Len(txw)
      BY <1>3, <1>6, <2>1, <3>1
    <3>2. CASE k # Len(txw)
      <4>1. k \in 1 .. Len(txw) - 1 /\ h[k] \in DOMAIN txw /\ txw'[k] = txw[h[k]]
        BY <1>6, <2>1, <3>2
      <4>. QED  BY <4>1 DEF SameWatch
    <3>. QED  BY <3>1, <3>2
  <2>3. \A k, l \in DOMAIN txw' : h[k] = h[l] => k = l
    BY <1>6, <2>1
  <2>4. ASSUME NEW j \in DOMAIN txw
        PROVE  \E k \in DOMAIN txw' : h[k] = j
    <3>0. j \in 1 .. Len(txw) /\ i \in 1 .. Len(txw) /\ Len(txw) \in Nat \ {0}
      BY <1>6
    <3>1. CASE j = i
      <4>1. Len(txw) \in 1 .. Len(txw)
        BY <3>0
      <4>2. h[Len(txw)] = j
        BY <3>1, <4>1
      <4>. QED  BY <2>1, <4>1, <4>2
    <3>2. CASE j < i
      <4>1. j \in DOMAIN txw' /\ h[j] = j
        BY <1>6, <2>1, <3>2
      <4>. QED  BY <4>1
    <3>3. CASE j > i
      <4>1. j - 1 \in 1 .. Len(txw) /\ j - 1 # Len(txw) /\ ~(j - 1 < i) /\ (j - 1) + 1 = j
        BY <3>0, <3>3
      <4>2. h[j - 1] = j
        BY <4>1
      <4>. QED  BY <2>1, <4>1, <4>2
    <3>. QED  BY <3>0, <3>1, <3>2, <3>3
  <2>. HIDE DEF h
  <2>5. \A k \in Flushing(txw') : h[k] \in Flushing(txw) /\ txw[h[k]].seq = txw'[k].seq
    BY <2>2 DEF Flushing, SameWatch
  <2>6. \A k, l \in Flushing(txw') : h[k] = h[l] => k = l
    BY <2>3 DEF Flushing
  <2>7. Flushing(txw) # {} => Flushing(txw') # {}
    BY <2>2, <2>4 DEF Flushing, SameWatch
  <2>8. OneFlush(txw', fl')
    BY <1>1, <2>5, <2>6, <2>7, SameFlush
  <2>9. \A k \in DOMAIN txw' : \E j \in DOMAIN txw : SameWatch(txw'[k], txw[j])
    BY <2>2
  <2>. QED  BY <1>1, <1>4, <2>8, <2>9, StepKeeps
<1>9. CASE ~txw[i].on
  <2>1. txw' = r /\ i \notin Flushing(txw)
    BY <1>5, <1>9 DEF Flushing
  <2>2. OneFlush(txw', fl') /\ \A k \in DOMAIN txw' : \E j \in DOMAIN txw : txw'[k] = txw[j]
    BY <1>1, <2>1, RemoveFlush
  <2>3. \A k \in DOMAIN txw' : \E j \in DOMAIN txw : SameWatch(txw'[k], txw[j])
    BY <2>2 DEF SameWatch
  <2>. QED  BY <1>1, <1>4, <2>2, <2>3, StepKeeps
<1>. QED
  BY <1>8, <1>9

LEMMA RepeatKeeps ==
  ASSUME KeepInv, TrackerInv', UNCHANGED confirmed, NEW i \in DOMAIN txw, Repeat(i)
  PROVE  KeepInv'
<1>1. /\ txw \in Seq(Watch) /\ OneFlush(txw, fl) /\ gps <= gps'
      /\ UNCHANGED <<gps, pts, fifo, fl, sent, air, owed>>
      /\ repeated' = repeated \cup {txw[i].seq}
  BY CountsAssumption DEF Repeat, KeepInv, TrackerInv, TypeInv, TypeOK
<1>2. txw[i] \in Watch
  BY <1>1, LenProperties, ElementOfSeq
<1>3. NothingLost'
  <2>1. Heard \cup Served \subseteq (Heard \cup Served)'
    BY <1>1, HeardGrows
  <2>. QED  BY <1>1, <2>1 DEF KeepInv, NothingLost
<1>4. /\ DOMAIN txw' = DOMAIN txw
      /\ \A k \in DOMAIN txw : k # i => txw'[k] = txw[k]
      /\ txw'[i] = [txw[i] EXCEPT !.rep = TRUE]
  BY DEF Repeat
<1>5. /\ txw'[i].on = txw[i].on /\ txw'[i].kind = txw[i].kind /\ txw'[i].seq = txw[i].seq
      /\ txw'[i].lo = txw[i].lo /\ txw'[i].hi = txw[i].hi
  BY <1>2, <1>4 DEF Watch
<1>6. Flushing(txw') = Flushing(txw) /\ \A k \in DOMAIN txw : txw'[k].seq = txw[k].seq
  <2>1. ASSUME NEW k \in DOMAIN txw
        PROVE  /\ txw'[k].on = txw[k].on /\ txw'[k].kind = txw[k].kind
               /\ txw'[k].seq = txw[k].seq
    <3>1. CASE k = i
      BY <1>5, <3>1
    <3>2. CASE k # i
      BY <1>4, <3>2
    <3>. QED  BY <3>1, <3>2
  <2>2. \A k : k \in Flushing(txw') <=> k \in Flushing(txw)
    BY <1>4, <2>1, Zenon DEF Flushing
  <2>. QED  BY <2>1, <2>2
<1>7. OneFlush(txw', fl')
  BY <1>1, <1>6 DEF OneFlush, Flushing
<1>8. WatchTrue(txw'[i], gps', air', repeated', DOMAIN pts')
  <2>1. WatchTrue(txw[i], gps, air, repeated, DOMAIN pts)
    BY DEF KeepInv
  <2>. QED  BY <1>1, <1>5, <2>1 DEF WatchTrue
<1>9. \A k \in DOMAIN txw' : \/ WatchTrue(txw'[k], gps', air', repeated', DOMAIN pts')
                             \/ \E j \in DOMAIN txw : SameWatch(txw'[k], txw[j])
  BY <1>4, <1>8 DEF SameWatch
<1>. QED
  BY <1>1, <1>3, <1>7, <1>9, StepKeeps

LEMMA WatchHeardKeeps ==
  ASSUME KeepInv, TrackerInv', UNCHANGED confirmed, NEW i \in DOMAIN txw, WatchHeard(i)
  PROVE  KeepInv'
<1>. DEFINE K == (Heard \cup Served)'
<1>1. /\ txw \in Seq(Watch) /\ OneFlush(txw, fl) /\ gps <= gps'
      /\ UNCHANGED <<gps, air, repeated>>
  BY CountsAssumption DEF WatchHeard, KeepInv, TrackerInv, TypeInv, TypeOK
<1>2. txw[i] \in Watch
  BY <1>1, LenProperties, ElementOfSeq
<1>3. Heard \cup Served \subseteq K
  BY <1>1, HeardGrows
<1>4. PICK u \in TxwFinish(St, txw[i]) : Becomes(u)
  BY DEF WatchHeard
<1>. HIDE DEF K
<1>5. /\ Safe(u, K) /\ u.sent = sent /\ DOMAIN u.pts \subseteq DOMAIN pts
      /\ i \in Flushing(txw) => u.fl.seq = 0
      /\ i \notin Flushing(txw) => u.fl = fl
  BY <1>3, <1>4, FinishSafe
<1>6. NothingLost'
  BY <1>4, <1>5, Becoming DEF K
<1>7. pts' = u.pts /\ fl' = u.fl /\ sent' = sent
  BY <1>4, <1>5 DEF Becomes
<1>8. /\ DOMAIN txw' = DOMAIN txw
      /\ \A k \in DOMAIN txw : k # i => txw'[k] = txw[k]
      /\ txw'[i] = [txw[i] EXCEPT !.on = FALSE]
  BY DEF WatchHeard
<1>9. /\ ~txw'[i].on /\ txw'[i].kind = txw[i].kind /\ txw'[i].seq = txw[i].seq
      /\ txw'[i].lo = txw[i].lo /\ txw'[i].hi = txw[i].hi /\ txw'[i].rep = txw[i].rep
  BY <1>2, <1>8 DEF Watch
<1>10. \A k \in DOMAIN txw' : \E j \in DOMAIN txw : SameWatch(txw'[k], txw[j])
  BY <1>8, <1>9 DEF SameWatch
<1>11. Flushing(txw') = Flushing(txw) \ {i}
  BY <1>8, <1>9 DEF Flushing
<1>12. OneFlush(txw', fl')
  <2>1. CASE i \in Flushing(txw)
    <3>1. Flushing(txw') = {}
      BY <1>1, <1>11, <2>1 DEF OneFlush
    <3>. QED  BY <1>5, <1>7, <2>1, <3>1, NoFlush
  <2>2. CASE i \notin Flushing(txw)
    <3>1. fl' = fl /\ Flushing(txw') = Flushing(txw)
      BY <1>5, <1>7, <1>11, <2>2
    <3>2. \A k \in Flushing(txw) : txw'[k].seq = txw[k].seq
      BY <1>8, <1>9 DEF Flushing
    <3>. QED  BY <1>1, <3>1, <3>2 DEF OneFlush
  <2>. QED  BY <2>1, <2>2
<1>13. fl' = fl \/ OnAir(fl', air')
  BY <1>5, <1>7 DEF OnAir
<1>. QED
  BY <1>1, <1>5, <1>6, <1>7, <1>10, <1>12, <1>13, StepKeeps

LEMMA WatchExpiresKeeps ==
  ASSUME KeepInv, TrackerInv', UNCHANGED confirmed, NEW i \in DOMAIN txw, WatchExpires(i)
  PROVE  KeepInv'
<1>. DEFINE K == (Heard \cup Served)'
<1>1. /\ gps <= gps' /\ UNCHANGED <<gps, air, repeated>> /\ txw' = RemoveAt(txw, i)
  BY CountsAssumption DEF WatchExpires, KeepInv, TrackerInv, TypeInv, TypeOK
<1>2. Heard \cup Served \subseteq K
  BY <1>1, HeardGrows
<1>3. PICK u \in TxwFinish(St, txw[i]) : Becomes(u)
  BY DEF WatchExpires
<1>. HIDE DEF K
<1>4. /\ Safe(u, K) /\ u.sent = sent /\ DOMAIN u.pts \subseteq DOMAIN pts
      /\ i \in Flushing(txw) => u.fl.seq = 0
      /\ i \notin Flushing(txw) => u.fl = fl
  BY <1>2, <1>3, FinishSafe
<1>5. NothingLost'
  BY <1>3, <1>4, Becoming DEF K
<1>6. pts' = u.pts /\ fl' = u.fl /\ sent' = sent
  BY <1>3, <1>4 DEF Becomes
<1>7. \A k \in DOMAIN txw' : \E j \in DOMAIN txw : SameWatch(txw'[k], txw[j])
  BY <1>1, RemoveFlush DEF SameWatch
<1>8. OneFlush(txw', fl')
  <2>1. CASE i \in Flushing(txw)
    BY <1>1, <1>4, <1>6, <2>1, RemoveFlush, NoFlush
  <2>2. CASE i \notin Flushing(txw)
    BY <1>1, <1>4, <1>6, <2>2, RemoveFlush
  <2>. QED  BY <2>1, <2>2
<1>9. fl' = fl \/ OnAir(fl', air')
  BY <1>4, <1>6 DEF OnAir
<1>. QED
  BY <1>1, <1>4, <1>5, <1>6, <1>7, <1>8, <1>9, StepKeeps

LEMMA HandleT1FKeeps ==
  ASSUME KeepInv, TrackerInv', UNCHANGED confirmed, NEW S \in SUBSET confirmed, HandleT1F(S)
  PROVE  KeepInv'
<1>. DEFINE known == {i \in DOMAIN sent : sent[i].seq \in S}
            gone  == UNION {sent[i].pts : i \in known}
            ring  == [i \in DOMAIN sent |-> IF i \in known THEN NoMsg ELSE sent[i]]
            s1 == [St EXCEPT !.fifo = fifo \ gone, !.sent = ring]
<1>1. gps <= gps' /\ UNCHANGED <<gps, txw, air, repeated>>
  BY CountsAssumption DEF HandleT1F, KeepInv, TrackerInv, TypeInv, TypeOK
<1>2. PICK u \in IF known # {} THEN Saved(s1) ELSE {s1} : Becomes(u)
  BY DEF HandleT1F
<1>3. /\ s1.pts = pts /\ s1.fifo = fifo \ gone /\ s1.fl = fl /\ s1.sent = ring /\ s1.owed = owed
  BY DEF St
<1>4. u.pts = s1.pts /\ u.fifo = s1.fifo /\ u.fl = s1.fl /\ u.sent = s1.sent /\ u.owed = s1.owed
  <2>1. u = s1 \/ u = [s1 EXCEPT !.disk = s1.fifo]
    BY <1>2 DEF Saved
  <2>. QED  BY <2>1 DEF St
<1>5. pts' = pts /\ fifo' = fifo \ gone /\ fl' = fl /\ sent' = ring /\ owed' = owed
  <2>. HIDE DEF s1, gone, ring, known
  <2>. QED  BY <1>2, <1>3, <1>4 DEF Becomes
<1>6. gone \subseteq Served
  <2>. SUFFICES ASSUME NEW i \in known
                PROVE  sent[i].pts \subseteq Served
    OBVIOUS
  <2>1. sent[i].seq \in confirmed /\ sent[i].seq # 0 /\ OnAir(sent[i], air)
    <3>1. sent[i].seq \in confirmed /\ confirmed \subseteq Seqs /\ OnAir(sent[i], air)
      BY DEF KeepInv, TrackerInv
    <3>. QED  BY <3>1 DEF Seqs
  <2>. QED  BY <2>1 DEF OnAir, Served
<1>7. Heard \cup Served \subseteq (Heard \cup Served)'
  BY <1>1, HeardGrows
<1>8. NothingLost'
  <2>. HIDE DEF gone
  <2>. QED  BY <1>5, <1>6, <1>7 DEF KeepInv, NothingLost
<1>9. \A i \in DOMAIN sent' : sent'[i] \in {sent[j] : j \in DOMAIN sent} \/ OnAir(sent'[i], air')
  <2>1. OnAir(NoMsg, air')
    BY DEF OnAir, NoMsg
  <2>. QED  BY <1>5, <2>1
<1>10. OneFlush(txw', fl')
  BY <1>1, <1>5 DEF KeepInv
<1>11. \A k \in DOMAIN txw' : \E j \in DOMAIN txw : SameWatch(txw'[k], txw[j])
  BY <1>1 DEF SameWatch
<1>. QED
  BY <1>1, <1>5, <1>8, <1>9, <1>10, <1>11, StepKeeps

LEMMA FifoClearKeeps ==
  ASSUME KeepInv, TrackerInv', UNCHANGED confirmed, FifoClear
  PROVE  KeepInv'
<1>. DEFINE r == [St EXCEPT !.fifo = {}, !.fl = NoMsg, !.owed = @ \ (fifo \ DOMAIN pts)]
<1>1. /\ gps <= gps' /\ UNCHANGED <<gps, air, repeated>>
      /\ txw' = [i \in DOMAIN txw |-> [txw[i] EXCEPT !.on = @ /\ txw[i].kind # "Q"]]
      /\ txw \in Seq(Watch)
  BY CountsAssumption DEF FifoClear, KeepInv, TrackerInv, TypeInv, TypeOK
<1>2. PICK u \in Saved(r) : Becomes(u)
  BY DEF FifoClear
<1>3. /\ r.pts = pts /\ r.fifo = {} /\ r.fl = NoMsg /\ r.sent = sent
      /\ r.owed = owed \ (fifo \ DOMAIN pts)
  BY DEF St
<1>4. u.pts = r.pts /\ u.fifo = r.fifo /\ u.fl = r.fl /\ u.sent = r.sent /\ u.owed = r.owed
  <2>1. u = r \/ u = [r EXCEPT !.disk = r.fifo]
    BY <1>2 DEF Saved
  <2>. QED  BY <2>1 DEF St
<1>. HIDE DEF r
<1>5. /\ pts' = pts /\ fifo' = {} /\ fl' = NoMsg /\ sent' = sent
      /\ owed' = owed \ (fifo \ DOMAIN pts)
  BY <1>2, <1>3, <1>4 DEF Becomes
<1>6. Heard \cup Served \subseteq (Heard \cup Served)'
  BY <1>1, HeardGrows
<1>7. NothingLost'
  BY <1>5, <1>6 DEF KeepInv, NothingLost
<1>8. ASSUME NEW k \in DOMAIN txw'
      PROVE  k \in DOMAIN txw /\ SameWatch(txw'[k], txw[k]) /\ (txw'[k].on => txw'[k].kind # "Q")
  <2>1. k \in DOMAIN txw
    BY <1>1
  <2>2. txw[k] \in Watch
    BY <1>1, <2>1, LenProperties, ElementOfSeq
  <2>3. txw'[k] = [txw[k] EXCEPT !.on = @ /\ txw[k].kind # "Q"]
    BY <1>1, <2>1
  <2>. QED  BY <2>1, <2>2, <2>3 DEF Watch, SameWatch
<1>9. OneFlush(txw', fl')
  <2>1. Flushing(txw') = {}
    BY <1>8 DEF Flushing
  <2>. QED  BY <1>5, <2>1, NoFlush DEF NoMsg
<1>10. OnAir(fl', air')
  BY <1>5 DEF OnAir, NoMsg
<1>. QED
  BY <1>1, <1>5, <1>7, <1>8, <1>9, <1>10, StepKeeps

LEMMA RebootKeeps ==
  ASSUME KeepInv, TrackerInv', UNCHANGED confirmed, Reboot
  PROVE  KeepInv'
<1>1. /\ gps <= gps' /\ UNCHANGED <<gps, air, repeated>> /\ DOMAIN pts' = {} /\ fifo' = disk
      /\ fl' = NoMsg /\ sent' = EmptyRing /\ txw' = <<>>
      /\ owed' = (owed \ (DOMAIN pts \cup fifo)) \cup disk
  BY CountsAssumption DEF Reboot, EmptyBuffer, KeepInv, TrackerInv, TypeInv, TypeOK
<1>2. Heard \cup Served \subseteq (Heard \cup Served)'
  BY <1>1, HeardGrows
<1>3. NothingLost'
  BY <1>1, <1>2 DEF KeepInv, NothingLost
<1>4. DOMAIN txw' = {}
  BY <1>1
<1>5. OneFlush(txw', fl')
  BY <1>1, <1>4, NoFlush DEF NoMsg, Flushing
<1>6. OnAir(fl', air') /\ \A i \in DOMAIN sent' : OnAir(sent'[i], air')
  BY <1>1 DEF OnAir, NoMsg, EmptyRing
<1>. QED
  BY <1>1, <1>3, <1>4, <1>5, <1>6, StepKeeps

LEMMA ConfirmKeeps ==
  ASSUME KeepInv, TrackerInv', NEW S, Confirm(S)
  PROVE  KeepInv'
<1>1. UNCHANGED trackerVars /\ confirmed \subseteq confirmed'
  BY DEF Confirm
<1>2. Heard \cup Served \subseteq (Heard \cup Served)'
  BY <1>1, HeardGrows DEF trackerVars
<1>3. NothingLost'
  BY <1>1, <1>2 DEF KeepInv, NothingLost, trackerVars
<1>. QED
  BY <1>1, <1>3 DEF KeepInv, trackerVars

LEMMA KeepInit == TrackerInit => KeepInv
<1>. SUFFICES ASSUME TrackerInit PROVE KeepInv
  OBVIOUS
<1>1. TrackerInv
  BY TrackerInvInit
<1>2. /\ DOMAIN pts = {} /\ txw = <<>> /\ fl = NoMsg /\ sent = EmptyRing /\ owed = {}
  BY DEF TrackerInit, Init, EmptyBuffer
<1>3. DOMAIN txw = {}
  BY <1>2
<1>4. OneFlush(txw, fl)
  BY <1>2, <1>3, NoFlush DEF NoMsg, Flushing
<1>5. OnAir(fl, air) /\ \A i \in DOMAIN sent : OnAir(sent[i], air)
  BY <1>2 DEF OnAir, NoMsg, EmptyRing
<1>. QED
  BY <1>1, <1>2, <1>3, <1>4, <1>5 DEF KeepInv, NothingLost

LEMMA KeepNext == KeepInv /\ [TrackerNext]_fifoVars => KeepInv'
<1>. SUFFICES ASSUME KeepInv, [TrackerNext]_fifoVars PROVE KeepInv'
  OBVIOUS
<1>1. TrackerInv'
  BY TrackerInvNext DEF KeepInv
<1>2. CASE TrackerStep /\ UNCHANGED confirmed
  BY <1>1, <1>2, FixKeeps, SlowTakeKeeps, SendReportKeeps, SendReportFailsKeeps, AgeOutKeeps,
     FifoSaveKeeps, SendFlushKeeps, SendFlushFailsKeeps, TxPacketKeeps, RepeatKeeps,
     WatchHeardKeeps, WatchExpiresKeeps, FifoClearKeeps, RebootKeeps
  DEF TrackerStep
<1>3. CASE \E S \in SUBSET confirmed : HandleT1F(S) /\ UNCHANGED confirmed
  BY <1>1, <1>3, HandleT1FKeeps
<1>4. CASE \E S \in SUBSET Drained : Confirm(S)
  BY <1>1, <1>4, ConfirmKeeps
<1>5. CASE UNCHANGED fifoVars
  BY <1>1, <1>5 DEF fifoVars, KeepInv, NothingLost, Heard, Served
<1>. QED
  BY <1>2, <1>3, <1>4, <1>5 DEF TrackerNext, TrackerAlone

THEOREM KeepInvAlways == TrackerSpec => []KeepInv
BY KeepInit, KeepNext, PTL DEF TrackerSpec

\* A point that is kept is on the tracker, was repeated or was confirmed,
\* whatever comes and goes between making a message and applying what became
\* of it (pts_heard, flush_done, txw_add, fifo_confirm_seqs, restarts).
THEOREM TrackerLosesNothing == TrackerSpec => []NothingLost
<1>1. KeepInv => NothingLost
  BY DEF KeepInv
<1>. QED
  BY <1>1, KeepInvAlways, PTL

\* The outcome that flush_done applies belongs to the message under way, for
\* any number of messages and places on the watch list.
THEOREM TrackerWatchesOnce == TrackerSpec => []WatchedOnce
<1>1. ASSUME KeepInv PROVE WatchedOnce
  <2>. DEFINE flush == {i \in DOMAIN txw : txw[i].on /\ txw[i].kind = "Q"}
  <2>1. OneFlush(txw, fl) /\ flush = Flushing(txw)
    BY <1>1 DEF KeepInv, Flushing
  <2>2. Cardinality(flush) = IF fl.seq # 0 THEN 1 ELSE 0
    <3>1. CASE fl.seq = 0
      BY <1>1, <2>1, <3>1, NobodyWaits, FS_EmptySet
    <3>2. CASE fl.seq # 0
      <4>1. PICK i : flush = {i}
        BY <2>1, <3>2 DEF OneFlush
      <4>. QED  BY <3>2, <4>1, FS_Singleton
    <3>. QED  BY <3>1, <3>2
  <2>. QED  BY <2>1, <2>2 DEF WatchedOnce, OneFlush
<1>. QED
  BY <1>1, KeepInvAlways, PTL
-----------------------------------------------------------------------------
(***************************************************************************)
(* Numbers.  The tracker gives every message a new number, so a number     *)
(* names one message for ever.                                             *)
(***************************************************************************)
Numbered ==
  /\ seq \in Nat
  /\ \A m \in air : m.seq \in Nat /\ m.seq <= seq
  /\ \A m, n \in air : m.seq = n.seq => m = n

\* A handler hands at most one message to the radio, with the next number.
Transmits ==
  \/ air' = air /\ seq' \in {seq, seq + 1}
  \/ /\ seq' = seq + 1
     /\ \E kind \in {"M", "Q"} : \E S : air' = air \cup {[seq |-> seq + 1, kind |-> kind, pts |-> S]}

LEMMA TrackerTransmits ==
  ASSUME TrackerStep
  PROVE  Transmits
<1> USE DEF Transmits
<1>1. CASE \E keep \in BOOLEAN : Fix(keep)
  BY <1>1 DEF Fix
<1>2. CASE SlowTake
  BY <1>2 DEF SlowTake
<1>3. CASE \E k \in 0 .. ExtraMax : SendReport(k)
  <2>1. PICK k \in 0 .. ExtraMax : SendReport(k)
    BY <1>3
  <2>2. \E S : air' = air \cup {[seq |-> seq + 1, kind |-> "M", pts |-> S]}
    BY <2>1 DEF SendReport
  <2>. QED  BY <2>1, <2>2 DEF SendReport
<1>4. CASE SendReportFails
  BY <1>4 DEF SendReportFails
<1>5. CASE \E cut \in Times : AgeOut(cut)
  BY <1>5 DEF AgeOut
<1>6. CASE FifoSave
  BY <1>6 DEF FifoSave
<1>7. CASE \E S \in SUBSET fifo : SendFlush(S)
  BY <1>7 DEF SendFlush
<1>8. CASE \E S \in SUBSET fifo : SendFlushFails(S)
  BY <1>8 DEF SendFlushFails
<1>9. CASE \E i \in DOMAIN txw : TxPacket(i)
  BY <1>9 DEF TxPacket
<1>10. CASE \E i \in DOMAIN txw : Repeat(i)
  BY <1>10 DEF Repeat
<1>11. CASE \E i \in DOMAIN txw : WatchHeard(i)
  BY <1>11 DEF WatchHeard
<1>12. CASE \E i \in DOMAIN txw : WatchExpires(i)
  BY <1>12 DEF WatchExpires
<1>13. CASE FifoClear
  BY <1>13 DEF FifoClear
<1>14. CASE Reboot
  BY <1>14 DEF Reboot
<1>. QED
  BY <1>1, <1>2, <1>3, <1>4, <1>5, <1>6, <1>7, <1>8, <1>9, <1>10, <1>11,
     <1>12, <1>13, <1>14 DEF TrackerStep

LEMMA T1FTransmits ==
  ASSUME NEW S, HandleT1F(S)
  PROVE  Transmits
BY DEF HandleT1F, Transmits

LEMMA NumberedStep ==
  ASSUME Numbered, Transmits
  PROVE  Numbered'
<1>1. CASE air' = air /\ seq' \in {seq, seq + 1}
  BY <1>1 DEF Numbered
<1>2. CASE /\ seq' = seq + 1
           /\ \E kind \in {"M", "Q"} : \E S :
                air' = air \cup {[seq |-> seq + 1, kind |-> kind, pts |-> S]}
  <2>. PICK kind \in {"M", "Q"} :
         \E S : air' = air \cup {[seq |-> seq + 1, kind |-> kind, pts |-> S]}
    BY <1>2
  <2>1. PICK S : air' = air \cup {[seq |-> seq + 1, kind |-> kind, pts |-> S]}
    OBVIOUS
  <2>. DEFINE new == [seq |-> seq + 1, kind |-> kind, pts |-> S]
  <2>2. new.seq = seq + 1
    OBVIOUS
  <2>3. \A m \in air' : m \in air \/ m = new
    BY <2>1
  <2>. HIDE DEF new
  <2>. QED
    BY <1>2, <2>2, <2>3 DEF Numbered
<1>. QED
  BY <1>1, <1>2 DEF Transmits

(***************************************************************************)
(* The server.  Every number it may still confirm, or did confirm, is that *)
(* of a Q message whose points it stores; so is every row that makes a Q   *)
(* message a repetition.  The second part is needed because a repetition   *)
(* is confirmed without storing anything.  Both hold but for messages      *)
(* whose storing an error broke off (torn).                                *)
(***************************************************************************)
Named == pending \cup confirmed

IInv ==
  /\ Numbered
  /\ \A n \in Named : \E m \in air : m.kind = "Q" /\ m.seq = n
  /\ \A r \in rows : \E m \in air : r = <<m.seq, m.kind>>
  /\ \A m \in air \ torn : m.kind = "Q" /\ m.seq \in Named => m.pts \subseteq stored
  /\ \A m \in air \ torn : m.kind = "Q" /\ <<m.seq, m.kind>> \in rows => m.pts \subseteq stored

LEMMA IInvInit == SystemInit => IInv
BY DEF SystemInit, TrackerInit, Init, ServerInit, IInv, Numbered, Named

\* A new message has a number that no list and no row mentions yet.
LEMMA IInvTransmit ==
  ASSUME IInv, Transmits, UNCHANGED serverVars
  PROVE  IInv'
<1>1. Numbered'
  BY NumberedStep DEF IInv
<1>2. air \subseteq air' /\ Named' = Named /\ rows' = rows /\ stored' = stored /\ torn' = torn
  BY DEF Transmits, serverVars, Named
<1>3. \A m \in air' : m \in air \/ \A n \in air : n.seq # m.seq
  <2>1. CASE air' = air
    BY <2>1
  <2>2. CASE \E kind \in {"M", "Q"} : \E S :
               air' = air \cup {[seq |-> seq + 1, kind |-> kind, pts |-> S]}
    <3>. PICK kind \in {"M", "Q"} :
           \E S : air' = air \cup {[seq |-> seq + 1, kind |-> kind, pts |-> S]}
      BY <2>2
    <3>1. PICK S : air' = air \cup {[seq |-> seq + 1, kind |-> kind, pts |-> S]}
      OBVIOUS
    <3>2. \A m \in air' : m \in air \/ m.seq = seq + 1
      BY <3>1
    <3>3. \A n \in air : n.seq # seq + 1
      BY DEF IInv, Numbered
    <3>. QED  BY <3>2, <3>3
  <2>. QED  BY <2>1, <2>2 DEF Transmits
<1>4. \A n \in Named' : \E m \in air' : m.kind = "Q" /\ m.seq = n
  BY <1>2 DEF IInv
<1>5. \A r \in rows' : \E m \in air' : r = <<m.seq, m.kind>>
  BY <1>2 DEF IInv
<1>6. ASSUME NEW m \in air' \ torn', m.kind = "Q", m.seq \in Named'
      PROVE  m.pts \subseteq stored'
  <2>1. m \in air
    BY <1>2, <1>3, <1>6 DEF IInv
  <2>. QED  BY <1>2, <1>6, <2>1 DEF IInv
<1>7. ASSUME NEW m \in air' \ torn', m.kind = "Q", <<m.seq, m.kind>> \in rows'
      PROVE  m.pts \subseteq stored'
  <2>1. PICK n \in air : <<m.seq, m.kind>> = <<n.seq, n.kind>>
    BY <1>2, <1>7 DEF IInv
  <2>2. m \in air
    BY <1>3, <2>1
  <2>. QED  BY <1>2, <1>7, <2>2 DEF IInv
<1>. QED
  BY <1>1, <1>4, <1>5, <1>6, <1>7 DEF IInv

LEMMA IInvServerRx ==
  ASSUME IInv, NEW m \in air, ServerRx(m), UNCHANGED trackerVars
  PROVE  IInv'
<1>1. air' = air /\ seq' = seq /\ torn' = torn
  BY DEF trackerVars, ServerRx
<1>2. Numbered'
  BY <1>1 DEF IInv, Numbered
<1>3. stored \subseteq stored'
  BY DEF ServerRx
<1>4. Named' \subseteq IF m.kind = "Q" THEN Named \cup {m.seq} ELSE Named
  BY DEF ServerRx, Named
<1>5. rows' \subseteq rows \cup {<<m.seq, m.kind>>}
  BY DEF ServerRx
<1>6. <<m.seq, m.kind>> \notin rows => m.pts \subseteq stored'
  BY DEF ServerRx
<1>7. m.kind = "Q" /\ m \notin torn => m.pts \subseteq stored'
  BY <1>3, <1>6 DEF IInv
<1>8. \A n \in Named' : \E k \in air' : k.kind = "Q" /\ k.seq = n
  BY <1>1, <1>4 DEF IInv
<1>9. \A r \in rows' : \E k \in air' : r = <<k.seq, k.kind>>
  BY <1>1, <1>5 DEF IInv
<1>10. ASSUME NEW k \in air' \ torn', k.kind = "Q", k.seq \in Named'
       PROVE  k.pts \subseteq stored'
  <2>1. CASE k.seq \in Named
    BY <1>1, <1>3, <1>10, <2>1 DEF IInv
  <2>2. CASE k.seq = m.seq
    BY <1>1, <1>7, <1>10, <2>2 DEF IInv, Numbered
  <2>. QED  BY <1>4, <1>10, <2>1, <2>2
<1>11. ASSUME NEW k \in air' \ torn', k.kind = "Q", <<k.seq, k.kind>> \in rows'
       PROVE  k.pts \subseteq stored'
  <2>1. CASE <<k.seq, k.kind>> \in rows
    BY <1>1, <1>3, <1>11, <2>1 DEF IInv
  <2>2. CASE <<k.seq, k.kind>> = <<m.seq, m.kind>>
    BY <1>1, <1>7, <1>11, <2>2 DEF IInv, Numbered
  <2>. QED  BY <1>5, <1>11, <2>1, <2>2
<1>. QED
  BY <1>2, <1>8, <1>9, <1>10, <1>11 DEF IInv

\* An error breaks off the storing of a message: it is torn from then on, and what
\* was stored stays.
LEMMA IInvServerRxFails ==
  ASSUME IInv, NEW m \in air, ServerRxFails(m), UNCHANGED trackerVars
  PROVE  IInv'
<1>1. air' = air /\ seq' = seq /\ torn' = torn \cup {m}
  BY DEF trackerVars, ServerRxFails
<1>2. stored \subseteq stored' /\ Named' = Named /\ rows' = rows \cup {<<m.seq, m.kind>>}
  BY DEF ServerRxFails, Named
<1>3. Numbered'
  BY <1>1 DEF IInv, Numbered
<1>4. ASSUME NEW k \in air' \ torn', k.kind = "Q",
             k.seq \in Named' \/ <<k.seq, k.kind>> \in rows'
      PROVE  k.pts \subseteq stored'
  <2>1. k \in air \ torn /\ k.seq # m.seq
    BY <1>1, <1>4 DEF IInv, Numbered
  <2>2. k.seq \in Named \/ <<k.seq, k.kind>> \in rows
    BY <1>2, <1>4, <2>1
  <2>. QED  BY <1>2, <1>4, <2>1, <2>2 DEF IInv
<1>. QED
  BY <1>1, <1>2, <1>3, <1>4 DEF IInv

LEMMA IInvNext == IInv /\ [Next]_vars => IInv'
<1>. SUFFICES ASSUME IInv, [Next]_vars PROVE IInv'
  OBVIOUS
<1>1. CASE TrackerAlone /\ UNCHANGED <<stored, rows, pending, torn>>
  <2>1. Transmits
    BY <1>1, TrackerTransmits, T1FTransmits DEF TrackerAlone
  <2>. QED  BY <1>1, <2>1, IInvTransmit DEF TrackerAlone, serverVars
<1>3. CASE (\E m \in air : ServerRx(m)) /\ UNCHANGED trackerVars
  BY <1>3, IInvServerRx
<1>8. CASE (\E m \in air : ServerRxFails(m)) /\ UNCHANGED trackerVars
  BY <1>8, IInvServerRxFails
<1>4. CASE (\E r \in rows : WindowPasses(r)) /\ UNCHANGED trackerVars
  BY <1>4 DEF WindowPasses, trackerVars, IInv, Numbered, Named
<1>5. CASE /\ \E S \in SUBSET pending : \E kept \in SUBSET S : SendT1F(S, kept)
           /\ UNCHANGED trackerVars
  <2>1. Named' \subseteq Named
    BY <1>5 DEF SendT1F, Named
  <2>2. air' = air /\ seq' = seq /\ rows' = rows /\ stored' = stored /\ torn' = torn
    BY <1>5 DEF SendT1F, trackerVars
  <2>. QED  BY <2>1, <2>2 DEF IInv, Numbered
<1>6. CASE ServerRestart /\ UNCHANGED trackerVars
  BY <1>6 DEF ServerRestart, trackerVars, IInv, Numbered, Named
<1>7. CASE UNCHANGED vars
  BY <1>7 DEF vars, IInv, Numbered, Named
<1>. QED
  BY <1>1, <1>3, <1>4, <1>5, <1>6, <1>7, <1>8 DEF Next, ServerStep

THEOREM IInvAlways == Spec => []IInv
BY IInvInit, IInvNext, PTL DEF Spec

\* What the server confirms it has, for every number of points, messages,
\* retransmissions, restarts and errors (on_channel, fifo_tick), but for the messages
\* whose storing an error broke off (handle).
THEOREM ServerConfirms == Spec => []ConfirmedIsStored
<1>1. IInv => ConfirmedIsStored
  BY DEF IInv, ConfirmedIsStored, Named
<1>. QED
  BY <1>1, IInvAlways, PTL

LEMMA ServerStepImplements ==
  ASSUME IInv, ServerStep, UNCHANGED trackerVars
  PROVE  [TrackerNext]_fifoVars
<1>1. CASE \/ \E m \in air : ServerRx(m) \/ ServerRxFails(m)
           \/ (\E r \in rows : WindowPasses(r)) \/ ServerRestart
  BY <1>1 DEF ServerRx, ServerRxFails, WindowPasses, ServerRestart, trackerVars, fifoVars
<1>2. CASE \E S \in SUBSET pending : \E kept \in SUBSET S : SendT1F(S, kept)
  <2>0. PICK S \in SUBSET pending : \E kept \in SUBSET S : SendT1F(S, kept)
    BY <1>2
  <2>1. PICK kept \in SUBSET S : SendT1F(S, kept)
    BY <2>0
  <2>2. S \subseteq Drained
    BY <2>1 DEF IInv, Named, Drained
  <2>3. Confirm(S)
    BY <2>1, <2>2 DEF SendT1F, Confirm
  <2>. QED  BY <2>2, <2>3 DEF TrackerNext
<1>. QED
  BY <1>1, <1>2 DEF ServerStep

\* The tracker and the server together are one of the systems that FifoTracker
\* allows: what holds there of every server that may be relied on, holds here.
THEOREM SystemImplementsTracker == Spec => ImplementsTracker
<1>1. SystemInit => TrackerInit
  BY DEF SystemInit
<1>2. IInv /\ [Next]_vars => [TrackerNext]_fifoVars
  BY ServerStepImplements DEF Next, TrackerNext, vars, fifoVars
<1>. QED
  BY <1>1, <1>2, IInvAlways, PTL DEF Spec, ImplementsTracker

LEMMA SystemIsTracker == Spec => TrackerSpec
<1>1. [UNCHANGED fifoVars \/ TrackerNext]_fifoVars => [TrackerNext]_fifoVars
  OBVIOUS
<1>. QED
  BY <1>1, SystemImplementsTracker, PTL DEF ImplementsTracker, TrackerSpec

\* What the server confirmed to the tracker, the server has.
LEMMA ServedIsStored == IInv => Served \subseteq stored \cup UNION {m.pts : m \in torn}
<1>. SUFFICES ASSUME IInv, NEW m \in air \ torn, m.seq \in confirmed
     PROVE  m.pts \subseteq stored
  BY DEF Served
<1>1. PICK n \in air : n.kind = "Q" /\ n.seq = m.seq
  BY DEF IInv, Named
<1>2. n = m
  BY <1>1 DEF IInv, Numbered
<1>. QED
  BY <1>1, <1>2 DEF IInv, Named

\* From end to end: a point that is kept is on the tracker, or a repeater
\* repeated a message with it, or it is in the database of the server, unless an
\* error broke off the storing of a message with it.  What
\* FifoTracker promises of every server that may be relied on, and what this
\* server stores before it confirms.
THEOREM SystemLosesNothing == Spec => []NothingLostInSystem
<1>1. Spec => []NothingLost
  BY SystemIsTracker, TrackerLosesNothing, PTL
<1>2. NothingLost /\ IInv => NothingLostInSystem
  BY ServedIsStored DEF NothingLost, NothingLostInSystem
<1>. QED
  BY <1>1, <1>2, IInvAlways, PTL

(***************************************************************************)
(* The types of the server's variables follow from those of the messages.  *)
(***************************************************************************)
LEMMA ServerTypesNext ==
  ASSUME TrackerTypeOK, ServerTypeOK, [Next]_vars
  PROVE  ServerTypeOK'
<1>1. CASE UNCHANGED <<stored, rows, pending, torn>>
  BY <1>1 DEF ServerTypeOK
<1>2. CASE \E m \in air : ServerRx(m)
  <2>1. PICK m \in air : ServerRx(m)
    BY <1>2
  <2>2. m.seq \in Seqs /\ m.kind \in {"M", "Q"} /\ m.pts \subseteq Times
    BY DEF TrackerTypeOK, TypeOK, Message
  <2>. QED  BY <2>1, <2>2 DEF ServerRx, ServerTypeOK
<1>6. CASE \E m \in air : ServerRxFails(m)
  <2>1. PICK m \in air : ServerRxFails(m)
    BY <1>6
  <2>2. /\ m \in Message /\ m.seq \in Seqs /\ m.kind \in {"M", "Q"} /\ m.pts \subseteq Times
    BY DEF TrackerTypeOK, TypeOK, Message
  <2>. QED  BY <2>1, <2>2 DEF ServerRxFails, ServerTypeOK
<1>3. CASE \E r \in rows : WindowPasses(r)
  BY <1>3 DEF WindowPasses, ServerTypeOK
<1>4. CASE \E S \in SUBSET pending : \E kept \in SUBSET S : SendT1F(S, kept)
  BY <1>4 DEF SendT1F, ServerTypeOK
<1>5. CASE ServerRestart
  BY <1>5 DEF ServerRestart, ServerTypeOK
<1>. QED
  BY <1>1, <1>2, <1>3, <1>4, <1>5, <1>6 DEF Next, ServerStep, vars

\* Every variable of the tracker, the radio and the server has its type.
THEOREM SystemTypes == Spec => []SystemTypeOK
<1>1. Spec => []TrackerTypeOK
  BY SystemIsTracker, TrackerTypes, PTL
<1>2. SystemInit => ServerTypeOK
  BY DEF SystemInit, ServerInit, ServerTypeOK
<1>3. TrackerTypeOK /\ ServerTypeOK /\ [Next]_vars => ServerTypeOK'
  BY ServerTypesNext
<1>4. TrackerTypeOK /\ ServerTypeOK <=> SystemTypeOK
  BY DEF SystemTypeOK
<1>. QED
  BY <1>1, <1>2, <1>3, <1>4, PTL DEF Spec
(***************************************************************************)
(* FifoServer confirms at any time any part of its list.  The scheduler    *)
(* has the list of T1fList instead.  Taken as list \cup out, with numbers  *)
(* confirmed as soon as a T1F takes them, what that list does is what      *)
(* FifoServer allows.                                                      *)
(***************************************************************************)
VARIABLES list, out, open

Scheduled == INSTANCE T1fList

\* pending is what waits and what is being sent; all of the latter may be heard.
Seen == pending = list \cup out /\ out \subseteq confirmed

\* Every step of the list of a tracker that is not deleted is the receipt of a
\* Q message or a step of FifoServer: a T1F that goes out, also one that takes
\* numbers which are asked for again while it is sent, one that fails and
\* puts its numbers back though the tracker may have it, and a restart (fifo_request,
\* fifo_tick, _fifo_merge).
THEOREM ListServesTracker ==
  ASSUME Seen, Scheduled!ListNext, ~Scheduled!Abandon, ~Scheduled!Discard,
         pending' = list' \cup out', confirmed' = confirmed \cup out',
         UNCHANGED <<stored, rows, torn>>
  PROVE  /\ Seen'
         /\ \/ \E s \in Seqs : pending' = pending \cup {s} /\ confirmed' = confirmed
            \/ \E S \in SUBSET pending : \E kept \in SUBSET S : SendT1F(S, kept)
            \/ ServerRestart
            \/ UNCHANGED serverVars
<1>1. Seen'
  BY DEF Seen
<1>2. CASE \E s \in Seqs : Scheduled!Ask(s)
  <2>1. PICK s \in Seqs : Scheduled!Ask(s)
    BY <1>2
  <2>2. pending' = pending \cup {s} /\ confirmed' = confirmed
    BY <2>1 DEF Scheduled!Ask, Seen
  <2> QED
    BY <1>1, <2>2
<1>3. CASE \E S \in SUBSET list : Scheduled!Take(S)
  <2>1. PICK S \in SUBSET list : Scheduled!Take(S)
    BY <1>3
  <2>2. pending' = pending /\ confirmed' = confirmed \cup S /\ S \subseteq pending
    BY <2>1 DEF Scheduled!Take, Seen
  <2>3. CASE S = {}
    BY <1>1, <2>2, <2>3 DEF serverVars
  <2>4. CASE S # {}
    <3>1. SendT1F(S, S)
      BY <2>2, <2>4 DEF SendT1F
    <3> QED
      BY <1>1, <2>2, <3>1
  <2> QED
    BY <2>3, <2>4
<1>4. CASE Scheduled!Carried \/ Scheduled!PutBack
  <2>1. /\ out \subseteq pending /\ confirmed' = confirmed \cup out
        /\ pending' = (pending \ out) \cup (out \cap pending')
    BY <1>4 DEF Scheduled!Carried, Scheduled!PutBack, Seen
  <2>2. CASE out = {}
    BY <1>1, <2>1, <2>2, <1>4 DEF Scheduled!Carried, Scheduled!PutBack, Seen, serverVars
  <2>3. CASE out # {}
    <3>1. SendT1F(out, out \cap pending')
      BY <2>1, <2>3 DEF SendT1F
    <3> QED
      BY <1>1, <2>1, <3>1
  <2> QED
    BY <2>2, <2>3
<1>5. CASE Scheduled!StartAnew
  <2>1. pending' = {} /\ confirmed' = confirmed
    BY <1>5 DEF Scheduled!StartAnew, Seen
  <2>2. CASE pending = {}
    BY <1>1, <2>1, <2>2 DEF serverVars
  <2>3. CASE pending # {}
    BY <1>1, <2>1, <2>3 DEF ServerRestart
  <2> QED
    BY <2>2, <2>3
<1> QED
  BY <1>2, <1>3, <1>4, <1>5 DEF Scheduled!ListNext
=============================================================================
