----------------------------- MODULE SchedProofs -----------------------------
(***************************************************************************)
(* The two planners of the servers, for any trackers, nodes, lists and     *)
(* settings.                                                               *)
(*                                                                         *)
(* T1fSched: no number that was asked for gets lost between the list, the  *)
(* T1F that is being sent and an error of the radio, and none waits twice. *)
(* The invariant adds that the T1F itself carries none twice.  For every   *)
(* tracker the scheduler implements T1fList.                               *)
(*                                                                         *)
(* SweepSched: the minimum distance between any two rounds, and never two  *)
(* rounds that wait for their verdict.  The distance covers the term of    *)
(* the verdict (SweepAssumption), and verify_pending runs before the       *)
(* planner asks: so what is open is judged in the very step that asks      *)
(* again.                                                                  *)
(***************************************************************************)
EXTENDS T1fSched, SweepSched, FiniteSetTheorems, SequenceTheorems, TLAPS

\* Every place of the part has one of I, in the same order, and every one of I is there.
LEMMA RankFacts ==
  ASSUME NEW n \in Nat, NEW I \in SUBSET (1 .. n)
  PROVE  /\ IsFiniteSet(I) /\ Cardinality(I) \in Nat /\ Cardinality(I) <= n
         /\ \A i \in I : Rank(I, i) \in 1 .. Cardinality(I)
         /\ \A i, k \in I : i < k => Rank(I, i) < Rank(I, k)
         /\ \A j \in 1 .. Cardinality(I) : \E i \in I : Rank(I, i) = j
<1>. DEFINE Below(i) == {k \in I : k <= i}
<1>1. IsFiniteSet(I) /\ Cardinality(I) \in Nat /\ Cardinality(I) <= n
  <2>1. 1 \in Int /\ n \in Int
    OBVIOUS
  <2>2. IsFiniteSet(1 .. n) /\ Cardinality(1 .. n) = IF 1 > n THEN 0 ELSE n - 1 + 1
    BY <2>1, FS_Interval, Zenon
  <2>3. IsFiniteSet(I) /\ Cardinality(I) <= Cardinality(1 .. n)
    BY <2>2, FS_Subset
  <2>4. Cardinality(1 .. n) = n
    BY <2>2
  <2>. QED  BY <2>3, <2>4, FS_CardinalityType
<1>2. \A i \in I : IsFiniteSet(Below(i)) /\ Cardinality(Below(i)) \in Nat
  BY <1>1, FS_Subset, FS_CardinalityType
<1>3. ASSUME NEW i \in I PROVE Rank(I, i) \in 1 .. Cardinality(I)
  <2>1. Cardinality(Below(i)) <= Cardinality(I) /\ Cardinality(Below(i)) \in Nat
    BY <1>1, FS_Subset, FS_CardinalityType
  <2>2. i \in Below(i)
    OBVIOUS
  <2>3. Cardinality(Below(i)) # 0
    BY <1>2, <2>2, FS_EmptySet
  <2>. QED  BY <1>1, <2>1, <2>3 DEF Rank
<1>4. ASSUME NEW i \in I, NEW k \in I, i < k PROVE Rank(I, i) < Rank(I, k)
  <2>0. \A x \in I : x \in Int
    OBVIOUS
  <2>a. \A x \in I : x <= i => x <= k
    BY <1>4, <2>0
  <2>1. Below(i) \in SUBSET Below(k) /\ k \in Below(k) /\ k \notin Below(i)
    <3>1. k <= k /\ ~ (k <= i)
      BY <1>4, <2>0
    <3>2. Below(i) \in SUBSET Below(k)
      BY <2>a
    <3>. QED  BY <3>1, <3>2
  <2>2. Cardinality(Below(i)) <= Cardinality(Below(k)) /\ Cardinality(Below(i)) # Cardinality(Below(k))
    BY <1>2, <2>1, FS_Subset
  <2>. QED  BY <1>2, <2>2 DEF Rank
<1>5. ASSUME NEW j \in 1 .. Cardinality(I) PROVE \E i \in I : Rank(I, i) = j
  <2>. DEFINE f == [i \in I |-> Rank(I, i)]
              c == Cardinality(I)
  <2>1. f \in [I -> 1 .. c]
    BY <1>3
  <2>2. \A i, k \in I : f[i] = f[k] => i = k
    <3> SUFFICES ASSUME NEW i \in I, NEW k \in I, i # k PROVE Rank(I, i) # Rank(I, k)
      OBVIOUS
    <3>1. i < k \/ k < i
      OBVIOUS
    <3>2. Rank(I, i) \in Int /\ Rank(I, k) \in Int
      BY <1>3
    <3>. QED  BY <1>4, <3>1, <3>2
  <2>3. f \in Injection(I, 1 .. c)
    BY <2>1, <2>2 DEF Injection, IsInjective
  <2>. HIDE DEF f, c
  <2>4. c \in Nat
    BY <1>1 DEF c
  <2>5. IsFiniteSet(1 .. c) /\ Cardinality(1 .. c) = c
    <3>1. 1 \in Int /\ c \in Int
      BY <2>4
    <3>2. IsFiniteSet(1 .. c) /\ Cardinality(1 .. c) = IF 1 > c THEN 0 ELSE c - 1 + 1
      BY <3>1, FS_Interval, Zenon
    <3>. QED  BY <2>4, <3>2
  <2>6. f \in Surjection(I, 1 .. c)
    BY <2>3, <2>5, FS_Injection DEF c
  <2>7. PICK i \in I : f[i] = j
    BY <2>6 DEF Surjection, c
  <2>. QED  BY <2>7 DEF f
<1>. QED
  BY <1>1, <1>3, <1>4, <1>5

LEMMA PlacesOf ==
  ASSUME NEW S, NEW q \in Seq(S), NEW I \in SUBSET DOMAIN q
  PROVE  /\ AtPlaces(q, I) \in Seq(S)
         /\ Len(AtPlaces(q, I)) = Cardinality(I) /\ Cardinality(I) \in Nat
         /\ Cardinality(I) <= Len(q)
         /\ \E p \in [1 .. Cardinality(I) -> I] :
              /\ \A j \in 1 .. Cardinality(I) : AtPlaces(q, I)[j] = q[p[j]]
              /\ \A j, k \in 1 .. Cardinality(I) : j < k => p[j] < p[k]
              /\ \A i \in I : \E j \in 1 .. Cardinality(I) : p[j] = i
<1>. DEFINE c == Cardinality(I)
            p == [j \in 1 .. c |-> CHOOSE i \in I : Rank(I, i) = j]
<1>1. /\ Len(q) \in Nat /\ DOMAIN q = 1 .. Len(q) /\ \A i \in DOMAIN q : q[i] \in S
  BY LenProperties, ElementOfSeq
<1>2. /\ c \in Nat /\ c <= Len(q)
      /\ \A i \in I : Rank(I, i) \in 1 .. c
      /\ \A i, k \in I : i < k => Rank(I, i) < Rank(I, k)
      /\ \A j \in 1 .. c : \E i \in I : Rank(I, i) = j
  BY <1>1, RankFacts
<1>. HIDE DEF c
<1>3. \A j \in 1 .. c : p[j] \in I /\ Rank(I, p[j]) = j
  BY <1>2
<1>4. p \in [1 .. c -> I]
  BY <1>3
<1>5. AtPlaces(q, I) = [j \in 1 .. c |-> q[p[j]]]
  BY DEF AtPlaces, c
<1>. HIDE DEF p
<1>6. \A j \in 1 .. c : q[p[j]] \in S
  BY <1>1, <1>3
<1>7. AtPlaces(q, I) \in Seq(S) /\ Len(AtPlaces(q, I)) = c
  <2>1. [j \in 1 .. c |-> q[p[j]]] \in Seq(S)
    BY <1>2, <1>6, IsASeq
  <2>2. Len([j \in 1 .. c |-> q[p[j]]]) = c
    BY <1>2, <2>1, LenProperties
  <2>. QED  BY <1>5, <2>1, <2>2
<1>8. \A j, k \in 1 .. c : j < k => p[j] < p[k]
  <2> SUFFICES ASSUME NEW j \in 1 .. c, NEW k \in 1 .. c, j < k, ~ (p[j] < p[k]) PROVE FALSE
    OBVIOUS
  <2>1. p[j] \in Int /\ p[k] \in Int /\ p[j] \in I /\ p[k] \in I
    BY <1>1, <1>3
  <2>2. p[k] < p[j] \/ p[k] = p[j]
    BY <2>1
  <2>3. Rank(I, p[j]) = j /\ Rank(I, p[k]) = k
    BY <1>3
  <2>. QED  BY <1>2, <2>1, <2>2, <2>3
<1>9. \A i \in I : \E j \in 1 .. c : p[j] = i
  <2> SUFFICES ASSUME NEW i \in I PROVE p[Rank(I, i)] = i
    BY <1>2
  <2>1. Rank(I, i) \in 1 .. c
    BY <1>2
  <2>2. p[Rank(I, i)] \in I /\ Rank(I, p[Rank(I, i)]) = Rank(I, i)
    BY <1>3, <2>1
  <2>3. i \in Int /\ p[Rank(I, i)] \in Int
    BY <1>1, <2>2
  <2>4. p[Rank(I, i)] < i \/ i < p[Rank(I, i)] \/ p[Rank(I, i)] = i
    BY <2>3
  <2>5. Rank(I, i) \in Int
    BY <2>1
  <2>. QED  BY <1>2, <2>2, <2>4, <2>5
<1>. QED
  BY <1>2, <1>4, <1>5, <1>7, <1>8, <1>9 DEF c

-----------------------------------------------------------------------------
\* The lists that fifo_request, fifo_tick and _fifo_merge make.
LEMMA DropList ==
  ASSUME NEW q \in Seq(Seqs), NEW X
  PROVE  /\ Drop(q, X) \in Seq(Seqs)
         /\ ToSet(Drop(q, X)) = ToSet(q) \ X
         /\ IsInjective(q) => IsInjective(Drop(q, X))
<1>. DEFINE I == {i \in DOMAIN q : q[i] \notin X}
            c == Cardinality(I)
            d == Drop(q, X)
<1>1. d = AtPlaces(q, I) /\ I \in SUBSET DOMAIN q
  BY DEF Drop
<1>. HIDE DEF I
<1>2. PICK p \in [1 .. c -> I] :
        /\ \A j \in 1 .. c : d[j] = q[p[j]]
        /\ \A j, k \in 1 .. c : j < k => p[j] < p[k]
        /\ \A i \in I : \E j \in 1 .. c : p[j] = i
  BY <1>1, PlacesOf
<1>3. d \in Seq(Seqs) /\ Len(d) = c /\ c \in Nat
  BY <1>1, PlacesOf
<1>4. DOMAIN d = 1 .. c
  BY <1>3, LenProperties
<1>. HIDE DEF c, d
<1>5. ToSet(d) = ToSet(q) \ X
  <2>1. \A i \in DOMAIN q : i \in I <=> q[i] \notin X
    BY DEF I
  <2>2. ASSUME NEW x \in ToSet(d) PROVE x \in ToSet(q) /\ x \notin X
    <3>1. PICK j \in 1 .. c : x = d[j]
      BY <1>4 DEF ToSet
    <3>2. p[j] \in I /\ x = q[p[j]]
      BY <1>2, <3>1
    <3>. QED  BY <1>1, <2>1, <3>2 DEF ToSet
  <2>3. ASSUME NEW x \in ToSet(q), x \notin X PROVE x \in ToSet(d)
    <3>1. PICK i \in DOMAIN q : x = q[i]
      BY DEF ToSet
    <3>2. PICK j \in 1 .. c : p[j] = i
      BY <1>2, <2>1, <2>3, <3>1
    <3>. QED  BY <1>2, <1>4, <3>1, <3>2 DEF ToSet
  <2>. QED  BY <2>2, <2>3
<1>6. ASSUME IsInjective(q) PROVE IsInjective(d)
  <2> SUFFICES ASSUME NEW j \in 1 .. c, NEW k \in 1 .. c, j < k PROVE d[j] # d[k]
    <3>1. \A j, k \in 1 .. c : j # k => j < k \/ k < j
      OBVIOUS
    <3>. QED  BY <1>4, <3>1 DEF IsInjective
  <2>1. /\ p[j] \in DOMAIN q /\ p[k] \in DOMAIN q /\ p[j] < p[k]
    BY <1>1, <1>2
  <2>2. p[j] # p[k]
    <3>1. DOMAIN q = 1 .. Len(q) /\ Len(q) \in Nat
      BY LenProperties
    <3>. QED  BY <2>1, <3>1
  <2>. QED  BY <1>2, <1>6, <2>1, <2>2 DEF IsInjective
<1>. QED
  BY <1>3, <1>5, <1>6 DEF d

LEMMA AppendList ==
  ASSUME NEW q \in Seq(Seqs), NEW s \in Seqs
  PROVE  /\ Append(q, s) \in Seq(Seqs) /\ Append(q, s) # <<>>
         /\ ToSet(Append(q, s)) = ToSet(q) \cup {s}
         /\ IsInjective(q) /\ s \notin ToSet(q) => IsInjective(Append(q, s))
<1>. DEFINE a == Append(q, s)
<1>1. /\ Len(q) \in Nat /\ DOMAIN q = 1 .. Len(q)
      /\ a \in Seq(Seqs) /\ Len(a) = Len(q) + 1 /\ DOMAIN a = 1 .. Len(a) /\ a # <<>>
      /\ \A i \in DOMAIN q : a[i] = q[i]
      /\ a[Len(q) + 1] = s
  BY LenProperties, AppendProperties
<1>. HIDE DEF a
<1>2. DOMAIN a = DOMAIN q \cup {Len(q) + 1} /\ Len(q) + 1 \notin DOMAIN q
  BY <1>1
<1>. QED
  BY <1>1, <1>2 DEF ToSet, IsInjective, a

LEMMA JoinedList ==
  ASSUME NEW q \in Seq(Seqs), NEW r \in Seq(Seqs)
  PROVE  /\ q \o r \in Seq(Seqs)
         /\ ToSet(q \o r) = ToSet(q) \cup ToSet(r)
         /\ IsInjective(q) /\ IsInjective(r) /\ ToSet(q) \cap ToSet(r) = {}
              => IsInjective(q \o r)
<1>. DEFINE a == q \o r
<1>1. /\ Len(q) \in Nat /\ DOMAIN q = 1 .. Len(q) /\ Len(r) \in Nat /\ DOMAIN r = 1 .. Len(r)
      /\ a \in Seq(Seqs) /\ Len(a) = Len(q) + Len(r) /\ DOMAIN a = 1 .. Len(a)
      /\ \A i \in 1 .. Len(a) : a[i] = IF i <= Len(q) THEN q[i] ELSE r[i - Len(q)]
  BY LenProperties, ConcatProperties
<1>. HIDE DEF a
<1>2. \A i \in DOMAIN q : i \in DOMAIN a /\ a[i] = q[i]
  BY <1>1
<1>3. \A i \in DOMAIN r : Len(q) + i \in DOMAIN a /\ a[Len(q) + i] = r[i]
  <2> SUFFICES ASSUME NEW i \in DOMAIN r
               PROVE  Len(q) + i \in DOMAIN a /\ a[Len(q) + i] = r[i]
    OBVIOUS
  <2>1. Len(q) + i \in 1 .. Len(a) /\ ~ (Len(q) + i <= Len(q)) /\ (Len(q) + i) - Len(q) = i
    BY <1>1
  <2>. QED  BY <1>1, <2>1
<1>4. \A k \in DOMAIN a : k \in DOMAIN q \/ \E i \in DOMAIN r : k = Len(q) + i
  <2> SUFFICES ASSUME NEW k \in DOMAIN a, k \notin DOMAIN q
               PROVE  k - Len(q) \in DOMAIN r /\ k = Len(q) + (k - Len(q))
    OBVIOUS
  <2>. QED  BY <1>1
<1>5. ToSet(a) = ToSet(q) \cup ToSet(r)
  BY <1>2, <1>3, <1>4 DEF ToSet
<1>6. ASSUME IsInjective(q), IsInjective(r), ToSet(q) \cap ToSet(r) = {},
             NEW j \in DOMAIN a, NEW k \in DOMAIN a, a[j] = a[k]
      PROVE  j = k
  <2>1. CASE j \in DOMAIN q /\ k \in DOMAIN q
    BY <1>2, <1>6, <2>1 DEF IsInjective
  <2>2. CASE (j \in DOMAIN q /\ k \notin DOMAIN q) \/ (j \notin DOMAIN q /\ k \in DOMAIN q)
    <3>1. \A i \in DOMAIN q : a[i] \in ToSet(q)
      BY <1>2 DEF ToSet
    <3>2. \A i \in DOMAIN a : i \notin DOMAIN q => a[i] \in ToSet(r)
      BY <1>3, <1>4 DEF ToSet
    <3>. QED  BY <1>6, <2>2, <3>1, <3>2
  <2>3. CASE j \notin DOMAIN q /\ k \notin DOMAIN q
    BY <1>3, <1>4, <1>6, <2>3 DEF IsInjective
  <2>. QED  BY <2>1, <2>2, <2>3
<1>. QED
  BY <1>1, <1>5, <1>6 DEF IsInjective, a

LEMMA NewestList ==
  ASSUME NEW q \in Seq(Seqs)
  PROVE  LET r == SubSeq(q, Most(1, Len(q) - Fit + 1), Len(q))
         IN /\ r \in Seq(Seqs) /\ ToSet(r) \subseteq ToSet(q)
            /\ IsInjective(q) => IsInjective(r)
<1>. DEFINE n == Len(q)
            m == Most(1, n - Fit + 1)
            r == SubSeq(q, m, n)
<1>1. n \in Nat /\ DOMAIN q = 1 .. n /\ \A i \in 1 .. n : q[i] \in Seqs
  BY LenProperties, ElementOfSeq
<1>2. m \in Int /\ m >= 1 /\ m <= n + 1
  BY <1>1, SchedAssumption DEF Most
<1>. HIDE DEF m, n
<1>3. \A i \in m .. n : q[i] \in Seqs
  BY <1>1, <1>2
<1>4. /\ r \in Seq(Seqs) /\ Len(r) = IF m <= n THEN n - m + 1 ELSE 0
      /\ \A i \in 1 .. n - m + 1 : r[i] = q[m + i - 1]
  BY <1>1, <1>2, <1>3, SubSeqProperties
<1>. HIDE DEF r
<1>5. \A i \in DOMAIN r : m + i - 1 \in DOMAIN q /\ r[i] = q[m + i - 1] /\ i \in Int
  <2>1. DOMAIN r = 1 .. Len(r) /\ Len(r) \in Nat
    BY <1>4, LenProperties
  <2> SUFFICES ASSUME NEW i \in 1 .. Len(r)
               PROVE  m + i - 1 \in DOMAIN q /\ r[i] = q[m + i - 1] /\ i \in Int
    BY <2>1
  <2>2. i \in 1 .. n - m + 1
    BY <1>1, <1>2, <1>4, <2>1
  <2>3. m + i - 1 \in 1 .. n /\ i \in Int
    BY <1>1, <1>2, <2>2
  <2>. QED  BY <1>1, <1>4, <2>2, <2>3
<1>6. ToSet(r) \subseteq ToSet(q)
  BY <1>5 DEF ToSet
<1>7. ASSUME IsInjective(q), NEW i \in DOMAIN r, NEW j \in DOMAIN r, r[i] = r[j] PROVE i = j
  <2>1. m + i - 1 = m + j - 1
    BY <1>5, <1>7 DEF IsInjective
  <2>. QED  BY <1>2, <1>5, <2>1
<1>. QED
  BY <1>4, <1>6, <1>7 DEF IsInjective, r, m, n

\* The inductive invariant: the types, the two promises about the lists, and that
\* a T1F carries no number twice (its numbers go back in front of the list when
\* sending fails).
T1fInv ==
  /\ T1fTypeOK /\ NothingForgotten /\ NoNumberTwice
  /\ \A t \in DOMAIN batch : IsInjective(batch[t])

LEMMA T1fInvInit == T1fInit => T1fInv
<1> SUFFICES ASSUME T1fInit PROVE T1fInv
  OBVIOUS
<1>0. <<>> \in Seq(Seqs) /\ <<>> \in Seq(0 .. Hour) /\ Len(<<>>) = 0 /\ ToSet(<<>>) = {} /\ IsInjective(<<>>)
  BY DEF ToSet, IsInjective
<1>1. \A t \in Trackers : pend[t] \in Entry /\ pend[t].seqs = <<>>
  <2>1. \A c \in Channels : [seqs |-> <<>>, ch |-> c, ready |-> 0] \in Entry
    BY <1>0, SchedAssumption DEF Entry
  <2>. QED  BY <2>1 DEF T1fInit
<1>2. T1fTypeOK
  BY <1>0, <1>1, SchedAssumption DEF T1fInit, T1fTypeOK, NoTodo, Nothing
<1>3. NothingForgotten
  BY DEF T1fInit, NothingForgotten
<1>4. NoNumberTwice
  BY <1>0, <1>1 DEF NoNumberTwice
<1>. QED  BY <1>2, <1>3, <1>4 DEF T1fInv, T1fInit, Nothing

\* fifo_request: the number moves to the end of its list.
LEMMA T1fRequest ==
  ASSUME T1fInv, NEW t \in Trackers, NEW c \in Channels, NEW s \in Seqs, Request(t, c, s)
  PROVE  T1fInv'
<1>. DEFINE q == Append(Drop(pend[t].seqs, {s}), s)
            ready == Most(Delay, TrackerGap - since[t])
<1>1. pend[t].seqs \in Seq(Seqs) /\ since[t] \in 0 .. TrackerGap /\ \A u \in Trackers : pend[u] \in Entry
  BY DEF T1fInv, T1fTypeOK, Entry
<1>2. /\ q \in Seq(Seqs)
      /\ ToSet(q) = ToSet(pend[t].seqs) \cup {s}
      /\ IsInjective(pend[t].seqs) => IsInjective(q)
  <2>1. /\ Drop(pend[t].seqs, {s}) \in Seq(Seqs)
        /\ ToSet(Drop(pend[t].seqs, {s})) = ToSet(pend[t].seqs) \ {s}
        /\ IsInjective(pend[t].seqs) => IsInjective(Drop(pend[t].seqs, {s}))
    BY <1>1, DropList
  <2>. DEFINE d == Drop(pend[t].seqs, {s})
  <2>. HIDE DEF d
  <2>2. /\ Append(d, s) \in Seq(Seqs) /\ ToSet(Append(d, s)) = ToSet(d) \cup {s}
        /\ IsInjective(d) /\ s \notin ToSet(d) => IsInjective(Append(d, s))
    BY <2>1, AppendList DEF d
  <2>3. q = Append(d, s)
    BY DEF d
  <2>. QED  BY <2>1, <2>2, <2>3 DEF d
<1>3. ready \in 0 .. TrackerGap
  BY <1>1, SchedAssumption DEF Most
<1>4. /\ pend' = [pend EXCEPT ![t] = [seqs |-> q, ch |-> c, ready |-> ready]]
      /\ reqs < MaxReq /\ reqs' = reqs + 1
      /\ open' = [open EXCEPT ![t] = @ \cup {s}]
      /\ UNCHANGED <<since, chan, hour, known, chans, todo, batch, age>>
  BY DEF Request
<1>. HIDE DEF q, ready
<1>5. [seqs |-> q, ch |-> c, ready |-> ready] \in Entry
  BY <1>2, <1>3 DEF Entry
<1>6. T1fTypeOK'
  <2>1. pend' \in [Trackers -> Entry]
    BY <1>4, <1>5 DEF T1fInv, T1fTypeOK
  <2>2. open' \in [Trackers -> SUBSET Seqs]
    BY <1>4 DEF T1fInv, T1fTypeOK
  <2>3. reqs' \in 0 .. MaxReq
    BY <1>4, SchedAssumption DEF T1fInv, T1fTypeOK
  <2>. QED  BY <1>4, <2>1, <2>2, <2>3 DEF T1fInv, T1fTypeOK
<1>7. /\ pend'[t].seqs = q /\ open'[t] = open[t] \cup {s}
      /\ \A u \in Trackers : u # t => pend'[u] = pend[u] /\ open'[u] = open[u]
  BY <1>4 DEF T1fInv, T1fTypeOK
<1>8. NothingForgotten'
  BY <1>2, <1>4, <1>7 DEF T1fInv, T1fTypeOK, NothingForgotten
<1>9. NoNumberTwice'
  BY <1>2, <1>7 DEF T1fInv, NoNumberTwice
<1>. QED  BY <1>4, <1>6, <1>8, <1>9 DEF T1fInv

\* The start of fifo_tick: the list of the last hour is cut.
LEMMA T1fTickStart ==
  ASSUME T1fInv, TickStart
  PROVE  T1fInv'
<1>. DEFINE recent == AtPlaces(hour, {i \in DOMAIN hour : hour[i] < Hour})
            ready(c) == {t \in Trackers : Waiting(t) /\ pend[t].ready = 0 /\ pend[t].ch = c}
            turn == [c \in Channels |-> IF chan[c] < ChanGap THEN {} ELSE ready(c)]
<1>1. /\ Len(recent) < MaxHour /\ hour' = recent /\ todo' = turn /\ age' = 0
      /\ UNCHANGED <<pend, since, chan, known, chans, batch, reqs, open>>
  BY DEF TickStart
<1>2. hour \in Seq(0 .. Hour) /\ {i \in DOMAIN hour : hour[i] < Hour} \in SUBSET DOMAIN hour
  BY DEF T1fInv, T1fTypeOK
<1>3. recent \in Seq(0 .. Hour)
  BY <1>2, PlacesOf
<1>4. turn \in [Channels -> SUBSET Trackers]
  OBVIOUS
<1>. HIDE DEF recent, turn
<1>5. Len(recent) \in Nat /\ Len(recent) <= MaxHour
  BY <1>1, <1>3, SchedAssumption, LenProperties
<1>6. T1fTypeOK'
  BY <1>1, <1>3, <1>4, <1>5, SchedAssumption DEF T1fInv, T1fTypeOK
<1>. QED  BY <1>1, <1>6 DEF T1fInv, NothingForgotten, NoNumberTwice

\* The turn of a channel: what leaves the list is in the T1F.
LEMMA T1fChannelTurn ==
  ASSUME T1fInv, NEW c \in Channels, ChannelTurn(c)
  PROVE  T1fInv'
<1>. DEFINE here == IF c \in chans THEN todo[c] \cap known ELSE {}
            chosen(t) == SubSeq(pend[t].seqs, Most(1, Len(pend[t].seqs) - Fit + 1), Len(pend[t].seqs))
            left(t) == Drop(pend[t].seqs, ToSet(chosen(t)))
            next(t) == IF left(t) = <<>> THEN 0 ELSE Most(0, TrackerGap - age)
<1>1. PICK cand \in SUBSET here :
        /\ pend' = [t \in Trackers |->
             IF t \in todo[c] \ here
             THEN [pend[t] EXCEPT !.seqs = <<>>, !.ready = 0]
             ELSE IF t \in cand
             THEN [pend[t] EXCEPT !.seqs = left(t), !.ready = next(t)]
             ELSE pend[t]]
        /\ batch' = [t \in cand |-> chosen(t)]
        /\ IF cand = {} THEN UNCHANGED <<chan, hour>>
           ELSE /\ chan' = [chan EXCEPT ![c] = Least(age, ChanGap)]
                /\ hour' = Append(hour, Least(age, Hour))
  BY DEF ChannelTurn
<1>2. /\ MidTick /\ Len(hour) < MaxHour /\ todo' = [todo EXCEPT ![c] = {}]
      /\ UNCHANGED <<since, known, chans, age, reqs>>
      /\ open' = IF c \in chans THEN open
                 ELSE [t \in Trackers |-> IF t \in todo[c] THEN {} ELSE open[t]]
  BY DEF ChannelTurn
<1>3. DOMAIN batch = {}
  BY <1>2 DEF MidTick, Sending
<1>4. \A t \in Trackers : pend[t] \in Entry /\ pend[t].seqs \in Seq(Seqs)
  BY DEF T1fInv, T1fTypeOK, Entry
<1>5. /\ cand \in SUBSET Trackers /\ cand \in SUBSET known /\ cand \in SUBSET todo[c]
      /\ cand \in SUBSET here
  BY DEF T1fInv, T1fTypeOK
<1>6. ASSUME NEW t \in Trackers
      PROVE  /\ chosen(t) \in Seq(Seqs) /\ left(t) \in Seq(Seqs)
             /\ ToSet(chosen(t)) \cup ToSet(left(t)) = ToSet(pend[t].seqs)
             /\ IsInjective(pend[t].seqs) => IsInjective(chosen(t)) /\ IsInjective(left(t))
  <2>1. /\ chosen(t) \in Seq(Seqs) /\ ToSet(chosen(t)) \subseteq ToSet(pend[t].seqs)
        /\ IsInjective(pend[t].seqs) => IsInjective(chosen(t))
    BY <1>4, NewestList
  <2>2. /\ left(t) \in Seq(Seqs) /\ ToSet(left(t)) = ToSet(pend[t].seqs) \ ToSet(chosen(t))
        /\ IsInjective(pend[t].seqs) => IsInjective(left(t))
    BY <1>4, DropList
  <2>. QED  BY <2>1, <2>2
<1>7. age \in Nat /\ age \in Int
  BY SchedAssumption DEF T1fInv, T1fTypeOK
<1>8. \A t \in Trackers : next(t) \in 0 .. TrackerGap
  BY <1>7, SchedAssumption DEF Most
<1>. HIDE DEF chosen, left, next
<1>9. ASSUME NEW t \in Trackers
      PROVE  /\ pend'[t] \in Entry
             /\ t \in todo[c] \ here => pend'[t].seqs = <<>>
             /\ t \in cand => pend'[t].seqs = left(t)
             /\ t \notin cand /\ t \notin todo[c] \ here => pend'[t].seqs = pend[t].seqs
  <2>1. CASE t \in todo[c] \ here
    <3>1. pend'[t] = [pend[t] EXCEPT !.seqs = <<>>, !.ready = 0]
      BY <1>1, <2>1
    <3>2. <<>> \in Seq(Seqs) /\ 0 \in 0 .. TrackerGap
      BY SchedAssumption
    <3>. QED  BY <1>4, <1>5, <2>1, <3>1, <3>2 DEF Entry
  <2>2. CASE t \in cand
    <3>1. pend'[t] = [pend[t] EXCEPT !.seqs = left(t), !.ready = next(t)]
      BY <1>1, <1>5, <2>2
    <3>. QED  BY <1>4, <1>5, <1>6, <1>8, <2>2, <3>1 DEF Entry
  <2>3. CASE t \notin cand /\ t \notin todo[c] \ here
    BY <1>1, <1>4, <2>3
  <2>. QED  BY <2>1, <2>2, <2>3
<1>10. DOMAIN batch' = cand /\ \A t \in cand : batch'[t] = chosen(t)
  BY <1>1
<1>11. T1fTypeOK'
  <2>1. pend' \in [Trackers -> Entry]
    <3>1. DOMAIN pend' = Trackers /\ pend' = [t \in Trackers |-> pend'[t]]
      BY <1>1
    <3>. QED  BY <1>9, <3>1
  <2>2. chan' \in [Channels -> 0 .. ChanGap]
    <3>1. Least(age, ChanGap) \in 0 .. ChanGap
      BY <1>7, SchedAssumption DEF Least
    <3>. QED  BY <1>1, <3>1 DEF T1fInv, T1fTypeOK
  <2>3. hour' \in Seq(0 .. Hour) /\ Len(hour') <= MaxHour
    <3>1. Least(age, Hour) \in 0 .. Hour
      BY <1>7, SchedAssumption DEF Least
    <3>2. hour \in Seq(0 .. Hour) /\ Len(hour) \in Nat
      BY LenProperties DEF T1fInv, T1fTypeOK
    <3>3. /\ Append(hour, Least(age, Hour)) \in Seq(0 .. Hour)
          /\ Len(Append(hour, Least(age, Hour))) = Len(hour) + 1
      BY <3>1, <3>2, AppendProperties
    <3>4. Len(hour) + 1 <= MaxHour
      BY <1>2, <3>2, SchedAssumption
    <3>5. CASE cand = {}
      BY <1>1, <3>5 DEF T1fInv, T1fTypeOK
    <3>6. CASE cand # {}
      BY <1>1, <3>3, <3>4, <3>6
    <3>. QED  BY <3>5, <3>6
  <2>4. todo' \in [Channels -> SUBSET Trackers]
    BY <1>2 DEF T1fInv, T1fTypeOK
  <2>5. DOMAIN batch' \subseteq Trackers /\ \A t \in DOMAIN batch' : batch'[t] \in Seq(Seqs)
    BY <1>5, <1>6, <1>10
  <2>6. open' \in [Trackers -> SUBSET Seqs]
    BY <1>2 DEF T1fInv, T1fTypeOK
  <2>. QED  BY <1>2, <2>1, <2>2, <2>3, <2>4, <2>5, <2>6 DEF T1fInv, T1fTypeOK
<1>12. NothingForgotten'
  <2> SUFFICES ASSUME NEW t \in known
               PROVE  open'[t] \subseteq ToSet(pend'[t].seqs) \cup
                        (IF t \in DOMAIN batch' THEN ToSet(batch'[t]) ELSE {})
    BY <1>2 DEF NothingForgotten
  <2>1. t \in Trackers /\ open[t] \subseteq ToSet(pend[t].seqs)
    BY <1>3 DEF T1fInv, T1fTypeOK, NothingForgotten
  <2>a. open'[t] = open[t] \/ (open'[t] = {} /\ t \in todo[c] \ here)
    BY <1>2, <2>1
  <2>2. CASE t \in cand
    BY <1>6, <1>9, <1>10, <2>1, <2>2, <2>a
  <2>3. CASE t \notin cand /\ t \notin todo[c] \ here
    BY <1>9, <2>1, <2>3, <2>a
  <2>4. CASE t \in todo[c] \ here
    <3>1. t \in todo[c] /\ c \notin chans
      BY <2>4
    <3>. QED  BY <1>2, <2>1, <3>1
  <2>. QED  BY <2>2, <2>3, <2>4
<1>13. NoNumberTwice'
  <2>1. IsInjective(<<>>)
    BY DEF IsInjective
  <2>. QED  BY <1>6, <1>9, <2>1 DEF T1fInv, NoNumberTwice
<1>14. \A t \in DOMAIN batch' : IsInjective(batch'[t])
  BY <1>5, <1>6, <1>10 DEF T1fInv, NoNumberTwice
<1>. QED  BY <1>11, <1>12, <1>13, <1>14 DEF T1fInv

\* The T1F went out: its numbers are asked for no more.
LEMMA T1fSendDone ==
  ASSUME T1fInv, SendDone
  PROVE  T1fInv'
<1>1. /\ since' = [t \in Trackers |-> IF t \in DOMAIN batch THEN Least(age, TrackerGap) ELSE since[t]]
      /\ open' = [t \in Trackers |-> IF t \in DOMAIN batch THEN open[t] \ ToSet(batch[t]) ELSE open[t]]
      /\ batch' = Nothing /\ age' = Later
      /\ UNCHANGED <<pend, chan, hour, known, chans, todo, reqs>>
  BY DEF SendDone
<1>2. age' \in 0 .. SendMax
  <2>1. age \in 0 .. SendMax /\ 0 \in 0 .. SendMax
    BY SchedAssumption DEF T1fInv, T1fTypeOK
  <2>. QED  BY <1>1, <2>1 DEF Later
<1>3. Least(age, TrackerGap) \in 0 .. TrackerGap
  BY SchedAssumption DEF T1fInv, T1fTypeOK, Least
<1>4. DOMAIN batch' = {}
  BY <1>1 DEF Nothing
<1>5. T1fTypeOK'
  <2>1. since' \in [Trackers -> 0 .. TrackerGap]
    BY <1>1, <1>3 DEF T1fInv, T1fTypeOK
  <2>2. open' \in [Trackers -> SUBSET Seqs]
    BY <1>1 DEF T1fInv, T1fTypeOK
  <2>. QED  BY <1>1, <1>2, <1>4, <2>1, <2>2 DEF T1fInv, T1fTypeOK
<1>6. NothingForgotten'
  <2>1. \A t \in known : t \in Trackers
    BY DEF T1fInv, T1fTypeOK
  <2>. QED  BY <1>1, <1>4, <2>1 DEF T1fInv, NothingForgotten
<1>. QED  BY <1>1, <1>4, <1>5, <1>6 DEF T1fInv, NoNumberTwice

\* _fifo_merge: the numbers go back in front of what came in meanwhile.
LEMMA T1fSendFails ==
  ASSUME T1fInv, SendFails
  PROVE  T1fInv'
<1>. DEFINE again == Most(0, ChanGap - age)
            back(t) == batch[t] \o Drop(pend[t].seqs, ToSet(batch[t]))
            next(t) == IF Waiting(t) THEN Least(pend[t].ready, again) ELSE again
<1>1. /\ pend' = [t \in Trackers |->
           IF t \notin DOMAIN batch THEN pend[t]
           ELSE [pend[t] EXCEPT !.seqs = back(t), !.ready = next(t)]]
      /\ batch' = Nothing /\ age' = Later
      /\ UNCHANGED <<since, chan, hour, known, chans, todo, reqs, open>>
  <2>1. ASSUME NEW t \in Trackers
        PROVE  [pend[t] EXCEPT !.seqs = batch[t] \o Drop(@, ToSet(batch[t])),
                               !.ready = IF Waiting(t) THEN Least(@, again) ELSE again]
               = [pend[t] EXCEPT !.seqs = back(t), !.ready = next(t)]
    BY DEF T1fInv, T1fTypeOK, Entry
  <2>. HIDE DEF again, back, next
  <2>. QED  BY <2>1 DEF SendFails, again
<1>2. age' \in 0 .. SendMax
  <2>1. age \in 0 .. SendMax /\ 0 \in 0 .. SendMax
    BY SchedAssumption DEF T1fInv, T1fTypeOK
  <2>. QED  BY <1>1, <2>1 DEF Later
<1>3. \A t \in Trackers : pend[t] \in Entry /\ pend[t].seqs \in Seq(Seqs) /\ pend[t].ready \in 0 .. TrackerGap
  BY DEF T1fInv, T1fTypeOK, Entry
<1>4. ASSUME NEW t \in DOMAIN batch
      PROVE  /\ t \in Trackers /\ back(t) \in Seq(Seqs)
             /\ ToSet(back(t)) = ToSet(batch[t]) \cup ToSet(pend[t].seqs)
             /\ IsInjective(back(t))
  <2>1. t \in Trackers /\ batch[t] \in Seq(Seqs) /\ IsInjective(batch[t]) /\ IsInjective(pend[t].seqs)
    BY DEF T1fInv, T1fTypeOK, NoNumberTwice
  <2>2. /\ Drop(pend[t].seqs, ToSet(batch[t])) \in Seq(Seqs)
        /\ ToSet(Drop(pend[t].seqs, ToSet(batch[t]))) = ToSet(pend[t].seqs) \ ToSet(batch[t])
        /\ IsInjective(Drop(pend[t].seqs, ToSet(batch[t])))
    BY <1>3, <2>1, DropList
  <2>3. ToSet(batch[t]) \cap ToSet(Drop(pend[t].seqs, ToSet(batch[t]))) = {}
    BY <2>2
  <2>4. /\ back(t) \in Seq(Seqs)
        /\ ToSet(back(t)) = ToSet(batch[t]) \cup ToSet(Drop(pend[t].seqs, ToSet(batch[t])))
        /\ IsInjective(back(t))
    BY <2>1, <2>2, <2>3, JoinedList
  <2>. QED  BY <2>1, <2>2, <2>4
<1>5. \A t \in Trackers : next(t) \in 0 .. TrackerGap
  BY <1>3, SchedAssumption DEF Most, Least, T1fInv, T1fTypeOK
<1>. HIDE DEF again, back, next
<1>6. DOMAIN batch' = {}
  BY <1>1 DEF Nothing
<1>7. ASSUME NEW t \in Trackers
      PROVE  /\ pend'[t] \in Entry
             /\ t \in DOMAIN batch => pend'[t].seqs = back(t)
             /\ t \notin DOMAIN batch => pend'[t].seqs = pend[t].seqs
  <2>1. CASE t \in DOMAIN batch
    <3>1. pend'[t] = [pend[t] EXCEPT !.seqs = back(t), !.ready = next(t)]
      BY <1>1, <2>1
    <3>. QED  BY <1>3, <1>4, <1>5, <2>1, <3>1 DEF Entry
  <2>2. CASE t \notin DOMAIN batch
    BY <1>1, <1>3, <2>2
  <2>. QED  BY <2>1, <2>2
<1>8. T1fTypeOK'
  <2>1. pend' \in [Trackers -> Entry]
    <3>1. DOMAIN pend' = Trackers /\ pend' = [t \in Trackers |-> pend'[t]]
      BY <1>1
    <3>. QED  BY <1>7, <3>1
  <2>. QED  BY <1>1, <1>2, <1>6, <2>1 DEF T1fInv, T1fTypeOK
<1>9. NothingForgotten'
  <2> SUFFICES ASSUME NEW t \in known
               PROVE  open[t] \subseteq ToSet(pend'[t].seqs)
    BY <1>1, <1>6 DEF NothingForgotten
  <2>1. /\ t \in Trackers
        /\ open[t] \subseteq ToSet(pend[t].seqs) \cup (IF t \in DOMAIN batch THEN ToSet(batch[t]) ELSE {})
    BY DEF T1fInv, T1fTypeOK, NothingForgotten
  <2>2. CASE t \in DOMAIN batch
    BY <1>4, <1>7, <2>1, <2>2
  <2>3. CASE t \notin DOMAIN batch
    BY <1>7, <2>1, <2>3
  <2>. QED  BY <2>2, <2>3
<1>10. NoNumberTwice'
  BY <1>4, <1>7 DEF T1fInv, NoNumberTwice
<1>. QED  BY <1>6, <1>8, <1>9, <1>10 DEF T1fInv

\* A unit of time only changes the moments.
LEMMA T1fTimePasses ==
  ASSUME T1fInv, TimePasses
  PROVE  T1fInv'
<1>1. /\ Sending => age < SendMax
      /\ pend' = [t \in Trackers |-> [pend[t] EXCEPT !.ready = Most(0, @ - 1)]]
      /\ since' = [t \in Trackers |-> Least(since[t] + 1, TrackerGap)]
      /\ chan' = [c \in Channels |-> Least(chan[c] + 1, ChanGap)]
      /\ hour' = [i \in DOMAIN hour |-> Least(hour[i] + 1, Hour)]
      /\ age' = IF Sending THEN age + 1 ELSE age
      /\ UNCHANGED <<known, chans, todo, batch, reqs, open>>
  BY DEF TimePasses
<1>2. ASSUME NEW t \in Trackers
      PROVE  pend'[t] \in Entry /\ pend'[t].seqs = pend[t].seqs
  <2>1. pend[t] \in Entry /\ pend[t].ready \in 0 .. TrackerGap
    BY DEF T1fInv, T1fTypeOK, Entry
  <2>2. pend'[t] = [pend[t] EXCEPT !.ready = Most(0, pend[t].ready - 1)]
    BY <1>1, <2>1 DEF Entry
  <2>3. Most(0, pend[t].ready - 1) \in 0 .. TrackerGap
    BY <2>1, SchedAssumption DEF Most
  <2>. HIDE DEF Most
  <2>. QED  BY <2>1, <2>2, <2>3 DEF Entry
<1>3. T1fTypeOK'
  <2>1. pend' \in [Trackers -> Entry]
    <3>1. DOMAIN pend' = Trackers /\ pend' = [t \in Trackers |-> pend'[t]]
      BY <1>1
    <3>. QED  BY <1>2, <3>1
  <2>2. since' \in [Trackers -> 0 .. TrackerGap]
    <3>1. \A t \in Trackers : Least(since[t] + 1, TrackerGap) \in 0 .. TrackerGap
      BY SchedAssumption DEF T1fInv, T1fTypeOK, Least
    <3>. QED  BY <1>1, <3>1
  <2>3. chan' \in [Channels -> 0 .. ChanGap]
    <3>1. \A c \in Channels : Least(chan[c] + 1, ChanGap) \in 0 .. ChanGap
      BY SchedAssumption DEF T1fInv, T1fTypeOK, Least
    <3>. QED  BY <1>1, <3>1
  <2>4. hour' \in Seq(0 .. Hour) /\ Len(hour') <= MaxHour
    <3>1. /\ Len(hour) \in Nat /\ DOMAIN hour = 1 .. Len(hour) /\ Len(hour) <= MaxHour
          /\ \A i \in 1 .. Len(hour) : hour[i] \in 0 .. Hour
      BY LenProperties, ElementOfSeq DEF T1fInv, T1fTypeOK
    <3>2. \A i \in 1 .. Len(hour) : Least(hour[i] + 1, Hour) \in 0 .. Hour
      BY <3>1, SchedAssumption DEF Least
    <3>3. hour' = [i \in 1 .. Len(hour) |-> Least(hour[i] + 1, Hour)]
      BY <1>1, <3>1
    <3>4. hour' \in Seq(0 .. Hour)
      BY <3>1, <3>2, <3>3, IsASeq
    <3>5. DOMAIN hour' = 1 .. Len(hour)
      BY <3>3
    <3>6. Len(hour') = Len(hour)
      BY <3>1, <3>4, <3>5, LenProperties
    <3>. QED  BY <3>1, <3>4, <3>6
  <2>5. age' \in 0 .. SendMax
    BY <1>1, SchedAssumption DEF T1fInv, T1fTypeOK
  <2>. QED  BY <1>1, <2>1, <2>2, <2>3, <2>4, <2>5 DEF T1fInv, T1fTypeOK
<1>4. NothingForgotten'
  <2>1. \A t \in known : t \in Trackers
    BY DEF T1fInv, T1fTypeOK
  <2>. QED  BY <1>1, <1>2, <2>1 DEF T1fInv, NothingForgotten
<1>5. NoNumberTwice'
  BY <1>2 DEF T1fInv, NoNumberTwice
<1>. QED  BY <1>1, <1>3, <1>4, <1>5 DEF T1fInv

\* The end of a capped tick, a tracker without a key, a channel that goes, a restart.
LEMMA T1fOthers ==
  ASSUME T1fInv,
         \/ TickCapped \/ (\E t \in Trackers : KeyGone(t))
         \/ (\E c \in Channels : ChannelGone(c)) \/ Restart
  PROVE  T1fInv'
<1>1. CASE TickCapped
  <2>1. todo' \in [Channels -> SUBSET Trackers]
    BY <1>1 DEF TickCapped, NoTodo
  <2>. QED  BY <1>1, <2>1 DEF TickCapped, T1fInv, T1fTypeOK, NothingForgotten, NoNumberTwice
<1>2. ASSUME NEW t \in Trackers, KeyGone(t) PROVE T1fInv'
  <2>1. open' \in [Trackers -> SUBSET Seqs]
    BY <1>2 DEF KeyGone, T1fInv, T1fTypeOK
  <2>2. known' \subseteq Trackers /\ known' \subseteq known
    BY <1>2 DEF KeyGone, T1fInv, T1fTypeOK
  <2>3. \A u \in known' : open'[u] = open[u]
    BY <1>2 DEF KeyGone, T1fInv, T1fTypeOK
  <2>. QED  BY <1>2, <2>1, <2>2, <2>3 DEF KeyGone, T1fInv, T1fTypeOK, NothingForgotten, NoNumberTwice
<1>3. CASE Restart
  <2>1. ASSUME NEW t \in Trackers PROVE pend'[t] \in Entry /\ pend'[t].seqs = <<>>
    <3>1. pend[t] \in Entry /\ <<>> \in Seq(Seqs) /\ 0 \in 0 .. TrackerGap
      BY SchedAssumption DEF T1fInv, T1fTypeOK
    <3>2. pend'[t] = [pend[t] EXCEPT !.seqs = <<>>, !.ready = 0]
      BY <1>3 DEF Restart
    <3>. QED  BY <3>1, <3>2 DEF Entry
  <2>2. pend' \in [Trackers -> Entry]
    <3>1. DOMAIN pend' = Trackers /\ pend' = [t \in Trackers |-> pend'[t]]
      BY <1>3 DEF Restart
    <3>. QED  BY <2>1, <3>1
  <2>3. /\ since' \in [Trackers -> 0 .. TrackerGap] /\ chan' \in [Channels -> 0 .. ChanGap]
        /\ todo' \in [Channels -> SUBSET Trackers] /\ open' \in [Trackers -> SUBSET Seqs]
    <3>1. TrackerGap \in 0 .. TrackerGap /\ ChanGap \in 0 .. ChanGap
      BY SchedAssumption
    <3>2. since' \in [Trackers -> 0 .. TrackerGap]
      BY <1>3, <3>1 DEF Restart
    <3>3. chan' \in [Channels -> 0 .. ChanGap]
      BY <1>3, <3>1 DEF Restart
    <3>4. todo' \in [Channels -> SUBSET Trackers] /\ open' \in [Trackers -> SUBSET Seqs]
      BY <1>3 DEF Restart, NoTodo
    <3>. QED  BY <3>2, <3>3, <3>4
  <2>4. hour' \in Seq(0 .. Hour) /\ Len(hour') <= MaxHour /\ age' \in 0 .. SendMax
    <3>1. hour' = <<>> /\ age' = 0 /\ Len(<<>>) = 0
      BY <1>3 DEF Restart
    <3>. QED  BY <3>1, SchedAssumption
  <2>5. DOMAIN batch' = {}
    BY <1>3 DEF Restart, Nothing
  <2>6. \A t \in Trackers : open'[t] = {}
    BY <1>3 DEF Restart
  <2>7. IsInjective(<<>>)
    BY DEF IsInjective
  <2>8. /\ known' = known /\ reqs' = reqs /\ known \subseteq Trackers
        /\ chans' = chans /\ chans \subseteq Channels
    BY <1>3 DEF Restart, T1fInv, T1fTypeOK
  <2>9. T1fTypeOK'
    BY <2>2, <2>3, <2>4, <2>5, <2>8 DEF T1fInv, T1fTypeOK
  <2>10. NothingForgotten'
    BY <2>6, <2>8 DEF NothingForgotten
  <2>11. NoNumberTwice'
    BY <2>1, <2>7 DEF NoNumberTwice
  <2>. QED  BY <2>5, <2>9, <2>10, <2>11 DEF T1fInv
<1>4. ASSUME NEW c \in Channels, ChannelGone(c) PROVE T1fInv'
  BY <1>4 DEF ChannelGone, T1fInv, T1fTypeOK, NothingForgotten, NoNumberTwice
<1>. QED  BY <1>1, <1>2, <1>3, <1>4

\* What the scheduler of T1F messages keeps through every handler, a failing radio
\* and restarts (fifo_request, fifo_tick, _fifo_merge).
THEOREM T1fInvariant == T1fSpec => []T1fInv
<1>1. T1fInv /\ [T1fNext]_t1fVars => T1fInv'
  <2> SUFFICES ASSUME T1fInv, [T1fNext]_t1fVars PROVE T1fInv'
    OBVIOUS
  <2>1. CASE UNCHANGED t1fVars
    BY <2>1 DEF t1fVars, T1fInv, T1fTypeOK, NothingForgotten, NoNumberTwice
  <2>. QED
    BY <2>1, T1fRequest, T1fTickStart, T1fChannelTurn, T1fSendDone, T1fSendFails,
       T1fTimePasses, T1fOthers DEF T1fNext
<1>. QED  BY T1fInvInit, <1>1, PTL DEF T1fSpec

\* T1fTypeOK: among the rest, at most T1F_MAX_PER_HOUR entries in _fifo_hour, and
\* no tracker is due later than one interval from now.
THEOREM T1fTyped == T1fSpec => []T1fTypeOK
<1>1. T1fInv => T1fTypeOK
  BY DEF T1fInv
<1>. QED  BY T1fInvariant, <1>1, PTL

\* A number that was asked for waits or is being sent, until a T1F with it went
\* out (_fifo_merge).
THEOREM T1fForgetsNothing == T1fSpec => []NothingForgotten
<1>1. T1fInv => NothingForgotten
  BY DEF T1fInv
<1>. QED  BY T1fInvariant, <1>1, PTL

\* No number waits twice (fifo_request, _fifo_merge).
THEOREM T1fNoTwice == T1fSpec => []NoNumberTwice
<1>1. T1fInv => NoNumberTwice
  BY DEF T1fInv
<1>. QED  BY T1fInvariant, <1>1, PTL

\* Nobody waits for the numbers of a tracker that was deleted: that is why the turn
\* of a channel may drop them.
Gone == \A t \in Trackers : t \notin known => open[t] = {}

LEMMA GoneKept == T1fInv /\ Gone /\ [T1fNext]_t1fVars => Gone'
<1> SUFFICES ASSUME T1fInv, Gone, [T1fNext]_t1fVars PROVE Gone'
  OBVIOUS
<1>1. CASE \/ UNCHANGED t1fVars \/ TickStart \/ TickCapped \/ SendFails \/ TimePasses
           \/ (\E c \in Channels : ChannelGone(c))
  <2>1. UNCHANGED <<known, open>>
    BY <1>1 DEF t1fVars, TickStart, TickCapped, SendFails, TimePasses, ChannelGone
  <2>. QED  BY <2>1 DEF Gone
<1>6. CASE \E c \in Channels : ChannelTurn(c)
  <2>1. known' = known /\ \A t \in Trackers : open'[t] = open[t] \/ open'[t] = {}
    BY <1>6 DEF ChannelTurn
  <2>. QED  BY <2>1 DEF Gone
<1>2. ASSUME NEW t \in Trackers, NEW c \in Channels, NEW s \in Seqs, Request(t, c, s) PROVE Gone'
  BY <1>2 DEF Request, Gone, T1fInv, T1fTypeOK
<1>3. CASE SendDone
  BY <1>3 DEF SendDone, Gone
<1>4. ASSUME NEW t \in Trackers, KeyGone(t) PROVE Gone'
  BY <1>4 DEF KeyGone, Gone, T1fInv, T1fTypeOK
<1>5. CASE Restart
  BY <1>5 DEF Restart, Gone
<1>. QED  BY <1>1, <1>2, <1>3, <1>4, <1>5, <1>6 DEF T1fNext

\* The list of a tracker as T1fList sees it.
Held(t) == ToSet(pend[t].seqs)
Out(t) == IF t \in DOMAIN batch THEN ToSet(batch[t]) ELSE {}
ListStep(t) == [List(t)!ListNext]_(List(t)!listVars)

LEMMA ListMoves ==
  ASSUME NEW t \in Trackers,
         \/ UNCHANGED <<Held(t), Out(t), open[t]>>
         \/ \E s \in Seqs : /\ Held(t)' = Held(t) \cup {s} /\ open'[t] = open[t] \cup {s}
                            /\ Out(t)' = Out(t)
         \/ \E S \in SUBSET Held(t) : /\ Out(t) = {} /\ Held(t)' = Held(t) \ S /\ Out(t)' = S
                                      /\ open'[t] = open[t]
         \/ Out(t)' = {} /\ open'[t] = open[t] \ Out(t) /\ Held(t)' = Held(t)
         \/ Out(t)' = {} /\ open'[t] = open[t] /\ Held(t)' = Held(t) \cup Out(t)
         \/ open'[t] = {} /\ UNCHANGED <<Held(t), Out(t)>>
         \/ open[t] = {} /\ Held(t)' = {} /\ UNCHANGED <<Out(t), open[t]>>
         \/ Held(t)' = {} /\ Out(t)' = {} /\ open'[t] = {}
  PROVE  ListStep(t)
  BY DEF ListStep, List!ListNext, List!listVars, List!Ask, List!Take, List!Carried,
         List!PutBack, List!Abandon, List!Discard, List!StartAnew, Held, Out

\* fifo_request asks for one number of one tracker.
LEMMA RequestMoves ==
  ASSUME T1fInv, NEW u \in Trackers, NEW c \in Channels, NEW s \in Seqs, Request(u, c, s),
         NEW t \in Trackers
  PROVE  ListStep(t)
<1>. DEFINE d == Drop(pend[u].seqs, {s})
            ready == Most(Delay, TrackerGap - since[u])
<1>1. /\ pend \in [Trackers -> Entry] /\ open \in [Trackers -> SUBSET Seqs]
      /\ pend[u].seqs \in Seq(Seqs)
  BY DEF T1fInv, T1fTypeOK, Entry
<1>2. /\ pend' = [pend EXCEPT ![u] = [seqs |-> Append(d, s), ch |-> c, ready |-> ready]]
      /\ open' = [open EXCEPT ![u] = @ \cup {s}] /\ batch' = batch
  BY DEF Request
<1>3. d \in Seq(Seqs) /\ ToSet(d) = ToSet(pend[u].seqs) \ {s}
  BY <1>1, DropList
<1>. HIDE DEF d, ready
<1>4. ToSet(Append(d, s)) = ToSet(d) \cup {s}
  BY <1>3, AppendList
<1>5. Out(t)' = Out(t)
  BY <1>2 DEF Out
<1>6. CASE t = u
  <2>1. pend'[t].seqs = Append(d, s) /\ open'[t] = open[t] \cup {s}
    BY <1>1, <1>2, <1>6
  <2>2. Held(t)' = Held(t) \cup {s}
    BY <1>3, <1>4, <1>6, <2>1 DEF Held
  <2>. QED  BY <1>5, <2>1, <2>2, ListMoves
<1>7. CASE t # u
  <2>1. pend'[t] = pend[t] /\ open'[t] = open[t]
    BY <1>1, <1>2, <1>7
  <2>. QED  BY <1>5, <2>1, ListMoves DEF Held
<1>. QED  BY <1>6, <1>7

\* The turn of a channel takes from the list what the T1F carries.
LEMMA TurnMoves ==
  ASSUME T1fInv, Gone, NEW c \in Channels, ChannelTurn(c), NEW t \in Trackers
  PROVE  ListStep(t)
<1>. DEFINE here == IF c \in chans THEN todo[c] \cap known ELSE {}
            chosen(u) == SubSeq(pend[u].seqs, Most(1, Len(pend[u].seqs) - Fit + 1), Len(pend[u].seqs))
            left(u) == Drop(pend[u].seqs, ToSet(chosen(u)))
            next(u) == IF left(u) = <<>> THEN 0 ELSE Most(0, TrackerGap - age)
<1>1. PICK cand \in SUBSET here :
        /\ pend' = [u \in Trackers |->
             IF u \in todo[c] \ here
             THEN [pend[u] EXCEPT !.seqs = <<>>, !.ready = 0]
             ELSE IF u \in cand
             THEN [pend[u] EXCEPT !.seqs = left(u), !.ready = next(u)]
             ELSE pend[u]]
        /\ batch' = [u \in cand |-> chosen(u)]
  BY DEF ChannelTurn
<1>2. /\ DOMAIN batch = {}
      /\ open' = IF c \in chans THEN open
                 ELSE [u \in Trackers |-> IF u \in todo[c] THEN {} ELSE open[u]]
  BY DEF ChannelTurn, MidTick, Sending
<1>3. pend[t] \in Entry /\ pend[t].seqs \in Seq(Seqs)
  BY DEF T1fInv, T1fTypeOK, Entry
<1>4. ToSet(chosen(t)) \subseteq ToSet(pend[t].seqs)
  BY <1>3, NewestList
<1>5. ToSet(left(t)) = ToSet(pend[t].seqs) \ ToSet(chosen(t))
  BY <1>3, DropList
<1>. HIDE DEF chosen, left, next
<1>6. Out(t) = {}
  BY <1>2 DEF Out
<1>7. CASE t \in todo[c] \ here
  <2>1. pend'[t] = [pend[t] EXCEPT !.seqs = <<>>, !.ready = 0]
    BY <1>1, <1>7
  <2>2. pend'[t].seqs = <<>> /\ ToSet(<<>>) = {}
    BY <1>3, <2>1 DEF Entry, ToSet
  <2>3. Held(t)' = {} /\ Out(t)' = {}
    BY <1>1, <1>7, <2>2 DEF Held, Out
  <2>4. c \in chans => open[t] = {} /\ open'[t] = open[t]
    BY <1>2, <1>7 DEF Gone
  <2>5. c \notin chans => open'[t] = {}
    BY <1>2, <1>7
  <2>. QED  BY <1>6, <2>3, <2>4, <2>5, ListMoves
<1>8. CASE t \in cand
  <2>1. pend'[t] = [pend[t] EXCEPT !.seqs = left(t), !.ready = next(t)]
    BY <1>1, <1>8
  <2>2. pend'[t].seqs = left(t)
    BY <1>3, <2>1 DEF Entry
  <2>3. Held(t)' = Held(t) \ ToSet(chosen(t)) /\ Out(t)' = ToSet(chosen(t))
    BY <1>1, <1>5, <1>8, <2>2 DEF Held, Out
  <2>4. open'[t] = open[t]
    BY <1>2, <1>8
  <2>. QED  BY <1>4, <1>6, <2>3, <2>4, ListMoves DEF Held
<1>9. CASE t \notin todo[c] \ here /\ t \notin cand
  <2>1. pend'[t] = pend[t] /\ t \notin DOMAIN batch'
    BY <1>1, <1>9
  <2>2. open'[t] = open[t]
    BY <1>2, <1>9
  <2>. QED  BY <1>2, <2>1, <2>2, ListMoves DEF Held, Out
<1>. QED  BY <1>7, <1>8, <1>9

\* A T1F that failed puts back exactly what it took.
LEMMA FailMoves ==
  ASSUME T1fInv, SendFails, NEW t \in Trackers
  PROVE  ListStep(t)
<1>1. DOMAIN batch' = {} /\ open' = open
  BY DEF SendFails, Nothing
<1>2. pend[t] \in Entry /\ pend[t].seqs \in Seq(Seqs)
  BY DEF T1fInv, T1fTypeOK, Entry
<1>3. CASE t \in DOMAIN batch
  <2>. DEFINE back == batch[t] \o Drop(pend[t].seqs, ToSet(batch[t]))
  <2>1. batch[t] \in Seq(Seqs)
    BY <1>3 DEF T1fInv, T1fTypeOK
  <2>2. /\ Drop(pend[t].seqs, ToSet(batch[t])) \in Seq(Seqs)
        /\ ToSet(Drop(pend[t].seqs, ToSet(batch[t]))) = ToSet(pend[t].seqs) \ ToSet(batch[t])
    BY <1>2, DropList
  <2>3. ToSet(back) = ToSet(batch[t]) \cup ToSet(pend[t].seqs)
    BY <2>1, <2>2, JoinedList
  <2>4. pend'[t].seqs = back
    BY <1>2, <1>3 DEF SendFails, Entry
  <2>5. Held(t)' = Held(t) \cup Out(t) /\ Out(t)' = {}
    BY <1>1, <1>3, <2>3, <2>4 DEF Held, Out
  <2>. QED  BY <1>1, <2>5, ListMoves
<1>4. CASE t \notin DOMAIN batch
  <2>1. pend'[t] = pend[t]
    BY <1>4 DEF SendFails
  <2>. QED  BY <1>1, <1>4, <2>1, ListMoves DEF Held, Out
<1>. QED  BY <1>3, <1>4

\* The scheduler keeps for every tracker the list that T1fList describes: a T1F takes
\* its numbers off the list before it is sent, they all come back when that fails,
\* and no other number ever gets into a T1F (fifo_request, fifo_tick, _fifo_merge).
THEOREM T1fImplementsList == T1fSpec => ListsKept
<1>1. T1fInit => (\A t \in Trackers : List(t)!ListInit) /\ Gone
  <2>1. ToSet(<<>>) = {}
    BY DEF ToSet
  <2>2. ASSUME T1fInit, NEW t \in Trackers PROVE pend[t].seqs = <<>>
    <3>. DEFINE E == {[seqs |-> <<>>, ch |-> c, ready |-> 0] : c \in Channels}
    <3>1. \A e \in E : e.seqs = <<>>
      OBVIOUS
    <3>2. pend[t] \in E
      BY <2>2 DEF T1fInit
    <3>. QED  BY <3>1, <3>2
  <2>. QED  BY <2>1, <2>2 DEF T1fInit, Nothing, List!ListInit, Gone
<1>2. T1fInv /\ Gone /\ [T1fNext]_t1fVars => \A t \in Trackers : ListStep(t)
  <2> SUFFICES ASSUME T1fInv, Gone, [T1fNext]_t1fVars, NEW t \in Trackers PROVE ListStep(t)
    OBVIOUS
  <2>1. CASE UNCHANGED t1fVars \/ TickStart \/ TickCapped \/ \E c \in Channels : ChannelGone(c)
    <3>1. UNCHANGED <<pend, batch, open>>
      BY <2>1 DEF t1fVars, TickStart, TickCapped, ChannelGone
    <3>. QED  BY <3>1, ListMoves DEF Held, Out
  <2>2. CASE TimePasses
    <3>1. pend[t] \in Entry
      BY DEF T1fInv, T1fTypeOK
    <3>2. pend'[t] = [pend[t] EXCEPT !.ready = Most(0, @ - 1)]
      BY <2>2 DEF TimePasses
    <3>3. pend'[t].seqs = pend[t].seqs
      BY <3>1, <3>2 DEF Entry
    <3>4. UNCHANGED <<batch, open>>
      BY <2>2 DEF TimePasses
    <3>. QED  BY <3>3, <3>4, ListMoves DEF Held, Out
  <2>3. CASE SendDone
    <3>1. Out(t)' = {} /\ open'[t] = open[t] \ Out(t) /\ Held(t)' = Held(t)
      BY <2>3 DEF SendDone, Nothing, Out, Held
    <3>. QED  BY <3>1, ListMoves
  <2>4. ASSUME NEW u \in Trackers, KeyGone(u) PROVE ListStep(t)
    <3>1. UNCHANGED <<Held(t), Out(t)>>
      BY <2>4 DEF KeyGone, Held, Out
    <3>2. open'[t] = {} \/ open'[t] = open[t]
      BY <2>4 DEF KeyGone, T1fInv, T1fTypeOK
    <3>. QED  BY <3>1, <3>2, ListMoves
  <2>5. CASE Restart
    <3>1. pend[t] \in Entry /\ ToSet(<<>>) = {}
      BY DEF T1fInv, T1fTypeOK, ToSet
    <3>2. pend'[t] = [pend[t] EXCEPT !.seqs = <<>>, !.ready = 0]
      BY <2>5 DEF Restart
    <3>3. Held(t)' = {}
      BY <3>1, <3>2 DEF Entry, Held
    <3>4. Out(t)' = {} /\ open'[t] = {}
      BY <2>5 DEF Restart, Nothing, Out
    <3>. QED  BY <3>3, <3>4, ListMoves
  <2>. QED
    BY <2>1, <2>2, <2>3, <2>4, <2>5, RequestMoves, TurnMoves, FailMoves DEF T1fNext
<1>. QED
  BY <1>1, <1>2, GoneKept, T1fInvariant, PTL DEF T1fSpec, ListsKept, ListStep

-----------------------------------------------------------------------------
\* What SweepTypeOK says of the row of one node.
RowOK(row, n) ==
  row \in Row /\ (row.cursor = 0 \/ \E k \in Listings : row.cursor < k[n])

\* The rounds that wait for their verdict.
Asked(l) == {n \in DOMAIN l : l[n].result = "asked"}

\* The inductive invariant.  Its third part is why the distance holds
\* although run_once looks at the ledger and not at what was sent: the row of some
\* node is as young as the last round, since a row is only replaced by a younger.
SweepInv ==
  /\ SweepTypeOK
  /\ GapKept
  /\ sent # <<>> => \E n \in DOMAIN ledger : \A i \in DOMAIN sent : ledger[n].age <= sent[i]
  /\ \A m, n \in Asked(ledger) : m = n

LEMMA SweepRows ==
  SweepTypeOK <=>
    /\ DOMAIN ledger \subseteq Nodes /\ fresh \subseteq Nodes /\ ticked \in BOOLEAN
    /\ listed \in Listings /\ edits \in 0 .. MaxEdits
    /\ \A n \in DOMAIN ledger : RowOK(ledger[n], n)
    /\ sent \in Seq(0 .. Day)
BY DEF SweepTypeOK, RowOK

LEMMA SweepInvInit == Init => SweepInv
<1> SUFFICES ASSUME Init PROVE SweepInv
  OBVIOUS
<1>1. <<>> \in Seq(0 .. Day) /\ DOMAIN ledger = {} /\ sent = <<>> /\ DOMAIN <<>> = {}
  BY DEF Init
<1>2. SweepTypeOK
  <2>1. 0 \in 0 .. MaxEdits
    BY SweepAssumption
  <2>2. edits = 0 /\ fresh = {} /\ listed \in Listings /\ ticked = FALSE
    BY DEF Init
  <2>. QED  BY <1>1, <2>1, <2>2 DEF SweepTypeOK
<1>3. GapKept /\ Asked(ledger) = {}
  BY <1>1 DEF GapKept, Asked
<1>. QED  BY <1>1, <1>2, <1>3 DEF SweepInv

\* verify_pending keeps the moments, opens nothing, and leaves nothing open that
\* had its term; a cursor stays within some list of its node.
LEMMA JudgedRows ==
  ASSUME SweepTypeOK, NEW refusers \in SUBSET Nodes
  PROVE  LET l == Judged(refusers) IN
         /\ DOMAIN l = DOMAIN ledger
         /\ \A n \in DOMAIN l :
              /\ l[n].age = ledger[n].age /\ l[n].age \in 0 .. Old
              /\ RowOK(l[n], n)
              /\ l[n].result = "asked" => ledger[n].result = "asked" /\ ledger[n].age < Verify
<1>. DEFINE l == Judged(refusers)
<1>1. DOMAIN l = DOMAIN ledger
  BY DEF Judged
<1>2. ASSUME NEW n \in DOMAIN ledger
      PROVE  /\ l[n].age = ledger[n].age /\ l[n].age \in 0 .. Old
             /\ RowOK(l[n], n)
             /\ l[n].result = "asked" => ledger[n].result = "asked" /\ ledger[n].age < Verify
  <2>. DEFINE row == ledger[n]
  <2>0. /\ RowOK(row, n) /\ row \in Row /\ row.age \in 0 .. Old /\ row.cursor \in Nat
        /\ n \in Nodes /\ listed \in Listings /\ listed[n] \in Nat
        /\ row = [age |-> row.age, result |-> row.result, cursor |-> row.cursor]
        /\ row.result \in Results
    BY SweepRows, SweepAssumption DEF RowOK, Row
  <2>1. CASE ~Ripe(n)
    <3>1. l[n] = row
      BY <2>1 DEF Judged
    <3>2. row.result = "asked" => row.age < Verify
      BY <2>0, <2>1, SweepAssumption DEF Ripe
    <3>. HIDE DEF l
    <3>. QED  BY <3>1, <3>2, <2>0
  <2>2. CASE Ripe(n) /\ n \in fresh
    <3>1. l[n] = [row EXCEPT !.result = "answered", !.cursor = 0]
      BY <2>2 DEF Judged
    <3>2. l[n] = [age |-> row.age, result |-> "answered", cursor |-> 0]
      BY <2>0, <3>1
    <3>. HIDE DEF l
    <3>. QED  BY <3>2, <2>0 DEF RowOK, Row, Results
  <2>3. CASE Ripe(n) /\ n \notin fresh
    <3>. DEFINE res == IF listed[n] <= 1 THEN "silent" ELSE "exhausted"
    <3>1. \/ l[n] = [row EXCEPT !.result = "refused"]
          \/ l[n] = [row EXCEPT !.result = res, !.cursor = 0]
          \/ row.cursor + 1 < listed[n] /\ l[n] = [row EXCEPT !.result = "silent", !.cursor = row.cursor + 1]
      BY <2>0, <2>3 DEF Judged, Silence, Row
    <3>2. res # "asked" /\ res \in Results
      BY DEF Results
    <3>. HIDE DEF res, l
    <3>3. CASE l[n] = [row EXCEPT !.result = "refused"]
      <4>1. l[n] = [age |-> row.age, result |-> "refused", cursor |-> row.cursor]
        BY <2>0, <3>3
      <4>. QED  BY <4>1, <2>0 DEF RowOK, Row, Results
    <3>4. CASE l[n] = [row EXCEPT !.result = res, !.cursor = 0]
      <4>1. l[n] = [age |-> row.age, result |-> res, cursor |-> 0]
        BY <2>0, <3>4
      <4>. QED  BY <3>2, <4>1, <2>0 DEF RowOK, Row
    <3>5. CASE row.cursor + 1 < listed[n] /\ l[n] = [row EXCEPT !.result = "silent", !.cursor = row.cursor + 1]
      <4>1. l[n] = [age |-> row.age, result |-> "silent", cursor |-> row.cursor + 1]
        BY <2>0, <3>5
      <4>2. l[n].cursor \in Nat /\ l[n].cursor < listed[n]
        BY <2>0, <3>5, <4>1
      <4>. QED  BY <4>1, <4>2, <2>0 DEF RowOK, Row, Results
    <3>. QED  BY <3>1, <3>3, <3>4, <3>5
  <2>. QED  BY <2>1, <2>2, <2>3
<1>. QED  BY <1>1, <1>2

\* run_once that only judges.
LEMMA SweepJudges ==
  ASSUME SweepInv, NEW refusers \in SUBSET Nodes, ledger' = Judged(refusers),
         ticked' = TRUE, UNCHANGED <<fresh, listed, edits, sent>>
  PROVE  SweepInv'
<1>1. /\ DOMAIN ledger' = DOMAIN ledger
      /\ \A n \in DOMAIN ledger :
           /\ ledger'[n].age = ledger[n].age
           /\ RowOK(ledger'[n], n)
           /\ ledger'[n].result = "asked" => ledger[n].result = "asked"
  BY JudgedRows DEF SweepInv
<1>2. SweepTypeOK'
  BY <1>1, SweepRows DEF SweepInv, SweepTypeOK, RowOK
<1>. QED  BY <1>1, <1>2 DEF SweepInv, GapKept, Asked

\* run_once that gives a node its row: every other row had its term, and the last
\* round is at least Gap ago.
LEMMA SweepTurns ==
  ASSUME SweepInv, NEW refusers \in SUBSET Nodes, MayAsk(Judged(refusers)),
         NEW n \in Nodes, NEW res \in Results, NEW cur \in Nat,
         cur = 0 \/ \E k \in Listings : cur < k[n],
         ledger' = Set(Judged(refusers), n, [age |-> 0, result |-> res, cursor |-> cur]),
         fresh' \subseteq Nodes, ticked' = TRUE, UNCHANGED <<listed, edits>>,
         sent' = sent \/ sent' = Append(sent, 0)
  PROVE  SweepInv'
<1>. DEFINE l == Judged(refusers)
            new == [age |-> 0, result |-> res, cursor |-> cur]
<1>1. /\ DOMAIN l = DOMAIN ledger
      /\ \A m \in DOMAIN l : /\ l[m].age = ledger[m].age /\ l[m].age \in 0 .. Old
                             /\ RowOK(l[m], m)
                             /\ l[m].result = "asked" => ledger[m].age < Verify
  BY JudgedRows DEF SweepInv
<1>2. \A m \in DOMAIN l : l[m].age >= Gap
  BY DEF MayAsk
<1>. HIDE DEF l
<1>3. \A m \in DOMAIN l : l[m].result # "asked"
  BY <1>1, <1>2, SweepAssumption
<1>4. /\ DOMAIN ledger' = DOMAIN ledger \cup {n} /\ ledger'[n] = new
      /\ \A m \in DOMAIN ledger' : m # n => m \in DOMAIN l /\ ledger'[m] = l[m]
  BY <1>1 DEF Set, l
<1>5. RowOK(new, n) /\ new.age = 0
  BY SweepAssumption DEF RowOK, Row
<1>. HIDE DEF new
<1>6. sent \in Seq(0 .. Day) /\ Len(sent) \in Nat /\ DOMAIN sent = 1 .. Len(sent)
      /\ \A i \in DOMAIN sent : sent[i] \in 0 .. Day
  BY LenProperties, ElementOfSeq DEF SweepInv, SweepTypeOK
<1>7. \A i \in DOMAIN sent : sent[i] >= Gap
  <2> SUFFICES ASSUME NEW i \in DOMAIN sent PROVE sent[i] >= Gap
    OBVIOUS
  <2>1. sent # <<>>
    BY <1>6
  <2>2. PICK m \in DOMAIN ledger : ledger[m].age <= sent[i]
    BY <2>1 DEF SweepInv
  <2>3. ledger[m].age >= Gap /\ ledger[m].age \in 0 .. Old
    BY <1>1, <1>2
  <2>. QED  BY <1>6, <2>2, <2>3, SweepAssumption
<1>8. /\ sent' \in Seq(0 .. Day)
      /\ \A i \in DOMAIN sent' : sent'[i] \in 0 .. Day
      /\ GapKept'
  <2>1. CASE sent' = sent
    BY <1>6, <2>1 DEF SweepInv, GapKept
  <2>2. CASE sent' = Append(sent, 0)
    <3>1. 0 \in 0 .. Day
      BY SweepAssumption
    <3>2. /\ sent' \in Seq(0 .. Day) /\ Len(sent') = Len(sent) + 1
          /\ \A i \in 1 .. Len(sent) : sent'[i] = sent[i]
          /\ sent'[Len(sent) + 1] = 0
      BY <1>6, <2>2, <3>1, AppendProperties
    <3>3. DOMAIN sent' = 1 .. (Len(sent) + 1)
      BY <3>2, LenProperties
    <3>4. ASSUME NEW i \in DOMAIN sent', NEW j \in DOMAIN sent', i < j
          PROVE  sent'[i] - sent'[j] >= Gap
      <4>1. CASE j \in 1 .. Len(sent)
        <5>1. i \in 1 .. Len(sent)
          BY <1>6, <3>3, <3>4, <4>1
        <5>. QED  BY <1>6, <3>2, <3>4, <4>1, <5>1 DEF SweepInv, GapKept
      <4>2. CASE j \notin 1 .. Len(sent)
        <5>1. j = Len(sent) + 1 /\ i \in 1 .. Len(sent)
          BY <1>6, <3>3, <3>4, <4>2
        <5>2. sent'[i] = sent[i] /\ sent'[j] = 0 /\ sent[i] \in 0 .. Day /\ sent[i] >= Gap
          BY <1>6, <1>7, <3>2, <5>1
        <5>. QED  BY <5>2, SweepAssumption
      <4>. QED  BY <4>1, <4>2
    <3>5. \A i \in DOMAIN sent' : sent'[i] \in 0 .. Day
      BY <3>2, ElementOfSeq, LenProperties
    <3>. QED  BY <3>2, <3>4, <3>5 DEF GapKept
  <2>. QED  BY <2>1, <2>2
<1>9. SweepTypeOK'
  <2>1. \A m \in DOMAIN ledger' : RowOK(ledger'[m], m)
    BY <1>1, <1>4, <1>5
  <2>2. DOMAIN ledger' \subseteq Nodes
    BY <1>4, SweepRows DEF SweepInv
  <2>. QED  BY <1>8, <2>1, <2>2 DEF SweepInv, SweepTypeOK, RowOK
<1>10. \A i \in DOMAIN sent' : ledger'[n].age <= sent'[i]
  BY <1>4, <1>5, <1>8, SweepAssumption
<1>11. \A m \in Asked(ledger') : m = n
  BY <1>3, <1>4 DEF Asked
<1>. QED  BY <1>4, <1>8, <1>9, <1>10, <1>11 DEF SweepInv

\* A unit of time: what is a day old leaves the history, in front.
LEMMA SweepAdvances ==
  ASSUME SweepInv, Advance
  PROVE  SweepInv'
<1>. DEFINE up == [i \in DOMAIN sent |-> sent[i] + 1]
            I == {i \in DOMAIN sent : sent[i] + 1 < Day}
            c == Cardinality(I)
            Ages == Int
<1>1. /\ ledger' = [n \in DOMAIN ledger |-> [ledger[n] EXCEPT !.age = Least(ledger[n].age + 1, Old)]]
      /\ sent' = AtPlaces(up, I)
      /\ ticked' = FALSE /\ UNCHANGED <<fresh, listed, edits>>
  <2>1. \A n \in DOMAIN ledger : [ledger[n] EXCEPT !.age = Least(@ + 1, Old)]
                                 = [ledger[n] EXCEPT !.age = Least(ledger[n].age + 1, Old)]
    BY DEF SweepInv, SweepTypeOK, Row
  <2>. QED  BY <2>1 DEF Advance
<1>2. ASSUME NEW n \in DOMAIN ledger
      PROVE  /\ RowOK(ledger'[n], n) /\ ledger'[n].result = ledger[n].result
             /\ ledger[n].age \in Nat /\ ledger'[n].age \in Nat /\ ledger'[n].age <= ledger[n].age + 1
  <2>1. RowOK(ledger[n], n) /\ ledger[n].age \in 0 .. Old
    BY SweepRows DEF SweepInv, RowOK, Row
  <2>2. Least(ledger[n].age + 1, Old) \in 0 .. Old /\ Least(ledger[n].age + 1, Old) <= ledger[n].age + 1
    BY <2>1, SweepAssumption DEF Least
  <2>3. ledger'[n] = [ledger[n] EXCEPT !.age = Least(ledger[n].age + 1, Old)]
    BY <1>1
  <2>. HIDE DEF Least
  <2>4. ledger'[n].age = Least(ledger[n].age + 1, Old)
    BY <2>1, <2>3 DEF RowOK, Row
  <2>. QED  BY <2>1, <2>2, <2>3, <2>4 DEF RowOK, Row
<1>3. sent \in Seq(0 .. Day) /\ Len(sent) \in Nat /\ DOMAIN sent = 1 .. Len(sent)
      /\ \A i \in DOMAIN sent : sent[i] \in 0 .. Day
  BY LenProperties, ElementOfSeq DEF SweepInv, SweepTypeOK
<1>4. up \in Seq(Ages) /\ DOMAIN up = DOMAIN sent /\ I \in SUBSET DOMAIN up
  <2>1. \A i \in 1 .. Len(sent) : sent[i] + 1 \in Int
    BY <1>3
  <2>2. [i \in 1 .. Len(sent) |-> sent[i] + 1] \in Seq(Int)
    BY <1>3, <2>1, IsASeq
  <2>. QED  BY <1>3, <2>2
<1>5. \A i \in DOMAIN sent : up[i] = sent[i] + 1
  OBVIOUS
<1>6. \A i \in I : i \in DOMAIN sent /\ sent[i] + 1 < Day
  OBVIOUS
<1>. HIDE DEF up, I, Ages
<1>. DEFINE kept == AtPlaces(up, I)
<1>7. PICK p \in [1 .. c -> I] :
        /\ \A j \in 1 .. c : kept[j] = up[p[j]]
        /\ \A j, k \in 1 .. c : j < k => p[j] < p[k]
        /\ \A i \in I : \E j \in 1 .. c : p[j] = i
  <2>1. up \in Seq(Ages) /\ I \in SUBSET DOMAIN up
    BY <1>4
  <2>. HIDE DEF kept, c
  <2>2. kept = AtPlaces(up, I) /\ c = Cardinality(I)
    BY DEF kept, c
  <2>3. \E p \in [1 .. Cardinality(I) -> I] :
           /\ \A j \in 1 .. Cardinality(I) : AtPlaces(up, I)[j] = up[p[j]]
           /\ \A j, k \in 1 .. Cardinality(I) : j < k => p[j] < p[k]
           /\ \A i \in I : \E j \in 1 .. Cardinality(I) : p[j] = i
    BY <2>1, PlacesOf
  <2>. QED  BY <2>2, <2>3
<1>8. sent' = kept /\ kept \in Seq(Ages) /\ Len(kept) = c /\ c \in Nat
  BY <1>1, <1>4, PlacesOf
<1>. HIDE DEF kept
<1>. HIDE DEF c
<1>9. DOMAIN sent' = 1 .. c
  BY <1>8, LenProperties
<1>10. ASSUME NEW j \in DOMAIN sent'
       PROVE  /\ p[j] \in DOMAIN sent /\ sent'[j] = sent[p[j]] + 1
              /\ sent[p[j]] \in 0 .. Day /\ sent'[j] \in 0 .. Day
  <2>1. p[j] \in DOMAIN sent /\ sent'[j] = sent[p[j]] + 1 /\ sent[p[j]] + 1 < Day
    BY <1>5, <1>6, <1>7, <1>8, <1>9
  <2>2. sent[p[j]] \in 0 .. Day
    BY <1>3, <2>1
  <2>. QED  BY <2>1, <2>2, SweepAssumption
<1>11. sent' \in Seq(0 .. Day)
  <2>1. sent' = [j \in 1 .. c |-> sent'[j]]
    BY <1>8, <1>9
  <2>2. \A j \in 1 .. c : sent'[j] \in 0 .. Day
    BY <1>9, <1>10
  <2>3. [j \in 1 .. c |-> sent'[j]] \in Seq(0 .. Day)
    BY <1>8, <2>2, IsASeq
  <2>. QED  BY <2>1, <2>3
<1>12. GapKept'
  <2> SUFFICES ASSUME NEW i \in DOMAIN sent', NEW j \in DOMAIN sent', i < j
               PROVE  sent'[i] - sent'[j] >= Gap
    BY DEF GapKept
  <2>1. p[i] < p[j]
    BY <1>7, <1>9
  <2>2. sent[p[i]] - sent[p[j]] >= Gap
    BY <1>10, <2>1 DEF SweepInv, GapKept
  <2>. QED  BY <1>10, <2>2, SweepAssumption
<1>13. SweepTypeOK'
  <2>1. DOMAIN ledger' = DOMAIN ledger
    BY <1>1
  <2>. QED  BY <1>1, <1>2, <1>11, <2>1, SweepRows DEF SweepInv, SweepTypeOK, RowOK
<1>14. sent' # <<>> => \E n \in DOMAIN ledger' : \A i \in DOMAIN sent' : ledger'[n].age <= sent'[i]
  <2> SUFFICES ASSUME sent' # <<>>
               PROVE  \E n \in DOMAIN ledger' : \A i \in DOMAIN sent' : ledger'[n].age <= sent'[i]
    OBVIOUS
  <2>1. sent # <<>>
    <3>1. c # 0
      BY <1>8
    <3>2. 1 \in DOMAIN sent'
      BY <1>8, <1>9, <3>1
    <3>. QED  BY <1>10, <3>2
  <2>2. PICK n \in DOMAIN ledger : \A i \in DOMAIN sent : ledger[n].age <= sent[i]
    BY <2>1 DEF SweepInv
  <2>3. ASSUME NEW i \in DOMAIN sent' PROVE ledger'[n].age <= sent'[i]
    <3>1. ledger[n].age <= sent[p[i]]
      BY <1>10, <2>2
    <3>. QED  BY <1>2, <1>10, <3>1, SweepAssumption
  <2>4. DOMAIN ledger' = DOMAIN ledger
    BY <1>1
  <2>. QED  BY <2>3, <2>4
<1>15. \A m, n \in Asked(ledger') : m = n
  BY <1>1, <1>2 DEF Asked, SweepInv
<1>. QED  BY <1>12, <1>13, <1>14, <1>15 DEF SweepInv

LEMMA SweepStep == SweepInv /\ [Next]_vars => SweepInv'
<1> SUFFICES ASSUME SweepInv, [Next]_vars PROVE SweepInv'
  OBVIOUS
<1>0. listed \in Listings /\ fresh \subseteq Nodes /\ \A n \in Nodes : listed[n] \in Nat
  BY SweepAssumption DEF SweepInv, SweepTypeOK
<1>1. CASE TickIdle
  BY <1>1, SweepJudges DEF TickIdle
<1>2. ASSUME NEW n \in Nodes, TickNoMonitor(n) PROVE SweepInv'
  <2>1. PICK refusers \in SUBSET Nodes :
          /\ MayAsk(Judged(refusers))
          /\ ledger' = Set(Judged(refusers), n, [age |-> 0, result |-> "other", cursor |-> 0])
          /\ ticked' = TRUE /\ UNCHANGED <<fresh, listed, edits, sent>>
    BY <1>2 DEF TickNoMonitor
  <2>2. "other" \in Results /\ 0 \in Nat /\ fresh' \subseteq Nodes /\ sent' = sent
    BY <1>0, <2>1 DEF Results
  <2>. QED  BY <2>1, <2>2, SweepTurns
<1>a. ASSUME NEW n \in Nodes, NEW refusers \in SUBSET Nodes
      PROVE  LET l == Judged(refusers)
                 k == Cursor(l, n)
             IN /\ k \in Nat
                /\ k = 0 \/ k < listed[n]
  <2>1. n \in DOMAIN Judged(refusers) => Judged(refusers)[n].cursor \in Nat
    BY JudgedRows DEF SweepInv, RowOK, Row
  <2>. QED  BY <1>0, <2>1 DEF Cursor
<1>3. ASSUME NEW n \in Nodes, TickAway(n) PROVE SweepInv'
  <2>1. PICK refusers \in SUBSET Nodes :
          LET l == Judged(refusers)
              next == Cursor(l, n) + 1
          IN /\ MayAsk(l)
             /\ ledger' = Set(l, n, [age |-> 0, result |-> "away",
                               cursor |-> IF next < listed[n] THEN next ELSE 0])
             /\ ticked' = TRUE /\ UNCHANGED <<fresh, listed, edits, sent>>
    BY <1>3 DEF TickAway
  <2>. DEFINE k == Cursor(Judged(refusers), n)
              cur == IF k + 1 < listed[n] THEN k + 1 ELSE 0
  <2>2. k \in Nat
    BY <1>a
  <2>3. cur \in Nat /\ (cur = 0 \/ cur < listed[n])
    <3>. HIDE DEF k
    <3>. QED  BY <2>2
  <2>4. ledger' = Set(Judged(refusers), n, [age |-> 0, result |-> "away", cursor |-> cur])
    BY <2>1
  <2>. HIDE DEF cur
  <2>5. cur = 0 \/ \E x \in Listings : cur < x[n]
    BY <1>0, <2>3
  <2>6. "away" \in Results /\ fresh' \subseteq Nodes /\ sent' = sent
    BY <1>0, <2>1 DEF Results
  <2>. QED  BY <2>1, <2>3, <2>4, <2>5, <2>6, SweepTurns
<1>4. ASSUME NEW n \in Nodes, NEW ok \in BOOLEAN, TickAsk(n, ok) PROVE SweepInv'
  <2>. DEFINE res == IF ok THEN "asked" ELSE "other"
  <2>1. PICK refusers \in SUBSET Nodes :
          LET l == Judged(refusers)
          IN /\ MayAsk(l)
             /\ ledger' = Set(l, n, [age |-> 0, result |-> res, cursor |-> Cursor(l, n)])
             /\ fresh' = fresh \ {n} /\ sent' = IF ok THEN Append(sent, 0) ELSE sent
             /\ ticked' = TRUE /\ UNCHANGED <<listed, edits>>
    BY <1>4 DEF TickAsk
  <2>. DEFINE cur == Cursor(Judged(refusers), n)
  <2>2. cur \in Nat /\ (cur = 0 \/ cur < listed[n])
    BY <1>a
  <2>3. res \in Results /\ fresh' \subseteq Nodes /\ (sent' = sent \/ sent' = Append(sent, 0))
    BY <1>0, <2>1 DEF Results
  <2>. HIDE DEF cur, res
  <2>4. cur = 0 \/ \E x \in Listings : cur < x[n]
    BY <1>0, <2>2
  <2>5. ledger' = Set(Judged(refusers), n, [age |-> 0, result |-> res, cursor |-> cur])
    BY <2>1 DEF cur
  <2>. QED  BY <2>1, <2>2, <2>3, <2>4, <2>5, SweepTurns
<1>5. ASSUME NEW n \in Nodes, Answer(n) PROVE SweepInv'
  BY <1>5 DEF Answer, SweepInv, SweepTypeOK, GapKept, Asked
<1>6. CASE SetMonitors
  <2>1. edits' \in 0 .. MaxEdits /\ listed' \in Listings
    BY <1>6, SweepAssumption DEF SetMonitors, SweepInv, SweepTypeOK
  <2>. QED  BY <1>6, <2>1 DEF SetMonitors, SweepInv, SweepTypeOK, GapKept, Asked
<1>7. CASE UNCHANGED vars
  BY <1>7 DEF vars, SweepInv, SweepTypeOK, GapKept, Asked
<1>. QED
  BY <1>1, <1>2, <1>3, <1>4, <1>5, <1>6, <1>7, SweepAdvances DEF Next, Turn

\* What the planner keeps through every tick, answer and change of the lists.
THEOREM SweepInvariant == Spec => []SweepInv
BY SweepInvInit, SweepStep, PTL DEF Spec

\* SweepTypeOK: among the rest, the cursor of a node never leaves the longest list
\* that node ever has, whatever somebody makes of the lists meanwhile.
THEOREM SweepTyped == Spec => []SweepTypeOK
<1>1. SweepInv => SweepTypeOK
  BY DEF SweepInv
<1>. QED  BY SweepInvariant, <1>1, PTL

\* Between any two rounds that go out lies the minimum distance, whatever nodes
\* they are for and however the earlier ended (run_once, _last_any).
THEOREM SweepGapKept == Spec => []GapKept
<1>1. SweepInv => GapKept
  BY DEF SweepInv
<1>. QED  BY SweepInvariant, <1>1, PTL

\* At no time two rounds wait for their verdict (run_once, verify_pending).
THEOREM SweepOneOpen == Spec => []OneOpen
<1>1. SweepInv => OneOpen
  <2> SUFFICES ASSUME SweepInv PROVE Cardinality(Asked(ledger)) <= 1
    BY DEF OneOpen, Asked
  <2>1. CASE Asked(ledger) = {}
    BY <2>1, FS_EmptySet
  <2>2. CASE \E n \in Asked(ledger) : TRUE
    <3>. PICK n \in Asked(ledger) : TRUE
      BY <2>2
    <3>1. Asked(ledger) = {n}
      BY DEF SweepInv
    <3>2. Cardinality({n}) = 1
      BY FS_Singleton
    <3>. QED  BY <3>1, <3>2
  <2>. QED  BY <2>1, <2>2
<1>. QED  BY SweepInvariant, <1>1, PTL
=============================================================================
