------------------------ MODULE AccuracyServiceProofs ------------------------
(***************************************************************************)
(* Proofs about AccuracyService for any set of crossbow ids, any minimum    *)
(* and limit, and any number of shots.                                      *)
(***************************************************************************)
EXTENDS AccuracyService, SequenceTheorems, WellFoundedInduction, TLAPS

USE AccuracyAssumption DEF AccuracyAssumption

\* The list of ids has a first element.
LEMMA FirstListed ==
  ASSUME ids \subseteq Crossbows, ids # {}
  PROVE  First \in ids
<1> DEFINE Less == OpToRel(<, Nat)
<1>1. PICK c \in ids : \A d \in ids : ~(<<d, c>> \in Less)
  <2> HIDE DEF Less
  <2>1. IsWellFoundedOn(Less, Nat)
    BY NatLessThanWellFounded DEF Less
  <2>2. ids \subseteq Nat
    OBVIOUS
  <2> QED  BY <2>1, <2>2, WFMin
<1>2. ASSUME NEW d \in ids  PROVE c <= d
  <2>1. c \in Nat /\ d \in Nat
    OBVIOUS
  <2>2. ~(d < c)
    BY <1>1, <2>1 DEF OpToRel
  <2> QED  BY <2>1, <2>2
<1>3. \E e \in ids : \A d \in ids : e <= d
  BY <1>2
<1> QED  BY <1>3 DEF First

\* Filing a shot puts it last and keeps at most the limit.
LEMMA FilingProperties ==
  ASSUME NEW q \in Seq(ShotNumbers), NEW n \in ShotNumbers
  PROVE  LET e == LastOf(Append(q, n), DataLimit) IN
         /\ e \in Seq(ShotNumbers)
         /\ e # <<>>
         /\ e[Len(e)] = n
         /\ Len(q) >= MinShots => Len(e) >= MinShots
<1> DEFINE a == Append(q, n)
           e == LastOf(a, DataLimit)
<1>1. /\ a \in Seq(ShotNumbers) /\ Len(a) = Len(q) + 1 /\ a[Len(a)] = n
      /\ Len(q) \in Nat /\ a # <<>>
  BY AppendProperties
<1> HIDE DEF a
<1>2. CASE Len(a) <= DataLimit
  <2>1. e = a
    BY <1>2 DEF LastOf
  <2> QED  BY <1>1, <2>1 DEF a
<1>3. CASE Len(a) > DataLimit
  <2> DEFINE m == Len(a) - DataLimit + 1
  <2>1. e = SubSeq(a, m, Len(a))
    BY <1>1, <1>3 DEF LastOf
  <2>2. m \in 1..Len(a) /\ Len(a) \in Int /\ m \in Int
    BY <1>1, <1>3
  <2>3. \A i \in m..Len(a) : a[i] \in ShotNumbers
    BY <1>1, <2>2
  <2>4. /\ e \in Seq(ShotNumbers)
        /\ Len(e) = Len(a) - m + 1
        /\ \A i \in 1..(Len(a) - m + 1) : e[i] = a[m + i - 1]
    <3> HIDE DEF m, e
    <3> QED  BY <2>1, <2>2, <2>3, SubSeqProperties
  <2>5. Len(e) = DataLimit
    BY <1>1, <2>4
  <2>6. e[DataLimit] = a[Len(a)]
    BY <1>1, <2>2, <2>4
  <2> HIDE DEF e
  <2> QED  BY <1>1, <2>4, <2>5, <2>6 DEF a, e
<1> QED  BY <1>1, <1>2, <1>3

-----------------------------------------------------------------------------

\* Why an answer is fresh: what a request is owed is in the table, in the copy it
\* works on, in the copy of a periodic analysis of the same crossbow under way, and in
\* the end in the stored analysis.
FreshInv ==
    /\ analyst \in {"next", "store"} =>
          \A c \in ids : Len(crossbow_data_[c]) >= MinShots
    /\ \A c \in Crossbows : crossbow_data_[c] # <<>> =>
          crossbow_data_[c][Len(crossbow_data_[c])] <= Len(log)
    /\ analyst = "store" => Covers(crossbow_data_[First], shots)
    /\ request # "idle" => Covers(crossbow_data_[id], due)
    /\ request # "idle" /\ analyst = "store" /\ First = id => Covers(shots, due)
    /\ request = "store" => Covers(copy, due)
    /\ request = "read" => Covers(latest_analyses_[id], due)

\* Covering is reflexive and transitive.
LEMMA CoversItself == ASSUME NEW q \in Seq(ShotNumbers) PROVE Covers(q, q)
<1>1. q # <<>> => q[Len(q)] \in Nat
  BY DEF ShotNumbers
<1> QED  BY <1>1 DEF Covers

\* Covering one list of shots that covers another is covering both: the order the answers
\* to /api/run-analysis are compared in.
LEMMA CoversTransitive ==
  ASSUME NEW p \in Seq(ShotNumbers), NEW q \in Seq(ShotNumbers), NEW r \in Seq(ShotNumbers),
         Covers(p, q), Covers(q, r)
  PROVE  Covers(p, r)
<1>1. \A s \in Seq(ShotNumbers) : s # <<>> => s[Len(s)] \in Nat
  BY DEF ShotNumbers
<1> QED  BY <1>1 DEF Covers

\* The first crossbow listed does not change while the list stands.
LEMMA FirstStays == ASSUME ids' = ids PROVE First' = First
BY DEF First

\* The ranges of the variables need one fact of FreshInv: a listed crossbow keeps
\* enough shots.
LEMMA TypeStep ==
  ASSUME TypeOK, FreshInv, [Next]_vars
  PROVE  TypeOK'
<1> USE DEF TypeOK
<1>1. ASSUME NEW c \in Crossbows, FileShot(c)  PROVE TypeOK'
  <2> DEFINE e == LastOf(Append(crossbow_data_[c], Len(log) + 1), DataLimit)
  <2>1. Len(log) + 1 \in ShotNumbers
    BY <1>1 DEF FileShot, ShotNumbers
  <2>2. e \in Seq(ShotNumbers)
    BY <2>1, FilingProperties
  <2>3. /\ crossbow_data_' = [crossbow_data_ EXCEPT ![c] = e]
        /\ log' = Append(log, c)
        /\ UNCHANGED <<running_, latest_analyses_, analyst, ids, shots, request, id, copy, due>>
    BY <1>1 DEF FileShot, analystVars, requestVars
  <2>4. log' \in Seq(Crossbows) /\ Len(log') <= MaxShots
    BY <1>1, <2>3 DEF FileShot
  <2> HIDE DEF e
  <2> QED  BY <2>2, <2>3, <2>4
<1>2. ASSUME NEW c \in Crossbows, Ask(c)  PROVE TypeOK'
  BY <1>2 DEF Ask, tableVars, analystVars
<1>3. CASE Wake
  BY <1>3 DEF Wake, tableVars, requestVars
<1>4. CASE Scan
  BY <1>4 DEF Scan, tableVars, requestVars
<1>5. CASE CopyShots
  <2>1. First \in ids
    BY <1>5, FirstListed DEF CopyShots
  <2>2. shots' \in Seq(ShotNumbers) /\ Len(shots') >= MinShots
    BY <1>5, <2>1 DEF CopyShots, FreshInv
  <2> QED  BY <1>5, <2>2 DEF CopyShots, tableVars, requestVars
<1>6. CASE StoreAnalysis
  <2>1. <<>> \in Seq(ShotNumbers)
    OBVIOUS
  <2> QED  BY <1>6, <2>1 DEF StoreAnalysis, requestVars
<1>7. CASE RoundOver
  BY <1>7 DEF RoundOver, tableVars, requestVars
<1>8. CASE RequestCopy
  BY <1>8 DEF RequestCopy, tableVars, analystVars
<1>9. CASE RequestStore
  <2>1. <<>> \in Seq(ShotNumbers)
    OBVIOUS
  <2> QED  BY <1>9, <2>1 DEF RequestStore, analystVars
<1>10. CASE Answer
  <2>1. <<>> \in Seq(ShotNumbers)
    OBVIOUS
  <2> QED  BY <1>10, <2>1 DEF Answer, tableVars, analystVars
<1>11. CASE Stop
  BY <1>11 DEF Stop, tableVars, analystVars, requestVars
<1>12. CASE UNCHANGED vars
  BY <1>12 DEF vars, tableVars, analystVars, requestVars
<1> QED
  BY <1>1, <1>2, <1>3, <1>4, <1>5, <1>6, <1>7, <1>8, <1>9, <1>10, <1>11, <1>12
  DEF Next, Analyst, Http

-----------------------------------------------------------------------------

\* A request is owed no more than the table has; the copies are of the table; and the
\* only store that can come between a request's own and its answer is of a copy at
\* least as new as what it is owed.
LEMMA FreshStep ==
  ASSUME TypeOK, FreshInv, [Next]_vars
  PROVE  FreshInv'
<1>0. /\ crossbow_data_ \in [Crossbows -> Seq(ShotNumbers)]
      /\ latest_analyses_ \in [Crossbows -> Seq(ShotNumbers)]
      /\ shots \in Seq(ShotNumbers) /\ copy \in Seq(ShotNumbers) /\ due \in Seq(ShotNumbers)
      /\ ids \subseteq Crossbows /\ id \in Crossbows /\ Len(log) \in Nat
      /\ analyst = "store" => First \in ids
  BY FirstListed DEF TypeOK
<1>1. ASSUME NEW c \in Crossbows, FileShot(c)  PROVE FreshInv'
  <2> DEFINE e == LastOf(Append(crossbow_data_[c], Len(log) + 1), DataLimit)
  <2>1. Len(log) + 1 \in ShotNumbers /\ Len(log') = Len(log) + 1
    BY <1>1 DEF FileShot, ShotNumbers, TypeOK
  <2>2. /\ e \in Seq(ShotNumbers) /\ e # <<>> /\ e[Len(e)] = Len(log) + 1
        /\ Len(crossbow_data_[c]) >= MinShots => Len(e) >= MinShots
    BY <1>0, <2>1, FilingProperties
  <2>3. /\ crossbow_data_' = [crossbow_data_ EXCEPT ![c] = e]
        /\ UNCHANGED <<latest_analyses_, analyst, ids, shots, request, id, copy, due>>
    BY <1>1 DEF FileShot, analystVars, requestVars
  <2> HIDE DEF e
  <2>4. crossbow_data_'[c] = e /\ \A d \in Crossbows : d # c => crossbow_data_'[d] = crossbow_data_[d]
    BY <1>0, <2>3
  <2>5. Covers(e, crossbow_data_[c])
    <3>1. crossbow_data_[c] # <<>> =>
             crossbow_data_[c][Len(crossbow_data_[c])] <= Len(log)
      BY DEF FreshInv
    <3>2. crossbow_data_[c] # <<>> => crossbow_data_[c][Len(crossbow_data_[c])] \in Nat
      BY <1>0 DEF ShotNumbers
    <3> QED  BY <1>0, <2>2, <3>1, <3>2 DEF Covers
  <2>6. ASSUME NEW d \in Crossbows, NEW q \in Seq(ShotNumbers), Covers(crossbow_data_[d], q)
        PROVE  Covers(crossbow_data_'[d], q)
    BY <1>0, <2>2, <2>4, <2>5, <2>6, CoversTransitive
  <2>7. \A d \in Crossbows : crossbow_data_'[d] # <<>> =>
           crossbow_data_'[d][Len(crossbow_data_'[d])] <= Len(log')
    <3>1. ASSUME NEW d \in Crossbows, d # c, crossbow_data_[d] # <<>>
          PROVE  crossbow_data_[d][Len(crossbow_data_[d])] <= Len(log')
      <4>1. crossbow_data_[d][Len(crossbow_data_[d])] \in Nat
        BY <1>0, <3>1 DEF ShotNumbers
      <4> QED  BY <1>0, <2>1, <3>1, <4>1 DEF FreshInv
    <3>2. e[Len(e)] <= Len(log')
      BY <1>0, <2>1, <2>2
    <3> QED  BY <2>4, <3>1, <3>2
  <2>8. analyst' \in {"next", "store"} =>
           \A d \in ids' : Len(crossbow_data_'[d]) >= MinShots
    BY <1>0, <2>2, <2>3, <2>4 DEF FreshInv
  <2>9. First' = First
    BY <2>3, FirstStays
  <2> QED  BY <1>0, <2>3, <2>6, <2>7, <2>8, <2>9 DEF FreshInv
<1>2. ASSUME NEW c \in Crossbows, Ask(c)  PROVE FreshInv'
  <2>1. /\ UNCHANGED <<crossbow_data_, latest_analyses_, analyst, ids, shots, copy, log>>
        /\ id' = c /\ request' = "copy"
        /\ due' = IF analyst = "store" /\ c = First THEN shots ELSE crossbow_data_[c]
    BY <1>2 DEF Ask, tableVars, analystVars
  <2>2. First' = First
    BY <2>1, FirstStays
  <2>3. Covers(crossbow_data_[c], crossbow_data_[c]) /\ Covers(shots, shots)
    BY <1>0, CoversItself
  <2> QED  BY <2>1, <2>2, <2>3 DEF FreshInv
<1>3. CASE Wake \/ Scan \/ RoundOver
  <2>1. /\ UNCHANGED <<crossbow_data_, latest_analyses_, shots, request, id, copy, due, log>>
        /\ analyst' # "store"
    BY <1>3 DEF Wake, Scan, RoundOver, tableVars, requestVars
  <2>2. analyst' = "next" => \A c \in ids' : Len(crossbow_data_'[c]) >= MinShots
    BY <1>3 DEF Wake, Scan, RoundOver, tableVars
  <2> QED  BY <2>1, <2>2 DEF FreshInv
<1>4. CASE CopyShots
  <2>1. /\ UNCHANGED <<crossbow_data_, latest_analyses_, ids, request, id, copy, due, log>>
        /\ shots' = crossbow_data_[First] /\ analyst = "next"
        /\ ids # {}
    BY <1>4 DEF CopyShots, tableVars, requestVars
  <2>2. First' = First /\ First \in ids
    BY <1>0, <2>1, FirstStays, FirstListed
  <2>3. Covers(crossbow_data_[First], crossbow_data_[First])
    BY <1>0, <2>2, CoversItself
  <2> QED  BY <2>1, <2>2, <2>3 DEF FreshInv
<1>5. CASE StoreAnalysis
  <2>1. /\ UNCHANGED <<crossbow_data_, request, id, copy, due, log>>
        /\ analyst = "store" /\ analyst' = "next" /\ ids' \subseteq ids
        /\ latest_analyses_' = [latest_analyses_ EXCEPT ![First] = shots]
    BY <1>5 DEF StoreAnalysis, requestVars
  <2>2. request = "read" => Covers(latest_analyses_'[id], due)
    BY <1>0, <2>1 DEF FreshInv
  <2> QED  BY <2>1, <2>2 DEF FreshInv
<1>6. CASE RequestCopy
  <2>1. /\ UNCHANGED <<crossbow_data_, latest_analyses_, analyst, ids, shots, id, due, log>>
        /\ copy' = crossbow_data_[id] /\ request = "copy" /\ request' = "store"
    BY <1>6 DEF RequestCopy, tableVars, analystVars
  <2>2. First' = First
    BY <2>1, FirstStays
  <2> QED  BY <2>1, <2>2 DEF FreshInv
<1>7. CASE RequestStore
  <2>1. /\ UNCHANGED <<crossbow_data_, analyst, ids, shots, id, due, log>>
        /\ request = "store" /\ request' = "read"
        /\ latest_analyses_' = [latest_analyses_ EXCEPT ![id] = copy]
    BY <1>7 DEF RequestStore, analystVars
  <2>2. First' = First
    BY <2>1, FirstStays
  <2>3. latest_analyses_'[id] = copy
    BY <1>0, <2>1
  <2> QED  BY <2>1, <2>2, <2>3 DEF FreshInv
<1>8. CASE Answer
  <2>1. /\ UNCHANGED <<crossbow_data_, latest_analyses_, analyst, ids, shots, id, log>>
        /\ request' = "idle"
    BY <1>8 DEF Answer, tableVars, analystVars
  <2>2. First' = First
    BY <2>1, FirstStays
  <2> QED  BY <2>1, <2>2 DEF FreshInv
<1>9. CASE Stop \/ UNCHANGED vars
  <2>1. UNCHANGED <<crossbow_data_, latest_analyses_, analyst, ids, shots, request, id, copy,
                    due, log>>
    BY <1>9 DEF Stop, vars, tableVars, analystVars, requestVars
  <2>2. First' = First
    BY <2>1, FirstStays
  <2> QED  BY <2>1, <2>2 DEF FreshInv
<1> QED
  BY <1>1, <1>2, <1>3, <1>4, <1>5, <1>6, <1>7, <1>8, <1>9 DEF Next, Analyst, Http

-----------------------------------------------------------------------------

\* TypeOK /\ FreshInv holds along every behaviour.
LEMMA ServiceInvariant == Spec => [](TypeOK /\ FreshInv)
<1>1. ASSUME Init  PROVE TypeOK /\ FreshInv
  <2> USE <1>1 DEF Init
  <2>1. <<>> \in Seq(ShotNumbers) /\ <<>> \in Seq(Crossbows) /\ Len(<<>>) = 0
    OBVIOUS
  <2>2. running_ \in BOOLEAN /\ running_
    BY Zenon
  <2>3. TypeOK
    BY <2>1, <2>2 DEF TypeOK
  <2>4. FreshInv
    BY DEF FreshInv
  <2> QED  BY <2>3, <2>4
<1>2. (TypeOK /\ FreshInv) /\ [Next]_vars => (TypeOK /\ FreshInv)'
  BY TypeStep, FreshStep
<1> QED  BY <1>1, <1>2, PTL DEF Spec

\* The ranges of the service's tables and of its threads' copies.
THEOREM TypeCorrect == Spec => []TypeOK
BY ServiceInvariant, PTL

\* What /api/run-analysis answers covers the shots stored when it was asked for, or
\* those of a periodic analysis that was at work at that moment.
THEOREM AnswersAreFresh == Spec => []AnswerIsFresh
<1>1. FreshInv => AnswerIsFresh
  BY DEF FreshInv, AnswerIsFresh
<1> QED  BY <1>1, ServiceInvariant, PTL

-----------------------------------------------------------------------------

\* The vector of a crossbow's shots is a bounded deque.
Deque == INSTANCE BoundedDequeProofs WITH Capacity <- DataLimit

\* Erasing what is beyond the limit after a shot was filed is making room before it.
LEMMA FilingIsEnqueue ==
  ASSUME NEW q \in Seq(ShotNumbers), Len(q) <= DataLimit, NEW n \in ShotNumbers
  PROVE  LastOf(Append(q, n), DataLimit) = Deque!Enqueue(q, n)
<1> DEFINE a == Append(q, n)
<1>1. /\ a \in Seq(ShotNumbers) /\ Len(a) = Len(q) + 1 /\ Len(q) \in Nat
      /\ \A i \in 1..Len(q) : a[i] = q[i]
      /\ a[Len(q) + 1] = n
  BY AppendProperties
<1> HIDE DEF a
<1>2. DataLimit \in Nat \ {0}
  OBVIOUS
<1>3. CASE Len(q) < DataLimit
  <2>1. LastOf(a, DataLimit) = a
    BY <1>1, <1>2, <1>3 DEF LastOf
  <2>2. ~(Len(q) >= DataLimit)
    BY <1>1, <1>2, <1>3
  <2> QED  BY <2>1, <2>2 DEF Deque!Enqueue, a
<1>4. CASE Len(q) = DataLimit
  <2> DEFINE t == Tail(q)
             e == Append(t, n)
             l == SubSeq(a, 2, Len(a))
  <2>1. q # <<>> /\ ~(Len(a) <= DataLimit) /\ Len(a) - DataLimit + 1 = 2 /\ Len(q) >= DataLimit
    BY <1>1, <1>2, <1>4
  <2>2. LastOf(a, DataLimit) = l
    BY <2>1 DEF LastOf
  <2>3. Deque!Enqueue(q, n) = e
    BY <2>1 DEF Deque!Enqueue
  <2>4. t \in Seq(ShotNumbers) /\ Len(t) = Len(q) - 1 /\ \A i \in 1..Len(t) : t[i] = q[i + 1]
    BY <2>1, HeadTailProperties
  <2> HIDE DEF t
  <2>5. /\ e \in Seq(ShotNumbers) /\ Len(e) = Len(q)
        /\ (\A i \in 1..Len(t) : e[i] = t[i]) /\ e[Len(t) + 1] = n
    BY <1>1, <2>4, AppendProperties
  <2>6. \A i \in 2..Len(a) : a[i] \in ShotNumbers
    BY <1>1
  <2>7. /\ l \in Seq(ShotNumbers) /\ Len(l) = Len(a) - 2 + 1
        /\ \A i \in 1..(Len(a) - 2 + 1) : l[i] = a[2 + i - 1]
    BY <1>1, <1>2, <1>4, <2>6, SubSeqProperties
  <2> HIDE DEF e, l
  <2>8. Len(l) = Len(e) /\ Len(e) = Len(q) /\ Len(t) = Len(q) - 1 /\ Len(q) \in Nat \ {0}
    BY <1>1, <1>2, <1>4, <2>4, <2>5, <2>7
  <2>9. ASSUME NEW i \in 1..Len(l)  PROVE l[i] = e[i]
    <3>1. i \in 1..(Len(a) - 2 + 1) /\ 2 + i - 1 = i + 1
      BY <2>7
    <3>2. l[i] = a[i + 1]
      BY <2>7, <3>1
    <3>3. CASE i = Len(q)
      <4>1. e[i] = n /\ a[i + 1] = n
        BY <1>1, <2>5, <2>8, <3>3
      <4> QED  BY <3>2, <4>1
    <3>4. CASE i # Len(q)
      <4>1. i \in 1..Len(t) /\ i + 1 \in 1..Len(q)
        BY <2>8, <3>4
      <4>2. e[i] = q[i + 1]
        BY <2>4, <2>5, <4>1
      <4> QED  BY <1>1, <3>2, <4>1, <4>2
    <3> QED  BY <3>3, <3>4
  <2>10. l = e
    BY <2>5, <2>7, <2>8, <2>9, SeqEqual
  <2> QED  BY <2>2, <2>3, <2>10 DEF a
<1> QED  BY <1>1, <1>2, <1>3, <1>4

\* Of the first t of some shots, those of a crossbow; a list of them as it was kept at
\* some moment.
ShotsOf(order, c, t) == {n \in 1..t : order[n] = c}
Snapshot(order, c, list) == \E t \in 0..Len(order) : Deque!HoldsLatest(list, ShotsOf(order, c, t))

\* The two properties in these words, before and after a step.
LEMMA KeptIs ==
  ASSUME NEW list, NEW c, NEW t
  PROVE  /\ IsKeptOf(list, c, t) <=> Deque!HoldsLatest(list, ShotsOf(log, c, t))
         /\ IsKeptOf(list, c, t)' <=> Deque!HoldsLatest(list, ShotsOf(log', c, t))
BY DEF IsKeptOf, ShotsOf, Recent!HoldsLatest, Deque!HoldsLatest

\* The invariant in these words.
SnapshotInv ==
    /\ \A c \in Crossbows : /\ Deque!HoldsLatest(crossbow_data_[c], ShotsOf(log, c, Len(log)))
                            /\ Snapshot(log, c, latest_analyses_[c])
    /\ analyst = "store" => Snapshot(log, First, shots)
    /\ request = "store" => Snapshot(log, id, copy)

\* It is what the property says.
LEMMA SnapshotInvIs == SnapshotInv => AnalysesAreSnapshots
BY KeptIs DEF SnapshotInv, Snapshot, AnalysesAreSnapshots

\* A shot that arrives changes nothing about the shots before it.
LEMMA SnapshotStays ==
  ASSUME NEW order \in Seq(Crossbows), NEW d \in Crossbows, NEW c, NEW list, Snapshot(order, c, list)
  PROVE  Snapshot(Append(order, d), c, list)
<1>1. PICK t \in 0..Len(order) : Deque!HoldsLatest(list, ShotsOf(order, c, t))
  BY DEF Snapshot
<1>2. /\ Len(Append(order, d)) = Len(order) + 1 /\ Len(order) \in Nat
      /\ \A n \in 1..Len(order) : Append(order, d)[n] = order[n]
  BY AppendProperties
<1>3. ShotsOf(Append(order, d), c, t) = ShotsOf(order, c, t)
  BY <1>1, <1>2 DEF ShotsOf
<1>4. t \in 0..Len(Append(order, d))
  BY <1>1, <1>2
<1> QED  BY <1>1, <1>3, <1>4 DEF Snapshot

\* What the table has of a crossbow is kept as long as shots of others arrive, and
\* takes in its own.
LEMMA FilingKeepsLatest ==
  ASSUME NEW order \in Seq(Crossbows), NEW d \in Crossbows, NEW c \in Crossbows,
         Len(order) + 1 \in ShotNumbers,
         NEW q \in Seq(ShotNumbers), Deque!HoldsLatest(q, ShotsOf(order, c, Len(order)))
  PROVE  LET more == Append(order, d)
         IN  Deque!HoldsLatest(IF c = d THEN LastOf(Append(q, Len(order) + 1), DataLimit) ELSE q,
                               ShotsOf(more, c, Len(more)))
<1> DEFINE more == Append(order, d)
           n == Len(order) + 1
           S == ShotsOf(order, c, Len(order))
<1>1. /\ Len(more) = n /\ Len(order) \in Nat /\ more[n] = d
      /\ \A k \in 1..Len(order) : more[k] = order[k]
  BY AppendProperties
<1>2. S \in SUBSET Nat /\ n \in Nat /\ \A m \in S : m < n
  BY <1>1 DEF ShotsOf
<1>3. CASE c = d
  <2>1. ShotsOf(more, c, n) = S \cup {n}
    <3> HIDE DEF more
    <3> QED  BY <1>1, <1>3 DEF ShotsOf
  <2>2. q \in Seq(Nat)
    BY DEF ShotNumbers
  <2>3. Deque!HoldsLatest(Deque!Enqueue(q, n), S \cup {n})
    <3> HIDE DEF S, n
    <3>1. Deque!HoldsLatest(q, S)
      BY DEF S
    <3>2. DataLimit \in Nat \ {0}
      OBVIOUS
    <3> QED  BY <1>2, <2>2, <3>1, <3>2, Deque!EnqueueHoldsLatest
  <2>4. Len(q) <= DataLimit
    BY DEF Deque!HoldsLatest
  <2>5. LastOf(Append(q, n), DataLimit) = Deque!Enqueue(q, n)
    BY <2>4, FilingIsEnqueue
  <2> QED  BY <1>1, <1>3, <2>1, <2>3, <2>5
<1>4. CASE c # d
  <2>1. ShotsOf(more, c, n) = S
    <3> HIDE DEF more
    <3> QED  BY <1>1, <1>4 DEF ShotsOf
  <2> QED  BY <1>1, <1>4, <2>1
<1> QED  BY <1>3, <1>4

\* Whatever the three threads do, the lists are those of one crossbow at one moment.
LEMMA SnapshotStep ==
  ASSUME TypeOK, SnapshotInv, [Next]_vars
  PROVE  SnapshotInv'
<1>0. /\ crossbow_data_ \in [Crossbows -> Seq(ShotNumbers)]
      /\ latest_analyses_ \in [Crossbows -> Seq(ShotNumbers)]
      /\ ids \subseteq Crossbows /\ id \in Crossbows /\ log \in Seq(Crossbows) /\ Len(log) \in Nat
      /\ analyst = "store" => First \in ids
  BY FirstListed DEF TypeOK
<1>1. \A c \in Crossbows : Snapshot(log, c, crossbow_data_[c])
  BY <1>0 DEF SnapshotInv, Snapshot
<1>2. ASSUME NEW d \in Crossbows, FileShot(d)  PROVE SnapshotInv'
  <2> DEFINE e == LastOf(Append(crossbow_data_[d], Len(log) + 1), DataLimit)
  <2>1. /\ log' = Append(log, d) /\ crossbow_data_' = [crossbow_data_ EXCEPT ![d] = e]
        /\ UNCHANGED <<latest_analyses_, analyst, ids, shots, request, id, copy>>
        /\ Len(log) + 1 \in ShotNumbers
    BY <1>0, <1>2 DEF FileShot, analystVars, requestVars, ShotNumbers
  <2>2. \A c, list : Snapshot(log, c, list) => Snapshot(log', c, list)
    BY <1>0, <2>1, SnapshotStays
  <2>3. ASSUME NEW c \in Crossbows
        PROVE  Deque!HoldsLatest(crossbow_data_'[c], ShotsOf(log', c, Len(log')))
    <3>1. crossbow_data_'[c] = IF c = d THEN LastOf(Append(crossbow_data_[c], Len(log) + 1), DataLimit)
                                        ELSE crossbow_data_[c]
      BY <1>0, <2>1
    <3>2. Deque!HoldsLatest(crossbow_data_[c], ShotsOf(log, c, Len(log)))
      BY DEF SnapshotInv
    <3>3. crossbow_data_[c] \in Seq(ShotNumbers)
      BY <1>0
    <3> QED  BY <1>0, <2>1, <3>1, <3>2, <3>3, FilingKeepsLatest
  <2>4. First' = First
    BY <2>1, FirstStays
  <2> QED  BY <2>1, <2>2, <2>3, <2>4 DEF SnapshotInv
<1>3. CASE Wake \/ Scan \/ RoundOver \/ Answer \/ Stop \/ \E c \in Crossbows : Ask(c)
  <2>1. /\ UNCHANGED <<tableVars, log, shots, copy>>
        /\ analyst' = "store" => UNCHANGED <<analyst, ids>>
        /\ request' = "store" => UNCHANGED <<request, id>>
    BY <1>3 DEF Wake, Scan, RoundOver, Answer, Stop, Ask, tableVars, analystVars, requestVars
  <2> QED  BY <2>1, FirstStays DEF SnapshotInv, tableVars
<1>4. CASE CopyShots
  <2>1. /\ UNCHANGED <<crossbow_data_, latest_analyses_, log, request, id, copy, ids>>
        /\ shots' = crossbow_data_[First] /\ ids # {}
    BY <1>4 DEF CopyShots, tableVars, requestVars
  <2>2. First' = First /\ First \in Crossbows
    BY <1>0, <2>1, FirstStays, FirstListed
  <2> QED  BY <1>1, <2>1, <2>2 DEF SnapshotInv
<1>5. CASE StoreAnalysis
  <2>1. /\ UNCHANGED <<crossbow_data_, log, request, id, copy>>
        /\ analyst' = "next" /\ Snapshot(log, First, shots)
        /\ latest_analyses_' = [latest_analyses_ EXCEPT ![First] = shots]
    BY <1>5 DEF StoreAnalysis, requestVars, SnapshotInv
  <2>2. \A c \in Crossbows : latest_analyses_'[c] = IF c = First THEN shots ELSE latest_analyses_[c]
    BY <1>0, <2>1
  <2> QED  BY <2>1, <2>2 DEF SnapshotInv
<1>6. CASE RequestCopy
  <2>1. /\ UNCHANGED <<crossbow_data_, latest_analyses_, log, analyst, ids, shots, id>>
        /\ copy' = crossbow_data_[id]
    BY <1>6 DEF RequestCopy, tableVars, analystVars
  <2>2. First' = First
    BY <2>1, FirstStays
  <2> QED  BY <1>0, <1>1, <2>1, <2>2 DEF SnapshotInv
<1>7. CASE RequestStore
  <2>1. /\ UNCHANGED <<crossbow_data_, log, analyst, ids, shots, id>>
        /\ request' = "read" /\ Snapshot(log, id, copy)
        /\ latest_analyses_' = [latest_analyses_ EXCEPT ![id] = copy]
    BY <1>7 DEF RequestStore, analystVars, SnapshotInv
  <2>2. First' = First
    BY <2>1, FirstStays
  <2>3. \A c \in Crossbows : latest_analyses_'[c] = IF c = id THEN copy ELSE latest_analyses_[c]
    BY <1>0, <2>1
  <2> QED  BY <2>1, <2>2, <2>3 DEF SnapshotInv
<1>8. CASE UNCHANGED vars
  BY <1>8, FirstStays DEF vars, tableVars, analystVars, requestVars, SnapshotInv
<1> QED
  BY <1>2, <1>3, <1>4, <1>5, <1>6, <1>7, <1>8 DEF Next, Analyst, Http

\* Every list of shots in the service is of one crossbow at one moment, and the table's
\* is of the present, for any limit and however the threads interleave.
THEOREM ListsAreSnapshots == Spec => []AnalysesAreSnapshots
<1>1. Init => SnapshotInv
  <2> SUFFICES ASSUME Init  PROVE SnapshotInv
    OBVIOUS
  <2>1. Len(<<>>) = 0 /\ 0 \in 0..0 /\ \A c : ShotsOf(<<>>, c, 0) = {}
    BY DEF ShotsOf
  <2>2. Deque!HoldsLatest(<<>>, {})
    BY DEF Deque!HoldsLatest
  <2>3. log = <<>> /\ analyst = "sleep" /\ request = "idle"
        /\ \A c \in Crossbows : crossbow_data_[c] = <<>> /\ latest_analyses_[c] = <<>>
    BY DEF Init
  <2> QED  BY <2>1, <2>2, <2>3 DEF SnapshotInv, Snapshot
<1>2. TypeOK /\ SnapshotInv /\ [Next]_vars => SnapshotInv'
  BY SnapshotStep
<1> QED  BY <1>1, <1>2, TypeCorrect, SnapshotInvIs, PTL DEF Spec

=============================================================================
