------------------------- MODULE BoundedDequeProofs -------------------------
(***************************************************************************)
(* Facts about Enqueue for items of any kind and any capacity of at least 1.*)
(***************************************************************************)
EXTENDS BoundedDeque, SequenceTheorems, TLAPS

\* push() leaves the last items of the old queue, followed by the new one.
LEMMA EnqueueProperties ==
  ASSUME NEW S, NEW q \in Seq(S), NEW x \in S
  PROVE  /\ Enqueue(q, x) \in Seq(S)
         /\ Len(Enqueue(q, x)) = IF Len(q) >= Capacity THEN Len(q) ELSE Len(q) + 1
         /\ \A i \in 1..Len(Enqueue(q, x)) :
               Enqueue(q, x)[i] = IF i = Len(Enqueue(q, x)) THEN x
                                  ELSE q[i + (Len(q) + 1 - Len(Enqueue(q, x)))]
<1> USE CapacityAssumption DEF CapacityAssumption
<1>1. CASE Len(q) >= Capacity
  <2> DEFINE t == Tail(q)
  <2>1. q # <<>>
    BY <1>1
  <2>2. /\ t \in Seq(S)
        /\ Len(t) = Len(q) - 1
        /\ \A i \in 1..Len(t) : t[i] = q[i + 1]
    BY <2>1, HeadTailProperties
  <2>3. Enqueue(q, x) = Append(t, x)
    BY <1>1 DEF Enqueue
  <2> HIDE DEF t
  <2>4. /\ Append(t, x) \in Seq(S)
        /\ Len(Append(t, x)) = Len(q)
        /\ \A i \in 1..Len(t) : Append(t, x)[i] = t[i]
        /\ Append(t, x)[Len(t) + 1] = x
    BY <2>2, AppendProperties
  <2> QED  BY <1>1, <2>2, <2>3, <2>4
<1>2. CASE ~(Len(q) >= Capacity)
  <2>1. Enqueue(q, x) = Append(q, x)
    BY <1>2 DEF Enqueue
  <2>2. /\ Append(q, x) \in Seq(S)
        /\ Len(Append(q, x)) = Len(q) + 1
        /\ \A i \in 1..Len(q) : Append(q, x)[i] = q[i]
        /\ Append(q, x)[Len(q) + 1] = x
    BY AppendProperties
  <2> QED  BY <1>2, <2>1, <2>2
<1> QED  BY <1>1, <1>2

\* The length of the deque after push(), without the case distinction.
LEMMA EnqueueLength ==
  ASSUME NEW S, NEW q \in Seq(S), NEW x \in S, Len(q) <= Capacity
  PROVE  /\ Len(Enqueue(q, x)) \in Nat \ {0}
         /\ DOMAIN Enqueue(q, x) = 1..Len(Enqueue(q, x))
         /\ Len(Enqueue(q, x)) <= Capacity
         /\ Len(Enqueue(q, x)) = Len(q) + 1 \/ (Len(Enqueue(q, x)) = Len(q) /\ Len(q) = Capacity)
<1> DEFINE e == Enqueue(q, x)
<1>1. e \in Seq(S) /\ Len(e) = IF Len(q) >= Capacity THEN Len(q) ELSE Len(q) + 1
  BY EnqueueProperties
<1>2. Len(q) \in Nat /\ Len(e) \in Nat /\ DOMAIN e = 1..Len(e)
  BY <1>1
<1> HIDE DEF e
<1>3. Len(e) = IF Len(q) >= Capacity THEN Len(q) ELSE Len(q) + 1
  BY <1>1
<1>4. /\ Len(e) \in Nat \ {0}
      /\ Len(e) <= Capacity
      /\ Len(e) = Len(q) + 1 \/ (Len(e) = Len(q) /\ Len(q) = Capacity)
  <2>1. Capacity \in Nat \ {0}
    BY CapacityAssumption DEF CapacityAssumption
  <2>2. CASE Len(q) >= Capacity
    <3>1. Len(e) = Len(q)
      BY <1>3, <2>2
    <3>2. Len(q) = Capacity
      BY <1>2, <2>1, <2>2
    <3> QED  BY <1>2, <2>1, <3>1, <3>2
  <2>3. CASE ~(Len(q) >= Capacity)
    <3>1. Len(e) = Len(q) + 1
      BY <1>3, <2>3
    <3> QED  BY <1>2, <2>1, <2>3, <3>1
  <2> QED  BY <2>2, <2>3
<1> QED  BY <1>2, <1>4 DEF e

\* What push() leaves are the last items of the deque with the new one behind them.
LEMMA EnqueueItems ==
  ASSUME NEW S, NEW q \in Seq(S), NEW x \in S, Len(q) <= Capacity,
         NEW i \in 1..Len(Enqueue(q, x))
  PROVE  \/ i = Len(Enqueue(q, x)) /\ Enqueue(q, x)[i] = x
         \/ /\ i < Len(Enqueue(q, x))
            /\ i + (Len(q) + 1 - Len(Enqueue(q, x))) \in 1..Len(q)
            /\ Enqueue(q, x)[i] = q[i + (Len(q) + 1 - Len(Enqueue(q, x)))]
<1> DEFINE e == Enqueue(q, x)
<1>1. e[i] = IF i = Len(e) THEN x ELSE q[i + (Len(q) + 1 - Len(e))]
  <2>1. \A k \in 1..Len(e) : e[k] = IF k = Len(e) THEN x ELSE q[k + (Len(q) + 1 - Len(e))]
    BY EnqueueProperties
  <2> HIDE DEF e
  <2> QED  BY <2>1 DEF e
<1>2. /\ Len(e) \in Nat \ {0}
      /\ Len(e) = Len(q) + 1 \/ Len(e) = Len(q)
  BY EnqueueLength
<1>3. Len(q) \in Nat /\ i \in 1..Len(e)
  OBVIOUS
<1> HIDE DEF e
<1>4. CASE i = Len(e)
  BY <1>1, <1>4 DEF e
<1>5. CASE i # Len(e)
  <2>1. e[i] = q[i + (Len(q) + 1 - Len(e))]
    BY <1>1, <1>5
  <2>2. i < Len(e) /\ i + (Len(q) + 1 - Len(e)) \in 1..Len(q)
    BY <1>2, <1>3, <1>5
  <2> QED  BY <2>1, <2>2 DEF e
<1> QED  BY <1>4, <1>5

\* The deque q holds the last of the items o that were ever pushed to it.
IsTailOf(q, o) ==
    /\ Len(q) <= Len(o)
    /\ \A i \in 1..Len(q) : q[i] = o[Len(o) - Len(q) + i]

\* A deque that is the tail of what was pushed so far remains so after a push.
LEMMA EnqueueTail ==
  ASSUME NEW S, NEW q \in Seq(S), NEW o \in Seq(S), NEW x \in S,
         Len(q) <= Capacity, IsTailOf(q, o)
  PROVE  IsTailOf(Enqueue(q, x), Append(o, x))
<1>0. Len(q) <= Len(o) /\ \A i \in 1..Len(q) : q[i] = o[Len(o) - Len(q) + i]
  BY DEF IsTailOf
<1> DEFINE e == Enqueue(q, x)
           a == Append(o, x)
<1>1. /\ Len(e) \in Nat \ {0}
      /\ Len(e) = Len(q) + 1 \/ Len(e) = Len(q)
  BY EnqueueLength
<1>2. /\ Len(o) \in Nat /\ Len(q) \in Nat
      /\ Len(a) = Len(o) + 1
      /\ \A i \in 1..Len(o) : a[i] = o[i]
      /\ a[Len(o) + 1] = x
  BY AppendProperties
<1>3. \A i \in 1..Len(e) :
         \/ i = Len(e) /\ e[i] = x
         \/ /\ i < Len(e)
            /\ i + (Len(q) + 1 - Len(e)) \in 1..Len(q)
            /\ e[i] = q[i + (Len(q) + 1 - Len(e))]
  BY EnqueueItems
<1> HIDE DEF e, a
<1>4. Len(e) <= Len(a)
  BY <1>0, <1>1, <1>2
<1>5. ASSUME NEW i \in 1..Len(e)  PROVE e[i] = a[Len(a) - Len(e) + i]
  <2>1. CASE i = Len(e) /\ e[i] = x
    <3>1. Len(a) - Len(e) + i = Len(o) + 1
      BY <1>1, <1>2, <2>1
    <3> QED  BY <1>2, <2>1, <3>1
  <2>2. CASE i < Len(e)
    <3> DEFINE j == i + (Len(q) + 1 - Len(e))
               k == Len(o) - Len(q) + j
    <3>1. j \in 1..Len(q) /\ e[i] = q[j]
      BY <1>1, <1>3, <2>2
    <3>2. q[j] = o[k]
      BY <1>0, <3>1
    <3>3. k \in 1..Len(o) /\ k = Len(a) - Len(e) + i
      BY <1>0, <1>1, <1>2, <3>1
    <3> HIDE DEF j, k
    <3> QED  BY <1>2, <3>1, <3>2, <3>3
  <2> QED  BY <1>1, <1>3, <2>1, <2>2
<1> QED  BY <1>4, <1>5 DEF IsTailOf, e, a

\* A deque that holds the newest of n consecutive items does so after item n + 1.
LEMMA EnqueueNewest ==
  ASSUME NEW S, NEW q \in Seq(S), NEW n \in Nat, n + 1 \in S,
         Len(q) <= Capacity, Len(q) <= n,
         \A i \in 1..Len(q) : q[i] = n - Len(q) + i
  PROVE  /\ Len(Enqueue(q, n + 1)) <= n + 1
         /\ n - Len(q) <= n + 1 - Len(Enqueue(q, n + 1))
         /\ \A i \in 1..Len(Enqueue(q, n + 1)) :
               Enqueue(q, n + 1)[i] = n + 1 - Len(Enqueue(q, n + 1)) + i
<1> DEFINE x == n + 1
           e == Enqueue(q, x)
<1>0. x = n + 1 /\ x \in S /\ Len(q) \in Nat
  OBVIOUS
<1> HIDE DEF x
<1>1. /\ Len(e) \in Nat \ {0}
      /\ Len(e) = Len(q) + 1 \/ Len(e) = Len(q)
  BY <1>0, EnqueueLength
<1>2. \A i \in 1..Len(e) :
         \/ i = Len(e) /\ e[i] = x
         \/ /\ i < Len(e)
            /\ i + (Len(q) + 1 - Len(e)) \in 1..Len(q)
            /\ e[i] = q[i + (Len(q) + 1 - Len(e))]
  BY <1>0, EnqueueItems
<1> HIDE DEF e
<1>3. Len(e) <= x /\ n - Len(q) <= x - Len(e)
  BY <1>0, <1>1
<1>4. ASSUME NEW i \in 1..Len(e)  PROVE e[i] = x - Len(e) + i
  <2>1. CASE i = Len(e) /\ e[i] = x
    BY <1>0, <1>1, <2>1
  <2>2. CASE i < Len(e)
    <3> DEFINE j == i + (Len(q) + 1 - Len(e))
    <3>1. j \in 1..Len(q) /\ e[i] = q[j]
      BY <1>1, <1>2, <2>2
    <3>2. q[j] = n - Len(q) + j
      BY <3>1
    <3> QED  BY <1>0, <1>1, <3>1, <3>2
  <2> QED  BY <1>1, <1>2, <2>1, <2>2
<1> QED  BY <1>3, <1>4 DEF e, x

\* After push() the new item is in the deque, and so is every old one, but for the
\* oldest of a full deque.
LEMMA EnqueueKeeps ==
  ASSUME NEW S, NEW q \in Seq(S), NEW x \in S, Len(q) <= Capacity
  PROVE  /\ \E i \in 1..Len(Enqueue(q, x)) : Enqueue(q, x)[i] = x
         /\ \A k \in 1..Len(q) :
               \/ \E i \in 1..Len(Enqueue(q, x)) : Enqueue(q, x)[i] = q[k]
               \/ k = 1 /\ Len(q) = Capacity
<1> DEFINE e == Enqueue(q, x)
           d == Len(q) + 1 - Len(e)
<1>1. /\ Len(e) \in Nat \ {0}
      /\ Len(e) = Len(q) + 1 \/ (Len(e) = Len(q) /\ Len(q) = Capacity)
  BY EnqueueLength
<1>2. Len(q) \in Nat
  OBVIOUS
<1>3. \A i \in 1..Len(e) : e[i] = IF i = Len(e) THEN x ELSE q[i + d]
  BY EnqueueProperties
<1> HIDE DEF e
<1>4. Len(e) \in 1..Len(e) /\ e[Len(e)] = x
  BY <1>1, <1>3
<1>5. ASSUME NEW k \in 1..Len(q), ~(k = 1 /\ Len(q) = Capacity)
      PROVE  \E i \in 1..Len(e) : e[i] = q[k]
  <2>1. k - d \in 1..Len(e) /\ k - d # Len(e) /\ (k - d) + d = k
    BY <1>1, <1>2, <1>5
  <2>2. e[k - d] = q[(k - d) + d]
    <3> HIDE DEF d
    <3> QED  BY <1>3, <2>1
  <2> QED  BY <2>1, <2>2
<1> QED  BY <1>4, <1>5 DEF e

\* A deque that is the tail of what was pushed so far remains so after a pop.
LEMMA PopTail ==
  ASSUME NEW S, NEW q \in Seq(S), NEW o \in Seq(S), q # <<>>, IsTailOf(q, o)
  PROVE  IsTailOf(Tail(q), o)
<1>0. Len(q) <= Len(o) /\ \A i \in 1..Len(q) : q[i] = o[Len(o) - Len(q) + i]
  BY DEF IsTailOf
<1> DEFINE t == Tail(q)
<1>1. /\ Len(q) \in Nat \ {0} /\ Len(t) = Len(q) - 1 /\ Len(o) \in Nat
      /\ \A i \in 1..Len(t) : t[i] = q[i + 1]
  BY HeadTailProperties
<1> HIDE DEF t
<1>2. ASSUME NEW i \in 1..Len(t)  PROVE t[i] = o[Len(o) - Len(t) + i]
  <2>1. i + 1 \in 1..Len(q) /\ Len(o) - Len(q) + (i + 1) = Len(o) - Len(t) + i
    BY <1>1
  <2>2. q[i + 1] = o[Len(o) - Len(q) + (i + 1)]
    BY <1>0, <2>1
  <2> QED  BY <1>1, <2>1, <2>2
<1>3. Len(t) <= Len(o)
  BY <1>0, <1>1
<1> QED  BY <1>2, <1>3 DEF IsTailOf, t

\* Items at least as far apart as their places, and a newer one behind them.
LEMMA AppendSpaced ==
  ASSUME NEW S, S \subseteq Nat, NEW o \in Seq(S), NEW x \in S,
         \A i \in 1..Len(o), j \in 1..Len(o) : i <= j => o[i] + (j - i) <= o[j],
         \A i \in 1..Len(o) : o[i] < x
  PROVE  \A i \in 1..Len(Append(o, x)), j \in 1..Len(Append(o, x)) :
            i <= j => Append(o, x)[i] + (j - i) <= Append(o, x)[j]
<1> DEFINE a == Append(o, x)
<1>1. /\ Len(a) = Len(o) + 1 /\ Len(o) \in Nat /\ x \in Nat
      /\ \A i \in 1..Len(o) : a[i] = o[i] /\ o[i] \in Nat
      /\ a[Len(o) + 1] = x
  <2>1. \A i \in 1..Len(o) : o[i] \in S
    OBVIOUS
  <2>2. /\ Len(a) = Len(o) + 1 /\ Len(o) \in Nat
        /\ \A i \in 1..Len(o) : a[i] = o[i]
        /\ a[Len(o) + 1] = x
    BY AppendProperties
  <2> QED  BY <2>1, <2>2
<1> HIDE DEF a
<1>2. ASSUME NEW i \in 1..Len(a), NEW j \in 1..Len(a), i <= j
      PROVE  a[i] + (j - i) <= a[j]
  <2>1. CASE j \in 1..Len(o)
    <3>1. i \in 1..Len(o)
      BY <1>1, <1>2, <2>1
    <3>2. o[i] + (j - i) <= o[j]
      BY <1>2, <2>1, <3>1
    <3> QED  BY <1>1, <2>1, <3>1, <3>2
  <2>2. CASE j = Len(o) + 1 /\ i \in 1..Len(o)
    <3>1. Len(o) \in 1..Len(o) /\ i <= Len(o)
      BY <1>1, <2>2
    <3>2. o[i] + (Len(o) - i) <= o[Len(o)] /\ o[Len(o)] < x
      BY <2>2, <3>1
    <3>3. a[i] = o[i] /\ a[j] = x /\ o[i] \in Nat /\ o[Len(o)] \in Nat
      BY <1>1, <2>2, <3>1
    <3> QED  BY <1>1, <2>2, <3>2, <3>3
  <2>3. CASE j = Len(o) + 1 /\ i = Len(o) + 1
    BY <1>1, <2>3
  <2>4. \/ j \in 1..Len(o)
        \/ j = Len(o) + 1 /\ i \in 1..Len(o)
        \/ j = Len(o) + 1 /\ i = Len(o) + 1
    BY <1>1, <1>2
  <2> QED  BY <2>1, <2>2, <2>3, <2>4
<1> QED  BY <1>2 DEF a

\* A number above all in S joins the latest of them.
LEMMA EnqueueHoldsLatest ==
  ASSUME NEW S \in SUBSET Nat, NEW q \in Seq(Nat), HoldsLatest(q, S),
         NEW n \in Nat, \A m \in S : m < n
  PROVE  Enqueue(q, n) \in Seq(Nat) /\ HoldsLatest(Enqueue(q, n), S \cup {n})
<1> USE CapacityAssumption DEF CapacityAssumption
<1>1. Len(q) \in Nat /\ Len(q) <= Capacity
  BY DEF HoldsLatest
<1> DEFINE e == Enqueue(q, n)
<1>2. /\ Len(e) \in Nat \ {0} /\ Len(e) <= Capacity
      /\ Len(e) = Len(q) + 1 \/ (Len(e) = Len(q) /\ Len(q) = Capacity)
  BY <1>1, EnqueueLength
<1> DEFINE d == Len(q) + 1 - Len(e)
<1>3. \A i \in 1..Len(e) : \/ i = Len(e) /\ e[i] = n
                           \/ i < Len(e) /\ i + d \in 1..Len(q) /\ e[i] = q[i + d]
  BY <1>1, EnqueueItems
<1>4. e \in Seq(Nat)
  BY EnqueueProperties
<1> HIDE DEF e
<1>5. /\ Len(q) \in Nat /\ Len(e) \in Nat \ {0} /\ d \in 0..1 /\ Len(e) <= Capacity
      /\ Len(q) = Capacity => d = 1
      /\ d = 1 => Len(e) = Capacity
      /\ Len(q) = Len(e) - 1 + d
  BY <1>1, <1>2
<1> HIDE DEF d
<1>6. \A i \in 1..(Len(e) - 1) : i + d \in 1..Len(q) /\ e[i] = q[i + d] /\ e[i] \in S /\ e[i] < n
  <2> TAKE i \in 1..(Len(e) - 1)
  <2>1. i \in 1..Len(e) /\ i # Len(e)
    BY <1>5
  <2>2. i + d \in 1..Len(q) /\ e[i] = q[i + d]
    BY <1>3, <2>1
  <2> QED  BY <2>1, <2>2 DEF HoldsLatest
<1>7. e[Len(e)] = n
  BY <1>2, <1>3
<1>8. \A i \in 1..Len(e) : e[i] \in S \cup {n}
  BY <1>5, <1>6, <1>7
<1>9. ASSUME NEW i \in 1..Len(e), NEW j \in 1..Len(e), i < j  PROVE e[i] < e[j]
  <2>1. i \in 1..(Len(e) - 1)
    BY <1>5, <1>9
  <2>2. CASE j = Len(e)
    BY <1>6, <1>7, <2>1, <2>2
  <2>3. CASE j # Len(e)
    <3>1. j \in 1..(Len(e) - 1) /\ i + d < j + d
      BY <1>5, <1>9, <2>3
    <3> QED  BY <1>6, <2>1, <3>1 DEF HoldsLatest
  <2> QED  BY <2>2, <2>3
<1>10. ASSUME NEW m \in S \cup {n}
      PROVE  \/ \E i \in 1..Len(e) : e[i] = m
             \/ Len(e) = Capacity /\ \A i \in 1..Len(e) : m < e[i]
  <2>1. CASE m = n
    BY <1>5, <1>7, <2>1
  <2>2. ASSUME m \in S, NEW k \in 1..Len(q), q[k] = m, k - d >= 1
        PROVE  \E i \in 1..Len(e) : e[i] = m
    <3>1. k - d \in 1..(Len(e) - 1) /\ (k - d) + d = k
      BY <1>5, <2>2
    <3>2. e[k - d] = m
      BY <1>6, <2>2, <3>1, Zenon
    <3>3. k - d \in 1..Len(e)
      BY <1>5, <3>1
    <3> QED  BY <3>2, <3>3
  <2>3. ASSUME m \in S, Len(e) = Capacity, m < n, \A i \in 1..Len(q) : i - d >= 1 => m < q[i]
        PROVE  \A i \in 1..Len(e) : m < e[i]
    <3>1. \A i \in 1..(Len(e) - 1) : (i + d) - d >= 1
      BY <1>5
    <3>2. \A i \in 1..(Len(e) - 1) : m < e[i]
      BY <1>6, <2>3, <3>1
    <3> QED  BY <1>5, <1>7, <2>3, <3>2
  <2>4. ASSUME m \in S, NEW k \in 1..Len(q), q[k] = m, ~(k - d >= 1)
        PROVE  Len(e) = Capacity /\ \A i \in 1..Len(q) : i - d >= 1 => m < q[i]
    <3>1. d = 1 /\ k = 1 /\ Len(e) = Capacity
      BY <1>5, <2>4
    <3>2. \A i \in 1..Len(q) : i - d >= 1 => k < i
      BY <3>1
    <3> QED  BY <2>4, <3>1, <3>2 DEF HoldsLatest
  <2>5. ASSUME m \in S, Len(q) = Capacity, \A i \in 1..Len(q) : m < q[i]
        PROVE  Len(e) = Capacity
    BY <1>5, <2>5
  <2>6. m \in S => m < n
    OBVIOUS
  <2>7. m \in S => \/ \E k \in 1..Len(q) : q[k] = m
                   \/ Len(q) = Capacity /\ \A i \in 1..Len(q) : m < q[i]
    BY DEF HoldsLatest
  <2> QED  BY <2>1, <2>2, <2>3, <2>4, <2>5, <2>6, <2>7
<1>11. HoldsLatest(e, S \cup {n})
  BY <1>5, <1>8, <1>9, <1>10 DEF HoldsLatest
<1> QED  BY <1>4, <1>11 DEF e

\* Making room before a push and making it after come to the same.
LEMMA EnqueueMakesRoom ==
  ASSUME NEW S, NEW q \in Seq(S), NEW x \in S, Len(q) <= Capacity
  PROVE  Enqueue(q, x) = IF Len(Append(q, x)) > Capacity THEN Tail(Append(q, x)) ELSE Append(q, x)
<1> USE CapacityAssumption DEF CapacityAssumption
<1> DEFINE a == Append(q, x)
           t == Tail(q)
           e == Append(t, x)
           l == Tail(a)
<1>1. /\ a \in Seq(S) /\ Len(a) = Len(q) + 1 /\ Len(q) \in Nat
      /\ \A i \in 1..Len(q) : a[i] = q[i]
      /\ a[Len(q) + 1] = x
  BY AppendProperties
<1>2. CASE Len(q) < Capacity
  <2>1. ~(Len(a) > Capacity) /\ ~(Len(q) >= Capacity)
    BY <1>1, <1>2
  <2> QED  BY <2>1 DEF Enqueue
<1>3. CASE Len(q) = Capacity
  <2>1. q # <<>> /\ a # <<>> /\ Len(a) > Capacity /\ Len(q) >= Capacity
    BY <1>1, <1>3
  <2>2. t \in Seq(S) /\ Len(t) = Len(q) - 1 /\ \A i \in 1..Len(t) : t[i] = q[i + 1]
    BY <2>1, HeadTailProperties
  <2> HIDE DEF a
  <2>3. l \in Seq(S) /\ Len(l) = Len(a) - 1 /\ \A i \in 1..Len(l) : l[i] = a[i + 1]
    BY <1>1, <2>1, HeadTailProperties
  <2> HIDE DEF t, l
  <2>4. /\ e \in Seq(S) /\ Len(e) = Len(t) + 1
        /\ (\A i \in 1..Len(t) : e[i] = t[i]) /\ e[Len(t) + 1] = x
    BY <2>2, AppendProperties
  <2> HIDE DEF e
  <2>5. Len(l) = Len(e) /\ Len(e) = Len(q) /\ Len(t) = Len(q) - 1 /\ Len(q) \in Nat \ {0}
    BY <1>1, <1>3, <2>2, <2>3, <2>4
  <2>6. ASSUME NEW i \in 1..Len(l)  PROVE l[i] = e[i]
    <3>1. l[i] = a[i + 1]
      BY <2>3
    <3>2. CASE i = Len(q)
      <4>1. e[i] = x /\ a[i + 1] = x
        BY <1>1, <2>4, <2>5, <3>2
      <4> QED  BY <3>1, <4>1
    <3>3. CASE i # Len(q)
      <4>1. i \in 1..Len(t) /\ i + 1 \in 1..Len(q)
        BY <2>5, <3>3
      <4>2. e[i] = q[i + 1]
        BY <2>2, <2>4, <4>1
      <4> QED  BY <1>1, <3>1, <4>1, <4>2
    <3> QED  BY <3>2, <3>3
  <2>7. l = e
    BY <2>3, <2>4, <2>5, <2>6, SeqEqual
  <2>8. Enqueue(q, x) = e
    BY <2>1 DEF Enqueue, e, t
  <2> QED  BY <2>1, <2>7, <2>8 DEF a, l
<1> QED  BY <1>1, <1>2, <1>3

\* A list and the places its items have in another: both make room alike.
LEMMA EnqueueTogether ==
  ASSUME NEW S, NEW order \in Seq(S), NEW x \in S,
         NEW at \in Seq(1..Len(order)), Len(at) <= Capacity,
         NEW q \in Seq(S), Len(q) = Len(at), \A i \in 1..Len(q) : q[i] = order[at[i]]
  PROVE  /\ Enqueue(at, Len(order) + 1) \in Seq(1..(Len(order) + 1))
         /\ Len(Enqueue(q, x)) = Len(Enqueue(at, Len(order) + 1))
         /\ \A i \in 1..Len(Enqueue(q, x)) :
               Enqueue(q, x)[i] = Append(order, x)[Enqueue(at, Len(order) + 1)[i]]
<1> USE CapacityAssumption DEF CapacityAssumption
<1> DEFINE n == Len(order) + 1
           p == Enqueue(at, n)
           e == Enqueue(q, x)
           more == Append(order, x)
<1>1. Len(order) \in Nat /\ n \in 1..n /\ Len(q) \in Nat
      /\ more[n] = x /\ \A k \in 1..Len(order) : more[k] = order[k]
  BY AppendProperties
<1>2. at \in Seq(1..n) /\ \A i \in 1..Len(at) : at[i] \in 1..Len(order)
  <2>1. 1..Len(order) \subseteq 1..n
    BY <1>1
  <2> QED  BY <2>1
<1> HIDE DEF n, more
<1>3. p \in Seq(1..n) /\ Len(p) = IF Len(at) >= Capacity THEN Len(at) ELSE Len(at) + 1
  BY <1>1, <1>2, EnqueueProperties
<1>4. Len(e) = IF Len(q) >= Capacity THEN Len(q) ELSE Len(q) + 1
  BY EnqueueProperties
<1>5. Len(e) = Len(p)
  BY <1>3, <1>4
<1>6. \A i \in 1..Len(p) :
         \/ i = Len(p) /\ p[i] = n
         \/ i < Len(p) /\ i + (Len(at) + 1 - Len(p)) \in 1..Len(at)
              /\ p[i] = at[i + (Len(at) + 1 - Len(p))]
  BY <1>1, <1>2, EnqueueItems
<1>7. \A i \in 1..Len(e) :
         \/ i = Len(e) /\ e[i] = x
         \/ i < Len(e) /\ i + (Len(q) + 1 - Len(e)) \in 1..Len(q)
              /\ e[i] = q[i + (Len(q) + 1 - Len(e))]
  BY EnqueueItems
<1>8. Len(p) \in Nat
  BY <1>3
<1> HIDE DEF p, e
<1>9. ASSUME NEW i \in 1..Len(e)  PROVE e[i] = more[p[i]]
  <2>1. CASE i = Len(e)
    <3>1. e[i] = x /\ p[i] = n
      BY <1>5, <1>6, <1>7, <1>8, <2>1
    <3> QED  BY <1>1, <3>1
  <2>2. CASE i # Len(e)
    <3> DEFINE k == i + (Len(q) + 1 - Len(e))
    <3>1. k \in 1..Len(q) /\ e[i] = q[k] /\ p[i] = at[k]
      BY <1>5, <1>6, <1>7, <2>2
    <3> HIDE DEF k
    <3>2. at[k] \in 1..Len(order) /\ q[k] = order[at[k]]
      BY <1>2, <3>1
    <3> QED  BY <1>1, <3>1, <3>2
  <2> QED  BY <2>1, <2>2
<1> QED  BY <1>3, <1>5, <1>9 DEF n, p, e, more

=============================================================================
