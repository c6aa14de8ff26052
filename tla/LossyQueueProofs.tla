-------------------------- MODULE LossyQueueProofs --------------------------
(***************************************************************************)
(* Proof that a LossyQueue delivers in order and at most once, and that    *)
(* what it holds or has delivered was accepted.                            *)
(***************************************************************************)
EXTENDS LossyQueue, SequenceTheorems, TLAPS

Increasing(s) == \A i, j \in 1 .. Len(s) : i < j => s[i] < s[j]

\* Everything in s is smaller than everything in t.
Precedes(s, t) == \A i \in 1 .. Len(s), j \in 1 .. Len(t) : s[i] < t[j]

AtMost(s, n) == \A i \in 1 .. Len(s) : s[i] <= n

\* Inductive: what is queued is in order, later than what was delivered and
\* not later than what was accepted.
QueueInv ==
    /\ accepted \in Nat
    /\ queue \in Seq(Nat)
    /\ delivered \in Seq(Nat)
    /\ Increasing(queue)
    /\ Increasing(delivered)
    /\ Precedes(delivered, queue)
    /\ AtMost(queue, accepted)
    /\ AtMost(delivered, accepted)

\* Appending, element by element.
LEMMA AppendFacts ==
    ASSUME NEW s \in Seq(Nat), NEW e \in Nat
    PROVE  /\ Append(s, e) \in Seq(Nat)
           /\ Len(Append(s, e)) = Len(s) + 1
           /\ \A i \in 1 .. Len(s) : s[i] \in Nat /\ Append(s, e)[i] = s[i]
           /\ Append(s, e)[Len(s) + 1] = e
           /\ \A i \in 1 .. Len(s) + 1 : i \in 1 .. Len(s) \/ i = Len(s) + 1
           /\ Len(s) \in Nat
OBVIOUS

\* Appending a larger number keeps a sequence increasing.
LEMMA AppendIncreasing ==
    ASSUME NEW s \in Seq(Nat), NEW e \in Nat,
           Increasing(s), \A i \in 1 .. Len(s) : s[i] < e
    PROVE  Increasing(Append(s, e))
<1> DEFINE t == Append(s, e)
<1>1. /\ Len(t) = Len(s) + 1 /\ Len(s) \in Nat
      /\ \A i \in 1 .. Len(s) : t[i] = s[i]
      /\ t[Len(s) + 1] = e
  BY AppendFacts
<1> HIDE DEF t
<1> SUFFICES ASSUME NEW i \in 1 .. Len(t), NEW j \in 1 .. Len(t), i < j
             PROVE  t[i] < t[j]
  BY Zenon DEF Increasing, t
<1>2. i \in 1 .. Len(s)
  BY <1>1
<1>3. CASE j = Len(s) + 1
  BY <1>1, <1>2, <1>3
<1>4. CASE j # Len(s) + 1
  <2>1. j \in 1 .. Len(s)
    BY <1>1, <1>4
  <2> QED
    BY <1>1, <1>2, <2>1 DEF Increasing
<1> QED
  BY <1>3, <1>4

\* What is left of a sequence after its first n elements.
LEMMA SuffixFacts ==
    ASSUME NEW s \in Seq(Nat), NEW n \in 1 .. Len(s)
    PROVE  LET t == SubSeq(s, n + 1, Len(s))
           IN  /\ t \in Seq(Nat)
               /\ Len(t) = Len(s) - n
               /\ \A i \in 1 .. Len(t) : i + n \in 1 .. Len(s) /\ t[i] = s[i + n]
<1> DEFINE t == SubSeq(s, n + 1, Len(s))
<1>1. /\ Len(s) \in Nat /\ n \in Nat /\ n >= 1 /\ n <= Len(s)
      /\ \A i \in 1 .. Len(s) : s[i] \in Nat
  OBVIOUS
<1>2. /\ t = [i \in 1 .. Len(s) - n |-> s[i + n]]
      /\ Len(t) = Len(s) - n
  BY <1>1, SubSeqProperties
<1>3. \A i \in 1 .. Len(s) - n : i + n \in 1 .. Len(s)
  BY <1>1
<1>4. t \in Seq(Nat)
  BY <1>1, SubSeqProperties
<1> QED
  BY <1>2, <1>3, <1>4

\* A suffix of an increasing sequence is increasing, and inherits the bounds.
LEMMA SuffixOrder ==
    ASSUME NEW s \in Seq(Nat), NEW n \in 1 .. Len(s), NEW d \in Seq(Nat),
           NEW m \in Nat, Increasing(s), Precedes(d, s), AtMost(s, m)
    PROVE  LET t == SubSeq(s, n + 1, Len(s))
           IN  Increasing(t) /\ Precedes(d, t) /\ AtMost(t, m)
<1> DEFINE t == SubSeq(s, n + 1, Len(s))
<1>1. /\ Len(t) \in Nat
      /\ \A i \in 1 .. Len(t) : i + n \in 1 .. Len(s) /\ t[i] = s[i + n]
  BY SuffixFacts
<1> HIDE DEF t
<1>2. Increasing(t)
  <2> SUFFICES ASSUME NEW i \in 1 .. Len(t), NEW j \in 1 .. Len(t), i < j
               PROVE  t[i] < t[j]
    BY DEF Increasing
  <2>1. i + n < j + n
    BY <1>1
  <2> QED
    BY <1>1, <2>1 DEF Increasing
<1>3. Precedes(d, t) /\ AtMost(t, m)
  BY Zenon, <1>1 DEF Precedes, AtMost
<1> QED
  BY <1>2, <1>3 DEF t

\* What is left of a sequence without its element i.
LEMMA WithoutFacts ==
    ASSUME NEW s \in Seq(Nat), NEW i \in 1 .. Len(s)
    PROVE  LET t == SubSeq(s, 1, i - 1) \o SubSeq(s, i + 1, Len(s))
           IN  /\ t \in Seq(Nat)
               /\ Len(t) = Len(s) - 1
               /\ \A j \in 1 .. Len(t) :
                     \/ j < i /\ j \in 1 .. Len(s) /\ t[j] = s[j]
                     \/ j >= i /\ j + 1 \in 1 .. Len(s) /\ t[j] = s[j + 1]
<1> DEFINE a == SubSeq(s, 1, i - 1)
           b == SubSeq(s, i + 1, Len(s))
           t == a \o b
<1>1. Len(s) \in Nat /\ i \in Nat /\ i >= 1 /\ i <= Len(s)
  OBVIOUS
<1>2. /\ a \in Seq(Nat) /\ Len(a) = i - 1
      /\ \A j \in 1 .. i - 1 : a[j] = s[j]
  BY <1>1, SubSeqProperties
<1>3. /\ b \in Seq(Nat) /\ Len(b) = Len(s) - i
      /\ \A j \in 1 .. Len(b) : j + i \in 1 .. Len(s) /\ b[j] = s[j + i]
  BY Zenon, SuffixFacts
<1> HIDE DEF a, b
<1>4. /\ t \in Seq(Nat) /\ Len(t) = Len(a) + Len(b)
      /\ \A j \in 1 .. Len(a) + Len(b) : t[j] = IF j <= Len(a) THEN a[j] ELSE b[j - Len(a)]
  BY Zenon, <1>2, <1>3, ConcatProperties
<1> HIDE DEF t
<1>5. Len(t) = Len(s) - 1
  BY <1>1, <1>2, <1>3, <1>4
<1>6. ASSUME NEW j \in 1 .. Len(t)
      PROVE  \/ j < i /\ j \in 1 .. Len(s) /\ t[j] = s[j]
             \/ j >= i /\ j + 1 \in 1 .. Len(s) /\ t[j] = s[j + 1]
  <2>0. /\ j \in Nat /\ j >= 1 /\ j <= Len(s) - 1
        /\ Len(a) = i - 1 /\ Len(b) = Len(s) - i
    BY <1>1, <1>2, <1>3, <1>5
  <2>1. CASE j < i
    <3>1. /\ j \in 1 .. i - 1 /\ j \in 1 .. Len(s) /\ j <= Len(a)
          /\ j \in 1 .. Len(a) + Len(b)
      BY <1>1, <2>0, <2>1
    <3>2. t[j] = a[j] /\ a[j] = s[j]
      BY <1>2, <1>4, <3>1
    <3> QED
      BY <2>1, <3>1, <3>2
  <2>2. CASE j >= i
    <3>1. /\ j - (i - 1) \in 1 .. Len(b) /\ j - (i - 1) + i = j + 1
          /\ j \in 1 .. Len(a) + Len(b) /\ ~(j <= Len(a))
      BY <1>1, <2>0, <2>2
    <3>2. t[j] = b[j - (i - 1)]
      BY <2>0, <1>4, <3>1
    <3>3. j + 1 \in 1 .. Len(s) /\ b[j - (i - 1)] = s[j + 1]
      BY Zenon, <1>3, <3>1
    <3> QED
      BY <2>2, <3>2, <3>3
  <2> QED
    BY <1>1, <2>0, <2>1, <2>2
<1> QED
  BY Zenon, <1>4, <1>5, <1>6 DEF t, a, b

\* Without one element, an increasing sequence is increasing and keeps its bounds.
LEMMA WithoutOrder ==
    ASSUME NEW s \in Seq(Nat), NEW i \in 1 .. Len(s), NEW d \in Seq(Nat),
           NEW m \in Nat, Increasing(s), Precedes(d, s), AtMost(s, m)
    PROVE  LET t == SubSeq(s, 1, i - 1) \o SubSeq(s, i + 1, Len(s))
           IN  Increasing(t) /\ Precedes(d, t) /\ AtMost(t, m)
<1> DEFINE t == SubSeq(s, 1, i - 1) \o SubSeq(s, i + 1, Len(s))
<1>1. /\ Len(t) \in Nat
      /\ \A j \in 1 .. Len(t) :
            \/ j < i /\ j \in 1 .. Len(s) /\ t[j] = s[j]
            \/ j >= i /\ j + 1 \in 1 .. Len(s) /\ t[j] = s[j + 1]
  <2>1. /\ t \in Seq(Nat)
        /\ \A j \in 1 .. Len(t) :
              \/ j < i /\ j \in 1 .. Len(s) /\ t[j] = s[j]
              \/ j >= i /\ j + 1 \in 1 .. Len(s) /\ t[j] = s[j + 1]
    BY Zenon, WithoutFacts
  <2> HIDE DEF t
  <2> QED
    BY <2>1
<1> HIDE DEF t
<1>2. Increasing(t)
  <2> SUFFICES ASSUME NEW j \in 1 .. Len(t), NEW k \in 1 .. Len(t), j < k
               PROVE  t[j] < t[k]
    BY DEF Increasing
  <2>1. PICK x \in 1 .. Len(s) : t[j] = s[x] /\ ((j < i /\ x = j) \/ (j >= i /\ x = j + 1))
    <3>1. CASE j < i /\ j \in 1 .. Len(s) /\ t[j] = s[j]
      BY <3>1
    <3>2. CASE j >= i /\ j + 1 \in 1 .. Len(s) /\ t[j] = s[j + 1]
      BY <3>2
    <3> QED
      BY Zenon, <1>1, <3>1, <3>2
  <2>2. PICK y \in 1 .. Len(s) : t[k] = s[y] /\ ((k < i /\ y = k) \/ (k >= i /\ y = k + 1))
    <3>1. CASE k < i /\ k \in 1 .. Len(s) /\ t[k] = s[k]
      BY <3>1
    <3>2. CASE k >= i /\ k + 1 \in 1 .. Len(s) /\ t[k] = s[k + 1]
      BY <3>2
    <3> QED
      BY Zenon, <1>1, <3>1, <3>2
  <2>3. x < y
    BY <1>1, <2>1, <2>2
  <2> QED
    BY Zenon, <2>1, <2>2, <2>3 DEF Increasing
<1>3. Precedes(d, t) /\ AtMost(t, m)
  BY Zenon, <1>1 DEF Precedes, AtMost
<1> QED
  BY <1>2, <1>3 DEF t

\* The invariant is inductive: accepting appends the largest number so far,
\* delivering moves the smallest one, losing removes from the front, refusing
\* removes one anywhere.
LEMMA QueueStep == QueueInv /\ [Next]_vars => QueueInv'
<1> SUFFICES ASSUME QueueInv, [Next]_vars PROVE QueueInv'
  OBVIOUS
<1> USE DEF QueueInv
<1>1. CASE Accept
  <2>1. /\ accepted' = accepted + 1 /\ delivered' = delivered
        /\ queue' = Append(queue, accepted + 1)
    BY <1>1 DEF Accept
  <2>2. \A i \in 1 .. Len(queue) : queue[i] < accepted + 1
    BY AppendFacts DEF AtMost
  <2>3. Increasing(queue')
    BY <2>1, <2>2, AppendIncreasing
  <2>4. /\ Len(queue') = Len(queue) + 1 /\ queue' \in Seq(Nat)
        /\ \A i \in 1 .. Len(queue) + 1 : i \in 1 .. Len(queue) \/ i = Len(queue) + 1
        /\ \A i \in 1 .. Len(queue) : queue[i] \in Nat /\ queue'[i] = queue[i]
        /\ queue'[Len(queue) + 1] = accepted + 1
    BY <2>1, AppendFacts
  <2>5. \A i \in 1 .. Len(delivered) : delivered[i] \in Nat
    OBVIOUS
  <2>6. AtMost(queue', accepted') /\ AtMost(delivered', accepted')
    BY SMTT(40), <2>1, <2>4, <2>5 DEF AtMost
  <2>7. Precedes(delivered', queue')
    <3> SUFFICES ASSUME NEW i \in 1 .. Len(delivered), NEW j \in 1 .. Len(queue) + 1
                 PROVE  delivered[i] < queue'[j]
      BY <2>1, <2>4 DEF Precedes
    <3>1. CASE j = Len(queue) + 1
      BY SMTT(40), <2>4, <2>5, <3>1 DEF AtMost
    <3>2. CASE j \in 1 .. Len(queue)
      BY Zenon, <2>4, <3>2 DEF Precedes
    <3> QED
      BY <2>4, <3>1, <3>2
  <2> QED
    BY <2>1, <2>3, <2>4, <2>6, <2>7
<1>2. CASE Deliver
  <2>1. /\ accepted' = accepted /\ Len(queue) \in Nat /\ 1 \in 1 .. Len(queue)
        /\ queue' = SubSeq(queue, 1 + 1, Len(queue))
        /\ delivered' = Append(delivered, queue[1]) /\ queue[1] \in Nat
    BY <1>2 DEF Deliver
  <2>2. /\ queue' \in Seq(Nat)
        /\ Increasing(queue') /\ Precedes(delivered, queue') /\ AtMost(queue', accepted)
    BY Zenon, <2>1, SuffixFacts, SuffixOrder
  <2>3. Increasing(delivered')
    BY Zenon, <2>1, AppendIncreasing DEF Precedes
  <2>4. /\ Len(delivered') = Len(delivered) + 1 /\ delivered' \in Seq(Nat)
        /\ \A i \in 1 .. Len(delivered) + 1 :
              i \in 1 .. Len(delivered) \/ i = Len(delivered) + 1
        /\ \A i \in 1 .. Len(delivered) : delivered'[i] = delivered[i]
        /\ delivered'[Len(delivered) + 1] = queue[1]
    BY <2>1, AppendFacts
  <2>5. AtMost(delivered', accepted')
    BY <2>1, <2>4 DEF AtMost
  <2>6. \A j \in 1 .. Len(queue') : queue[1] < queue'[j]
    <3> TAKE j \in 1 .. Len(queue')
    <3>1. j + 1 \in 1 .. Len(queue) /\ queue'[j] = queue[j + 1] /\ 1 < j + 1
      BY <2>1, SuffixFacts
    <3> QED
      BY <2>1, <3>1 DEF Increasing
  <2>7. Precedes(delivered', queue')
    <3> SUFFICES ASSUME NEW i \in 1 .. Len(delivered) + 1, NEW j \in 1 .. Len(queue')
                 PROVE  delivered'[i] < queue'[j]
      BY <2>4 DEF Precedes
    <3> QED
      BY Zenon, <2>2, <2>4, <2>6 DEF Precedes
  <2> QED
    BY <2>1, <2>2, <2>3, <2>4, <2>5, <2>7
<1>3. CASE Lose
  <2>1. PICK n \in 1 .. Len(queue) : queue' = SubSeq(queue, n + 1, Len(queue))
    BY <1>3 DEF Lose
  <2>2. accepted' = accepted /\ delivered' = delivered
    BY <1>3 DEF Lose
  <2> QED
    BY <2>1, <2>2, SuffixFacts, SuffixOrder
<1>4. CASE Close
  BY <1>4 DEF Close, Increasing, Precedes, AtMost
<1>5. CASE Refuse
  <2>1. PICK i \in 1 .. Len(queue) :
           queue' = SubSeq(queue, 1, i - 1) \o SubSeq(queue, i + 1, Len(queue))
    BY Zenon, <1>5 DEF Refuse
  <2>2. accepted' = accepted /\ delivered' = delivered
    BY <1>5 DEF Refuse
  <2>3. /\ queue' \in Seq(Nat)
        /\ Increasing(queue') /\ Precedes(delivered, queue') /\ AtMost(queue', accepted)
    BY Zenon, <2>1, WithoutFacts, WithoutOrder
  <2> QED
    BY <2>2, <2>3
<1>6. CASE UNCHANGED vars
  BY <1>6 DEF vars
<1> QED
  BY <1>1, <1>2, <1>3, <1>4, <1>5, <1>6 DEF Next

\* An empty queue is in order.
LEMMA QueueInit == Init => QueueInv
BY DEF Init, QueueInv, Increasing, Precedes, AtMost

\* Whatever is lost, messages are delivered in the order they were accepted,
\* none of them twice.
THEOREM InOrder == Spec => []DeliveredInOrder
<1>1. QueueInv => DeliveredInOrder
  BY DEF QueueInv, Increasing, DeliveredInOrder
<1> QED
  BY QueueInit, QueueStep, <1>1, PTL DEF Spec

\* Each accepted message is queued, delivered or lost, and only one of them: no
\* message is invented, and what is queued and what was delivered together are
\* no more than was accepted.
Accounted ==
    /\ \A i \in DOMAIN delivered : delivered[i] \in 1 .. accepted
    /\ Len(queue) + Len(delivered) <= accepted

\* Accounted, and the same of what is queued.
AccountInv ==
    /\ \A i \in 1 .. Len(queue) : queue[i] >= 1
    /\ \A i \in 1 .. Len(delivered) : delivered[i] >= 1
    /\ Len(queue) + Len(delivered) <= accepted

\* Accepting adds one to both sides, delivering moves one from the queue, losing,
\* refusing and closing only make the queue shorter.
LEMMA AccountStep == QueueInv /\ AccountInv /\ [Next]_vars => AccountInv'
<1> SUFFICES ASSUME QueueInv, AccountInv, [Next]_vars PROVE AccountInv'
  OBVIOUS
<1>0. /\ accepted \in Nat /\ queue \in Seq(Nat) /\ delivered \in Seq(Nat)
      /\ Len(queue) \in Nat /\ Len(delivered) \in Nat
  BY DEF QueueInv
<1>1. CASE Accept
  <2>1. /\ accepted' = accepted + 1 /\ delivered' = delivered
        /\ queue' = Append(queue, accepted + 1)
    BY <1>1 DEF Accept
  <2>2. /\ Len(queue') = Len(queue) + 1
        /\ \A i \in 1 .. Len(queue) : queue'[i] = queue[i]
        /\ queue'[Len(queue) + 1] = accepted + 1
        /\ \A i \in 1 .. Len(queue) + 1 : i \in 1 .. Len(queue) \/ i = Len(queue) + 1
    BY <1>0, <2>1, AppendFacts
  <2> QED
    BY <1>0, <2>1, <2>2 DEF AccountInv
<1>2. CASE Deliver
  <2>1. /\ accepted' = accepted /\ 1 \in 1 .. Len(queue)
        /\ queue' = SubSeq(queue, 1 + 1, Len(queue))
        /\ delivered' = Append(delivered, queue[1]) /\ queue[1] \in Nat
    BY <1>0, <1>2 DEF Deliver
  <2>2. /\ Len(queue') = Len(queue) - 1
        /\ \A i \in 1 .. Len(queue') : i + 1 \in 1 .. Len(queue) /\ queue'[i] = queue[i + 1]
    BY Zenon, <1>0, <2>1, SuffixFacts
  <2>3. /\ Len(delivered') = Len(delivered) + 1
        /\ \A i \in 1 .. Len(delivered) : delivered'[i] = delivered[i]
        /\ delivered'[Len(delivered) + 1] = queue[1]
        /\ \A i \in 1 .. Len(delivered) + 1 :
              i \in 1 .. Len(delivered) \/ i = Len(delivered) + 1
    BY <1>0, <2>1, AppendFacts
  <2>4. \A i \in 1 .. Len(queue') : queue'[i] >= 1
    BY <2>2 DEF AccountInv
  <2>5. \A i \in 1 .. Len(delivered') : delivered'[i] >= 1
    BY <2>1, <2>3 DEF AccountInv
  <2>6. Len(queue') + Len(delivered') <= accepted'
    <3>1. Len(queue') + Len(delivered') = Len(queue) + Len(delivered)
      BY <1>0, <2>2, <2>3
    <3> QED
      BY Zenon, <2>1, <3>1 DEF AccountInv
  <2> QED
    BY <2>4, <2>5, <2>6 DEF AccountInv
<1>3. CASE Lose
  <2>1. PICK n \in 1 .. Len(queue) : queue' = SubSeq(queue, n + 1, Len(queue))
    BY <1>3 DEF Lose
  <2>2. accepted' = accepted /\ delivered' = delivered
    BY <1>3 DEF Lose
  <2>3. /\ Len(queue') = Len(queue) - n
        /\ \A i \in 1 .. Len(queue') : i + n \in 1 .. Len(queue) /\ queue'[i] = queue[i + n]
    BY <1>0, <2>1, SuffixFacts
  <2>4. \A i \in 1 .. Len(queue') : queue'[i] >= 1
    BY <2>3 DEF AccountInv
  <2>5. Len(queue') + Len(delivered') <= accepted'
    BY <1>0, <2>1, <2>2, <2>3 DEF AccountInv
  <2> QED
    BY <2>2, <2>4, <2>5 DEF AccountInv
<1>4. CASE Close
  BY <1>0, <1>4 DEF Close, AccountInv
<1>5. CASE Refuse
  <2>1. PICK i \in 1 .. Len(queue) :
           queue' = SubSeq(queue, 1, i - 1) \o SubSeq(queue, i + 1, Len(queue))
    BY Zenon, <1>5 DEF Refuse
  <2>2. accepted' = accepted /\ delivered' = delivered
    BY <1>5 DEF Refuse
  <2>3. /\ Len(queue') = Len(queue) - 1
        /\ \A j \in 1 .. Len(queue') : \E k \in 1 .. Len(queue) : queue'[j] = queue[k]
    BY Zenon, <1>0, <2>1, WithoutFacts
  <2>4. \A j \in 1 .. Len(queue') : queue'[j] >= 1
    BY <2>3 DEF AccountInv
  <2>5. Len(queue') + Len(delivered') <= accepted'
    BY <1>0, <2>2, <2>3 DEF AccountInv
  <2> QED
    BY <2>2, <2>4, <2>5 DEF AccountInv
<1>6. CASE UNCHANGED vars
  BY <1>6 DEF vars, AccountInv
<1> QED
  BY <1>1, <1>2, <1>3, <1>4, <1>5, <1>6 DEF Next

\* Nothing is delivered that was not accepted, and no more than was accepted.
THEOREM NothingInvented == Spec => []Accounted
<1>1. Init => AccountInv
  BY DEF Init, AccountInv
<1>2. QueueInv /\ AccountInv => Accounted
  BY DEF QueueInv, AccountInv, Accounted, AtMost
<1> QED
  BY QueueInit, QueueStep, <1>1, AccountStep, <1>2, PTL DEF Spec
=============================================================================
