------------------------- MODULE CloudGatewayProofs -------------------------
(***************************************************************************)
(* Proofs about CloudGateway for any capacity, any delays and any number   *)
(* of messages: types, the order of frames, the back-off, and that the     *)
(* task implements LossyQueue.                                             *)
(***************************************************************************)
EXTENDS CloudGateway, SequenceTheorems, TLAPS

\* Message numbers.
Positive == Nat \ {0}

\* Inductive: the types, a message in hand while one is sent, and the Register
\* frame on the connection being served.
GatewayInv ==
    /\ TypeOK
    /\ pc = "send" => sending # NoMessage
    /\ RegisterComesFirst

\* The delay stays between its bounds and does not shrink when it is doubled.
LEMMA DoubledBounds ==
    ASSUME delay \in INITIAL_RECONNECT_DELAY .. MAX_RECONNECT_DELAY
    PROVE  /\ Doubled \in INITIAL_RECONNECT_DELAY .. MAX_RECONNECT_DELAY
           /\ Doubled >= delay
BY CloudGatewayAssumption DEF Doubled

\* The task starts in the invariant.
LEMMA GatewayInit == Init => GatewayInv
<1> SUFFICES ASSUME Init PROVE GatewayInv
  OBVIOUS
<1>1. accepted \in 0 .. MaxMessages /\ sending \in Nat
  BY CloudGatewayAssumption DEF Init, NoMessage
<1>2. outbound \in Seq(Nat \ {0}) /\ delivered \in Seq(Nat \ {0})
  BY DEF Init
<1>3. delay \in INITIAL_RECONNECT_DELAY .. MAX_RECONNECT_DELAY
  BY CloudGatewayAssumption DEF Init
<1>4. shutdown \in BOOLEAN /\ registered \in BOOLEAN
  BY Zenon DEF Init
<1> QED
  BY <1>1, <1>2, <1>3, <1>4 DEF Init, GatewayInv, TypeOK, RegisterComesFirst

\* Every step keeps the invariant.
LEMMA GatewayStep == GatewayInv /\ [Next]_vars => GatewayInv'
<1> SUFFICES ASSUME GatewayInv, [Next]_vars PROVE GatewayInv'
  OBVIOUS
<1> USE CloudGatewayAssumption DEF GatewayInv, TypeOK, RegisterComesFirst, NoMessage
<1>1. CASE Enqueue
  BY <1>1 DEF Enqueue
<1>2. CASE SignalShutdown
  <2>1. shutdown' \in BOOLEAN
    BY <1>2 DEF SignalShutdown
  <2> QED
    BY <1>2, <2>1 DEF SignalShutdown
<1>3. CASE ShutdownBeforeConnect \/ ConnectFails
  BY <1>3 DEF ShutdownBeforeConnect, ConnectFails
<1>11. CASE ConnectSucceeds
  <2>1. delay' \in INITIAL_RECONNECT_DELAY .. MAX_RECONNECT_DELAY
    BY <1>11 DEF ConnectSucceeds
  <2>2. registered' \in BOOLEAN
    BY Zenon, <1>11 DEF ConnectSucceeds
  <2> QED
    BY <1>11, <2>1, <2>2 DEF ConnectSucceeds
<1>4. CASE RegisterSent \/ RegisterFails
  BY Zenon, <1>4 DEF RegisterSent, RegisterFails, AfterRegisterFailed
<1>5. CASE ServeShutdown \/ ConnectionEnds
  BY <1>5 DEF ServeShutdown, ConnectionEnds
<1>6. CASE TakeMessage
  <2>1. Head(outbound) \in Positive /\ Tail(outbound) \in Seq(Positive)
    BY <1>6, HeadTailProperties DEF TakeMessage, Positive
  <2> QED
    BY <1>6, <2>1 DEF TakeMessage, Positive
<1>7. CASE SendSucceeds
  BY <1>7 DEF SendSucceeds
<1>8. CASE SendFails
  BY <1>8 DEF SendFails
<1>9. CASE SleepEnds
  BY <1>9, DoubledBounds DEF SleepEnds
<1>10. CASE UNCHANGED vars
  BY <1>10 DEF vars
<1> QED
  BY <1>1, <1>2, <1>3, <1>4, <1>5, <1>6, <1>7, <1>8, <1>9, <1>10, <1>11
  DEF Next

\* The variables of the connection task keep their types; in particular the
\* delay stays between its two bounds.
THEOREM TypeCorrect == Spec => []TypeOK
<1>1. GatewayInv => TypeOK
  BY DEF GatewayInv
<1> QED
  BY GatewayInit, GatewayStep, <1>1, PTL DEF Spec

\* No message is written to a connection before its Register frame.
THEOREM RegisterFirst == Spec => []RegisterComesFirst
<1>1. GatewayInv => RegisterComesFirst
  BY DEF GatewayInv
<1> QED
  BY GatewayInit, GatewayStep, <1>1, PTL DEF Spec

\* The back-off shrinks only when a connection is established.
THEOREM BackoffMonotone == Spec => BackoffShrinksOnConnect
<1>1. GatewayInv /\ [Next]_vars => [delay' < delay => pc' = "register"]_vars
  <2> SUFFICES ASSUME GatewayInv, Next, delay' < delay PROVE pc' = "register"
    OBVIOUS
  <2>1. delay \in Int /\ (delay' # delay)
    BY CloudGatewayAssumption DEF GatewayInv, TypeOK
  <2>2. CASE SleepEnds
    BY <2>2, DoubledBounds, CloudGatewayAssumption
       DEF SleepEnds, GatewayInv, TypeOK, Doubled
  <2>3. CASE ~SleepEnds
    BY <2>1, <2>3
       DEF Next, Enqueue, SignalShutdown, ShutdownBeforeConnect, ConnectFails,
           ConnectSucceeds, RegisterSent, RegisterFails, ServeShutdown,
           TakeMessage, SendSucceeds, SendFails, ConnectionEnds
  <2> QED
    BY <2>2, <2>3
<1> QED
  BY GatewayInit, GatewayStep, <1>1, PTL DEF Spec, BackoffShrinksOnConnect
-----------------------------------------------------------------------------
(***************************************************************************)
(* The refinement.                                                         *)
(***************************************************************************)

\* Putting a message in front of a queue.
LEMMA Cons ==
    ASSUME NEW e \in Positive, NEW s \in Seq(Positive)
    PROVE  LET t == <<e>> \o s
           IN  /\ t \in Seq(Positive)
               /\ t # <<>>
               /\ Len(t) = Len(s) + 1
               /\ Head(t) = e
               /\ Tail(t) = s
               /\ SubSeq(t, 2, Len(t)) = s
               /\ \A f \in Positive : Append(t, f) = <<e>> \o Append(s, f)
<1> DEFINE t == <<e>> \o s
<1>1. /\ <<e>> \in Seq(Positive) /\ Len(<<e>>) = 1 /\ <<e>>[1] = e
      /\ Len(s) \in Nat
  OBVIOUS
<1>2. /\ t \in Seq(Positive) /\ Len(t) = Len(s) + 1
      /\ \A i \in 1 .. Len(s) + 1 : t[i] = IF i <= 1 THEN e ELSE s[i - 1]
  BY <1>1, ConcatProperties
<1>3. t # <<>> /\ Head(t) = e
  BY <1>1, <1>2
<1>4. Tail(t) = s
  <2>1. /\ Tail(t) \in Seq(Positive) /\ Len(Tail(t)) = Len(s)
        /\ \A i \in 1 .. Len(s) : Tail(t)[i] = t[i + 1]
    BY <1>1, <1>2, <1>3, HeadTailProperties
  <2>2. \A i \in 1 .. Len(s) : Tail(t)[i] = s[i]
    BY <1>1, <1>2, <2>1
  <2> QED
    BY <1>1, <2>1, <2>2, SeqEqual
<1>5. SubSeq(t, 2, Len(t)) = s
  BY <1>2, <1>3, <1>4, TailIsSubSeq
<1>6. ASSUME NEW f \in Positive
      PROVE  Append(t, f) = <<e>> \o Append(s, f)
  <2> DEFINE u == Append(s, f)
             v == <<e>> \o u
             w == Append(t, f)
  <2>1. /\ u \in Seq(Positive) /\ Len(u) = Len(s) + 1
        /\ \A i \in 1 .. Len(s) : u[i] = s[i]
        /\ u[Len(s) + 1] = f
    OBVIOUS
  <2>2. /\ w \in Seq(Positive) /\ Len(w) = Len(s) + 2
        /\ \A i \in 1 .. Len(s) + 1 : w[i] = t[i]
        /\ w[Len(s) + 2] = f
    BY <1>1, <1>2
  <2> HIDE DEF u, w
  <2>3. /\ v \in Seq(Positive) /\ Len(v) = Len(s) + 2
        /\ \A i \in 1 .. Len(s) + 2 : v[i] = IF i <= 1 THEN e ELSE u[i - 1]
    BY <1>1, <2>1, ConcatProperties
  <2> HIDE DEF t, v
  <2>4. \A i \in 1 .. Len(s) + 2 : w[i] = v[i]
    <3> TAKE i \in 1 .. Len(s) + 2
    <3>1. CASE i = 1
      BY SMTT(40), <1>1, <1>2, <2>2, <2>3, <3>1
    <3>2. CASE i = Len(s) + 2
      BY <1>1, <2>1, <2>2, <2>3, <3>2
    <3>3. CASE i # 1 /\ i # Len(s) + 2
      <4>1. i - 1 \in 1 .. Len(s) /\ i \in 1 .. Len(s) + 1 /\ ~(i <= 1)
        BY <1>1, <3>3
      <4> QED
        BY Zenon, <1>2, <2>1, <2>2, <2>3, <4>1
    <3> QED
      BY <3>1, <3>2, <3>3
  <2>5. w = v
    BY <1>1, <2>2, <2>3, <2>4, SeqEqual
  <2> QED
    BY <2>5 DEF u, v, w, t
<1> QED
  BY <1>2, <1>3, <1>4, <1>5, <1>6

\* Taking the first message and putting it back changes nothing.
LEMMA Uncons ==
    ASSUME NEW s \in Seq(Positive), s # <<>>
    PROVE  <<Head(s)>> \o Tail(s) = s
<1> DEFINE t == <<Head(s)>> \o Tail(s)
<1>1. /\ Head(s) \in Positive /\ Tail(s) \in Seq(Positive)
      /\ Len(Tail(s)) = Len(s) - 1 /\ Len(s) \in Nat /\ Len(s) >= 1
      /\ \A i \in 1 .. Len(s) - 1 : Tail(s)[i] = s[i + 1]
  BY HeadTailProperties
<1>2. /\ <<Head(s)>> \in Seq(Positive) /\ Len(<<Head(s)>>) = 1
      /\ <<Head(s)>>[1] = s[1]
  BY <1>1
<1>3. /\ t \in Seq(Positive) /\ Len(t) = Len(s)
      /\ \A i \in 1 .. Len(s) : t[i] = IF i <= 1 THEN <<Head(s)>>[i] ELSE Tail(s)[i - 1]
  BY <1>1, <1>2, ConcatProperties
<1> HIDE DEF t
<1>4. \A i \in 1 .. Len(s) : t[i] = s[i]
  <2> TAKE i \in 1 .. Len(s)
  <2>1. CASE i = 1
    BY <1>1, <1>2, <1>3, <2>1
  <2>2. CASE i # 1
    <3>1. i - 1 \in 1 .. Len(s) - 1 /\ ~(i <= 1) /\ (i - 1) + 1 = i
      BY <1>1, <2>2
    <3> QED
      BY <1>1, <1>3, <3>1
  <2> QED
    BY <2>1, <2>2
<1>5. t = s
  BY <1>3, <1>4, SeqEqual
<1> QED
  BY <1>5 DEF t

\* Initially the link is an empty queue.
LEMMA LinkInit == Init => Link!Init
BY DEF Init, Link!Init, LinkQueue

\* Every step of the task is a step of the link or leaves it alone.
LEMMA LinkStep == GatewayInv /\ [Next]_vars => [Link!Next]_Link!vars
<1> SUFFICES ASSUME GatewayInv, [Next]_vars PROVE [Link!Next]_Link!vars
  OBVIOUS
<1>0. /\ outbound \in Seq(Positive) /\ accepted \in Nat
      /\ pc = "send" => sending \in Positive
  BY CloudGatewayAssumption DEF GatewayInv, TypeOK, Positive, NoMessage
<1>1. CASE Enqueue
  <2>1. /\ pc # "stopped" /\ pc' = pc /\ accepted' = accepted + 1
        /\ outbound' = Append(outbound, accepted + 1) /\ sending' = sending
        /\ delivered' = delivered /\ accepted + 1 \in Positive
    BY <1>0, <1>1 DEF Enqueue, Positive
  <2>2. LinkQueue' = Append(LinkQueue, accepted + 1)
    <3>1. CASE pc = "send"
      BY <1>0, <2>1, <3>1, Cons DEF LinkQueue
    <3>2. CASE pc # "send"
      BY <2>1, <3>2 DEF LinkQueue
    <3> QED
      BY <3>1, <3>2
  <2> QED
    BY <2>1, <2>2 DEF Link!Next, Link!Accept
<1>2. CASE SignalShutdown
  BY <1>2 DEF SignalShutdown, Link!vars, LinkQueue
<1>3. CASE ShutdownBeforeConnect \/ ServeShutdown
  BY <1>3 DEF ShutdownBeforeConnect, ServeShutdown, Link!Next, Link!Close, LinkQueue
<1>4. CASE ConnectFails \/ ConnectSucceeds \/ RegisterSent \/ RegisterFails
           \/ ConnectionEnds \/ SleepEnds
  BY <1>4 DEF ConnectFails, ConnectSucceeds, RegisterSent, RegisterFails,
              AfterRegisterFailed, ConnectionEnds, SleepEnds, Link!vars, LinkQueue
<1>5. CASE TakeMessage
  <2>1. <<Head(outbound)>> \o Tail(outbound) = outbound
    BY <1>0, <1>5, Uncons DEF TakeMessage
  <2> QED
    BY <1>5, <2>1 DEF TakeMessage, Link!vars, LinkQueue
<1>6. CASE SendSucceeds
  <2>1. /\ LinkQueue = <<sending>> \o outbound /\ LinkQueue' = outbound
        /\ pc # "stopped" /\ pc' # "stopped" /\ accepted' = accepted
        /\ delivered' = Append(delivered, sending) /\ sending \in Positive
    BY <1>0, <1>6 DEF SendSucceeds, LinkQueue
  <2>2. LinkQueue # <<>> /\ Head(LinkQueue) = sending /\ Tail(LinkQueue) = outbound
    BY <1>0, <2>1, Cons
  <2> QED
    BY <2>1, <2>2 DEF Link!Next, Link!Deliver
<1>7. CASE SendFails
  <2>1. /\ LinkQueue = <<sending>> \o outbound /\ LinkQueue' = outbound
        /\ pc # "stopped" /\ pc' # "stopped" /\ accepted' = accepted
        /\ delivered' = delivered /\ sending \in Positive
    BY <1>0, <1>7 DEF SendFails, LinkQueue
  <2>2. /\ Len(LinkQueue) = Len(outbound) + 1
        /\ SubSeq(LinkQueue, 2, Len(LinkQueue)) = outbound
    BY <1>0, <2>1, Cons
  <2>3. 1 \in 1 .. Len(LinkQueue) /\ LinkQueue' = SubSeq(LinkQueue, 1 + 1, Len(LinkQueue))
    BY <1>0, <2>1, <2>2
  <2> QED
    BY Zenon, <2>1, <2>3 DEF Link!Next, Link!Lose
<1>8. CASE UNCHANGED vars
  BY <1>8 DEF vars, Link!vars, LinkQueue
<1> QED
  BY <1>1, <1>2, <1>3, <1>4, <1>5, <1>6, <1>7, <1>8 DEF Next

\* The connection task implements LossyQueue, whatever its capacity and
\* however often connections fail.
THEOREM Refinement == Spec => LinkSpec
BY GatewayInit, GatewayStep, LinkInit, LinkStep, PTL DEF Spec, LinkSpec, Link!Spec

\* The theorems about LossyQueue, for the queue of this task.
LinkTheory ==
    INSTANCE LossyQueueProofs WITH queue <- LinkQueue, closed <- (pc = "stopped")

\* The task implements the LossyQueue those theorems are about.
LEMMA LinkTheoryHolds == Spec => LinkTheory!Spec
<1>1. Init => LinkTheory!Init
  BY LinkInit DEF Link!Init, LinkTheory!Init
<1>2. GatewayInv /\ [Next]_vars => [LinkTheory!Next]_LinkTheory!vars
  BY Zenon, LinkStep
     DEF Link!Next, Link!Accept, Link!Deliver, Link!Lose, Link!Refuse,
         Link!Close, Link!vars,
         LinkTheory!Next, LinkTheory!Accept, LinkTheory!Deliver,
         LinkTheory!Lose, LinkTheory!Refuse, LinkTheory!Close, LinkTheory!vars
<1> QED
  BY GatewayInit, GatewayStep, <1>1, <1>2, PTL DEF Spec, LinkTheory!Spec

\* Over any number of connections, messages leave in the order they were
\* queued and none of them twice: the link does so, and the task implements it.
THEOREM InOrder == Spec => []DeliveredInOrder
<1>1. LinkTheory!DeliveredInOrder => DeliveredInOrder
  BY DEF DeliveredInOrder, Link!DeliveredInOrder, LinkTheory!DeliveredInOrder
<1> QED
  BY LinkTheoryHolds, <1>1, LinkTheory!InOrder, PTL

\* What the task holds and what it has sent are messages that were queued, and
\* together no more of them than were queued.
THEOREM NothingInvented == Spec => []LinkTheory!Accounted
BY LinkTheoryHolds, LinkTheory!NothingInvented, PTL
=============================================================================
