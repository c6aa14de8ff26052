-------------------------- MODULE GatewayMqttProofs --------------------------
(***************************************************************************)
(* Proofs about GatewayMqtt for any capacities, delays and numbers of      *)
(* messages: types, the use of credentials and the back-off; that the task *)
(* implements LossyQueue; and how full of messages the request channel is  *)
(* when the task waits for room in it.                                     *)
(***************************************************************************)
EXTENDS GatewayMqtt, SequenceTheorems, WellFoundedInduction, TLAPS

Positive == Nat \ {0}

\* Inductive: refused credentials are not cached, and the task only leaves the
\* login with cached ones; while it sends or announces it has what to send.
LoginInv ==
    /\ TypeOK
    /\ refused => ~cached
    /\ pc \notin {"login", "backoff", "stopped"} => cached
    /\ pc = "publish" => sending # NoMessage
    /\ pc = "announce" => announcing >= 1

\* The delay stays between its bounds and does not shrink when it is doubled.
LEMMA DoubledBounds ==
    ASSUME delay \in INITIAL_RECONNECT_DELAY .. MAX_RECONNECT_DELAY
    PROVE  /\ Doubled \in INITIAL_RECONNECT_DELAY .. MAX_RECONNECT_DELAY
           /\ Doubled >= delay
BY GatewayMqttAssumption DEF Doubled

\* The task starts in the invariant.
LEMMA LoginInit == Init => LoginInv
<1> SUFFICES ASSUME Init PROVE LoginInv
  OBVIOUS
<1>1. accepted \in 0 .. MaxMessages /\ sending \in Nat /\ announcing \in 0 .. 3
  BY GatewayMqttAssumption DEF Init, NoMessage
<1>2. /\ outbound \in Seq(Nat \ {0}) /\ delivered \in Seq(Nat \ {0})
      /\ requests \in Seq(Nat)
  BY DEF Init
<1>3. delay \in INITIAL_RECONNECT_DELAY .. MAX_RECONNECT_DELAY
  BY GatewayMqttAssumption DEF Init
<1>4. Len(requests) <= RequestCapacity
  BY GatewayMqttAssumption DEF Init
<1>5. shutdown \in BOOLEAN /\ cached \in BOOLEAN /\ refused \in BOOLEAN /\ connected \in BOOLEAN
  BY Zenon DEF Init
<1> QED
  BY <1>1, <1>2, <1>3, <1>4, <1>5 DEF Init, LoginInv, TypeOK

\* Every step keeps the invariant.
LEMMA LoginStep == LoginInv /\ [Next]_vars => LoginInv'
<1> SUFFICES ASSUME LoginInv, [Next]_vars PROVE LoginInv'
  OBVIOUS
<1> USE GatewayMqttAssumption
    DEF LoginInv, TypeOK, NoMessage, Control, queueVars, loginVars
<1>1. CASE Enqueue
  BY <1>1 DEF Enqueue
<1>2. CASE SignalShutdown
  <2>1. shutdown' \in BOOLEAN
    BY <1>2 DEF SignalShutdown
  <2> QED
    BY <1>2, <2>1 DEF SignalShutdown
<1>3. CASE UseCached \/ LoginFails \/ ShutdownAtLogin \/ BuildFails
  BY SMTT(40), <1>3 DEF UseCached, LoginFails, ShutdownAtLogin, BuildFails
<1>4. CASE LoginSucceeds
  <2>1. cached' \in BOOLEAN /\ refused' \in BOOLEAN
    BY Zenon, <1>4 DEF LoginSucceeds
  <2> QED
    BY <1>4, <2>1 DEF LoginSucceeds
<1>5. CASE BuildClient
  <2>1. connected' \in BOOLEAN
    BY Zenon, <1>5 DEF BuildClient
  <2> QED
    BY <1>5, <2>1 DEF BuildClient
<1>6. CASE TakeMessage
  <2>1. Head(outbound) \in Positive /\ Tail(outbound) \in Seq(Positive)
    BY <1>6, HeadTailProperties DEF TakeMessage, Positive
  <2> QED
    BY <1>6, <2>1 DEF TakeMessage, Positive
<1>6a. CASE PublishRejected
  <2>1. Tail(outbound) \in Seq(Positive)
    BY <1>6a, HeadTailProperties DEF PublishRejected, Positive
  <2> QED
    BY <1>6a, <2>1 DEF PublishRejected, Positive
<1>7. CASE Publish
  BY <1>7 DEF Publish, HasRoom
<1>8. ASSUME NEW n \in 0 .. 3, ConnAck(n)
      PROVE  LoginInv'
  <2>1. connected' \in BOOLEAN
    BY <1>8 DEF ConnAck
  <2>2. delay' \in INITIAL_RECONNECT_DELAY .. MAX_RECONNECT_DELAY
    BY <1>8 DEF ConnAck
  <2> QED
    BY <1>8, <2>1, <2>2 DEF ConnAck
<1>9. CASE Announce
  BY <1>9 DEF Announce, HasRoom
<1>10. CASE PollRequest
  <2>1. /\ Head(requests) \in Nat /\ Tail(requests) \in Seq(Nat)
        /\ Len(Tail(requests)) = Len(requests) - 1
    BY <1>10, HeadTailProperties DEF PollRequest
  <2>2. delivered' \in Seq(Nat \ {0})
    BY <1>10, <2>1 DEF PollRequest
  <2> QED
    BY <1>10, <2>1, <2>2 DEF PollRequest, RequestsAfterPoll
<1>11. ASSUME NEW bad \in BOOLEAN, ConnectionRefused(bad)
       PROVE  LoginInv'
  <2>1. cached' \in BOOLEAN /\ refused' \in BOOLEAN
    BY Zenon, <1>11 DEF ConnectionRefused, CachedAfterRefusal
  <2> QED
    BY <1>11, <2>1 DEF ConnectionRefused, CachedAfterRefusal
<1>12. CASE ConnectionLost \/ ShutdownAtServe
  BY SMTT(40), <1>12 DEF ConnectionLost, ShutdownAtServe
<1>13. CASE Disconnect
  BY <1>13 DEF Disconnect, HasRoom
<1>14. CASE BackoffEnds \/ ShutdownAtBackoff
  BY SMTT(40), <1>14, DoubledBounds DEF BackoffEnds, ShutdownAtBackoff
<1>15. CASE UNCHANGED vars
  BY <1>15 DEF vars
<1> QED
  BY <1>1, <1>2, <1>3, <1>4, <1>5, <1>6, <1>6a, <1>7, <1>8, <1>9, <1>10,
     <1>11, <1>12, <1>13, <1>14, <1>15
  DEF Next

\* The variables of the connection task keep their types; in particular the
\* request channel never holds more than its capacity.
THEOREM TypeCorrect == Spec => []TypeOK
<1>1. LoginInv => TypeOK
  BY DEF LoginInv
<1> QED
  BY LoginInit, LoginStep, <1>1, PTL DEF Spec

\* Whatever fails in between, credentials the broker has refused are replaced
\* by a login before the next connection.
THEOREM RefusedDropped == Spec => []RefusedCredentialsAreDropped
<1>1. LoginInv => RefusedCredentialsAreDropped
  BY DEF LoginInv, TypeOK, RefusedCredentialsAreDropped
<1> QED
  BY LoginInit, LoginStep, <1>1, PTL DEF Spec

\* The back-off shrinks only when the broker has accepted a connection.
THEOREM BackoffMonotone == Spec => BackoffShrinksOnConnAck
<1>1. LoginInv /\ [Next]_vars => [delay' < delay => ~connected /\ connected']_vars
  <2> SUFFICES ASSUME LoginInv, Next, delay' < delay PROVE ~connected /\ connected'
    OBVIOUS
  <2>1. delay \in Int /\ delay' # delay
    BY GatewayMqttAssumption DEF LoginInv, TypeOK
  <2>2. ~(BackoffEnds \/ ShutdownAtBackoff)
    BY DoubledBounds, GatewayMqttAssumption
       DEF BackoffEnds, ShutdownAtBackoff, LoginInv, TypeOK, Doubled
  <2> QED
    BY <2>1, <2>2
       DEF Next, Enqueue, SignalShutdown, UseCached, LoginSucceeds, LoginFails,
           ShutdownAtLogin, BuildClient, BuildFails, TakeMessage,
           PublishRejected, Publish, ConnAck, Announce, PollRequest, ConnectionRefused, ConnectionLost,
           ShutdownAtServe, Disconnect
<1> QED
  BY LoginInit, LoginStep, <1>1, PTL DEF Spec, BackoffShrinksOnConnAck
-----------------------------------------------------------------------------
(***************************************************************************)
(* The messages in the request channel.  MessagesIn is recursive; what it  *)
(* computes is proved by looking at the least index for which it would     *)
(* not.                                                                    *)
(***************************************************************************)

\* A non-empty set of numbers has a least one.
LEMMA Least ==
    ASSUME NEW T, T \subseteq Nat, T # {}
    PROVE  \E m \in T : \A k \in T : m <= k
<1>1. PICK x \in T : \A y \in T : ~(<<y, x>> \in OpToRel(<, Nat))
  BY WFMin, NatLessThanWellFounded, Zenon
<1>2. \A y \in T : ~(y < x)
  BY Zenon, <1>1 DEF OpToRel
<1> QED
  BY <1>2

\* So a set that holds 0 and, with each number below n, the next one, holds all
\* numbers up to n.
LEMMA Induction ==
    ASSUME NEW n \in Nat, NEW G, 0 \in G,
           \A i \in 1 .. n : i - 1 \in G => i \in G
    PROVE  \A i \in 0 .. n : i \in G
<1> SUFFICES ASSUME NEW j \in 0 .. n, j \notin G PROVE FALSE
  OBVIOUS
<1> DEFINE T == {i \in 0 .. n : i \notin G}
<1>1. PICK m \in T : \A k \in T : m <= k
  <2>1. j \in T /\ T \subseteq Nat
    OBVIOUS
  <2> QED
    BY Zenon, <2>1, Least
<1>2. m \in 1 .. n /\ m \notin G
  BY <1>1
<1>3. m - 1 \in G
  BY <1>1, <1>2
<1> QED
  BY <1>2, <1>3

\* f[i] is the sequence of the messages among the first i requests of rs.
Filters(f, rs, n) ==
    /\ f = [i \in 0 .. n |-> f[i]]
    /\ f[0] = <<>>
    /\ \A i \in 1 .. n :
          f[i] = IF IsMessage(rs[i]) THEN Append(f[i - 1], rs[i]) ELSE f[i - 1]

\* Such a function exists for every prefix.
LEMMA FiltersExists ==
    ASSUME NEW rs \in Seq(Nat), NEW n \in 0 .. Len(rs)
    PROVE  \E f : Filters(f, rs, n)
<1> DEFINE G == {i \in Nat : \E f : Filters(f, rs, i)}
<1>0. Len(rs) \in Nat
  OBVIOUS
<1>1. 0 \in G
  <2> DEFINE f == [i \in 0 .. 0 |-> <<>>]
  <2>1. Filters(f, rs, 0)
    BY DEF Filters
  <2> QED
    BY <2>1
<1>2. ASSUME NEW m \in 1 .. Len(rs), m - 1 \in G
      PROVE  m \in G
  <2>1. PICK f : Filters(f, rs, m - 1)
    BY <1>2
  <2> DEFINE last == IF IsMessage(rs[m]) THEN Append(f[m - 1], rs[m]) ELSE f[m - 1]
             g == [i \in 0 .. m |-> IF i < m THEN f[i] ELSE last]
  <2>2. m \in Nat /\ m >= 1 /\ \A i \in 1 .. m : i = m \/ i \in 1 .. m - 1
    BY <1>0
  <2> HIDE DEF last
  <2>3. /\ g = [i \in 0 .. m |-> g[i]]
        /\ g[0] = f[0] /\ g[m] = last
        /\ \A i \in 0 .. m - 1 : g[i] = f[i]
    BY <2>2
  <2> HIDE DEF g
  <2>4. g[0] = <<>>
    BY <2>1, <2>3 DEF Filters
  <2>5. ASSUME NEW i \in 1 .. m
        PROVE  g[i] = IF IsMessage(rs[i]) THEN Append(g[i - 1], rs[i]) ELSE g[i - 1]
    <3>1. i - 1 \in 0 .. m - 1
      BY <2>2
    <3>2. CASE i = m
      BY Zenon, <2>3, <3>1, <3>2 DEF last
    <3>3. CASE i \in 1 .. m - 1
      <4>1. i \in 0 .. m - 1
        BY <3>3
      <4> QED
        BY Zenon, <2>1, <2>3, <3>1, <3>3, <4>1 DEF Filters
    <3> QED
      BY <2>2, <3>2, <3>3
  <2>6. Filters(g, rs, m)
    BY Zenon, <2>3, <2>4, <2>5 DEF Filters
  <2> QED
    BY <2>2, <2>6
<1> HIDE DEF G
<1>3. n \in G
  BY Zenon, <1>0, <1>1, <1>2, Induction
<1> QED
  BY <1>3 DEF G

\* MessagesIn is its value for the whole sequence.
LEMMA MessagesInFilters ==
    ASSUME NEW rs \in Seq(Nat)
    PROVE  \E f : Filters(f, rs, Len(rs)) /\ MessagesIn(rs) = f[Len(rs)]
<1> DEFINE Step(f) == [i \in 0 .. Len(rs) |->
                          IF i = 0 THEN <<>>
                          ELSE IF IsMessage(rs[i]) THEN Append(f[i - 1], rs[i])
                          ELSE f[i - 1]]
           among == CHOOSE f : f = Step(f)
<1>1. MessagesIn(rs) = among[Len(rs)]
  BY Zenon DEF MessagesIn
<1>2. Len(rs) \in Nat
  OBVIOUS
<1>3. \E f : f = Step(f)
  <2>1. PICK f : Filters(f, rs, Len(rs))
    BY <1>2, FiltersExists
  <2>2. \A i \in 0 .. Len(rs) : i = 0 \/ i \in 1 .. Len(rs)
    BY <1>2
  <2>3. \A i \in 0 .. Len(rs) : f[i] = Step(f)[i]
    BY Zenon, <2>1, <2>2 DEF Filters
  <2>4. f = [i \in 0 .. Len(rs) |-> f[i]]
    BY <2>1 DEF Filters
  <2>5. f = Step(f)
    BY <2>3, <2>4
  <2> QED
    BY Zenon, <2>5
<1>4. among = Step(among)
  BY <1>3, Zenon
<1> HIDE DEF among
<1>5. Filters(among, rs, Len(rs))
  <2>1. DOMAIN among = 0 .. Len(rs) /\ among = [i \in DOMAIN among |-> among[i]]
    BY <1>4
  <2>2. \A i \in 0 .. Len(rs) : among[i] = Step(among)[i]
    BY Zenon, <1>4
  <2>3. \A i \in 0 .. Len(rs) :
           among[i] = IF i = 0 THEN <<>>
                      ELSE IF IsMessage(rs[i]) THEN Append(among[i - 1], rs[i])
                      ELSE among[i - 1]
    BY <2>2
  <2> HIDE DEF Step
  <2>4. 0 \in 0 .. Len(rs) /\ \A i \in 1 .. Len(rs) : i \in 0 .. Len(rs) /\ i # 0
    BY <1>2
  <2> QED
    BY Zenon, <2>1, <2>3, <2>4 DEF Filters
<1> QED
  BY <1>1, <1>5

\* Appending to the second of two sequences appends to both.
LEMMA ConcatAppend ==
    ASSUME NEW s \in Seq(Positive), NEW t \in Seq(Positive), NEW e \in Positive
    PROVE  Append(s \o t, e) = s \o Append(t, e)
<1>1. <<e>> \in Seq(Positive) /\ s \o t \in Seq(Positive)
  BY ConcatProperties
<1>2. Append(s \o t, e) = (s \o t) \o <<e>> /\ Append(t, e) = t \o <<e>>
  BY <1>1, AppendIsConcat
<1> QED
  BY <1>1, <1>2, ConcatAssociative

\* Every prefix yields a sequence of messages, none longer than the prefix.
LEMMA FiltersType ==
    ASSUME NEW rs \in Seq(Nat), NEW f, NEW n \in 0 .. Len(rs), Filters(f, rs, n)
    PROVE  \A i \in 0 .. n : f[i] \in Seq(Positive) /\ Len(f[i]) <= i
<1> DEFINE G == {i \in Nat : f[i] \in Seq(Positive) /\ Len(f[i]) <= i}
<1>1. Len(rs) \in Nat /\ n \in Nat /\ \A i \in 1 .. n : i \in 1 .. Len(rs)
  OBVIOUS
<1>2. 0 \in G
  <2>1. f[0] = <<>>
    BY DEF Filters
  <2>2. f[0] \in Seq(Positive) /\ Len(f[0]) <= 0
    BY <2>1
  <2> QED
    BY <2>2
<1>3. ASSUME NEW i \in 1 .. n, i - 1 \in G
      PROVE  i \in G
  <2>1. rs[i] \in Nat /\ (IsMessage(rs[i]) => rs[i] \in Positive)
    BY <1>1 DEF IsMessage, Control, Positive
  <2>2. f[i] = IF IsMessage(rs[i]) THEN Append(f[i - 1], rs[i]) ELSE f[i - 1]
    BY Zenon DEF Filters
  <2>3. f[i - 1] \in Seq(Positive) /\ Len(f[i - 1]) <= i - 1 /\ Len(f[i - 1]) \in Nat
    BY <1>3
  <2>4. CASE IsMessage(rs[i])
    <3>1. f[i] \in Seq(Positive) /\ Len(f[i]) = Len(f[i - 1]) + 1
      BY <2>1, <2>2, <2>3, <2>4, AppendProperties
    <3> QED
      BY <1>1, <2>3, <3>1
  <2>5. CASE ~IsMessage(rs[i])
    BY <1>1, <2>2, <2>3, <2>5
  <2> QED
    BY <2>4, <2>5
<1> HIDE DEF G
<1>4. \A i \in 0 .. n : i \in G
  BY Zenon, <1>1, <1>2, <1>3, Induction
<1> QED
  BY <1>4 DEF G

\* The messages of a prefix depend on that prefix only.
LEMMA FiltersAgree ==
    ASSUME NEW rs, NEW ts, NEW f, NEW g, NEW m \in Nat, NEW k \in Nat, NEW n \in Nat,
           n <= m, n <= k, Filters(f, rs, m), Filters(g, ts, k),
           \A i \in 1 .. n : rs[i] = ts[i]
    PROVE  f[n] = g[n]
<1> DEFINE G == {i \in Nat : f[i] = g[i]}
<1>1. 0 \in G
  BY DEF Filters
<1>2. ASSUME NEW i \in 1 .. n, i - 1 \in G
      PROVE  i \in G
  <2>1. i \in 1 .. m /\ i \in 1 .. k /\ i \in Nat
    OBVIOUS
  <2>2. /\ f[i] = IF IsMessage(rs[i]) THEN Append(f[i - 1], rs[i]) ELSE f[i - 1]
        /\ g[i] = IF IsMessage(ts[i]) THEN Append(g[i - 1], ts[i]) ELSE g[i - 1]
    BY Zenon, <2>1 DEF Filters
  <2> QED
    BY <1>2, <2>1, <2>2
<1> HIDE DEF G
<1>3. n \in G
  BY <1>1, <1>2, Induction
<1> QED
  BY <1>3 DEF G

\* An empty channel holds no messages.
LEMMA MessagesInEmpty == MessagesIn(<<>>) = <<>>
<1>1. <<>> \in Seq(Nat) /\ Len(<<>>) = 0
  OBVIOUS
<1>2. PICK f : Filters(f, <<>>, 0) /\ MessagesIn(<<>>) = f[0]
  BY Zenon, <1>1, MessagesInFilters
<1> QED
  BY <1>2 DEF Filters

\* The messages of a channel are messages, and no more than its requests.
LEMMA MessagesInType ==
    ASSUME NEW rs \in Seq(Nat)
    PROVE  MessagesIn(rs) \in Seq(Positive) /\ Len(MessagesIn(rs)) <= Len(rs)
<1>1. Len(rs) \in Nat /\ Len(rs) \in 0 .. Len(rs)
  OBVIOUS
<1>2. PICK f : Filters(f, rs, Len(rs)) /\ MessagesIn(rs) = f[Len(rs)]
  BY MessagesInFilters
<1> QED
  BY <1>1, <1>2, FiltersType

\* A request that is added adds its message at the end.
LEMMA MessagesInAppend ==
    ASSUME NEW rs \in Seq(Nat), NEW r \in Nat
    PROVE  MessagesIn(Append(rs, r)) = IF IsMessage(r) THEN Append(MessagesIn(rs), r)
                                       ELSE MessagesIn(rs)
<1> DEFINE ts == Append(rs, r)
           n == Len(rs)
<1>1. /\ ts \in Seq(Nat) /\ Len(ts) = n + 1 /\ n \in Nat
      /\ \A i \in 1 .. n : ts[i] = rs[i]
      /\ ts[n + 1] = r
  BY AppendProperties
<1>2. PICK f : Filters(f, rs, n) /\ MessagesIn(rs) = f[n]
  BY MessagesInFilters
<1>3. PICK g : Filters(g, ts, n + 1) /\ MessagesIn(ts) = g[n + 1]
  BY Zenon, <1>1, MessagesInFilters
<1> HIDE DEF ts, n
<1>4. g[n] = f[n]
  BY <1>1, <1>2, <1>3, FiltersAgree
<1>5. n + 1 \in 1 .. n + 1 /\ (n + 1) - 1 = n
  BY <1>1
<1>6. g[n + 1] = IF IsMessage(r) THEN Append(g[n], r) ELSE g[n]
  BY Zenon, <1>1, <1>3, <1>5 DEF Filters
<1> QED
  BY <1>2, <1>3, <1>4, <1>6 DEF ts

\* The request that is taken takes its message from the front.
LEMMA MessagesInTail ==
    ASSUME NEW rs \in Seq(Nat), rs # <<>>
    PROVE  MessagesIn(rs) = (IF IsMessage(Head(rs)) THEN <<Head(rs)>> ELSE <<>>)
                            \o MessagesIn(Tail(rs))
<1> DEFINE ts == Tail(rs)
           n == Len(ts)
           h == IF IsMessage(Head(rs)) THEN <<Head(rs)>> ELSE <<>>
<1>1. /\ ts \in Seq(Nat) /\ n \in Nat /\ Len(rs) = n + 1
      /\ \A i \in 1 .. n : ts[i] = rs[i + 1] /\ ts[i] \in Nat
      /\ Head(rs) = rs[1] /\ rs[1] \in Nat
  BY HeadTailProperties
<1>2. h \in Seq(Positive)
  <2>1. IsMessage(Head(rs)) => Head(rs) \in Positive
    BY <1>1 DEF IsMessage, Control, Positive
  <2>2. \A e \in Positive : <<e>> \in Seq(Positive)
    OBVIOUS
  <2> QED
    BY <2>1, <2>2
<1>3. PICK f : Filters(f, rs, n + 1) /\ MessagesIn(rs) = f[n + 1]
  BY <1>1, MessagesInFilters
<1>4. PICK g : Filters(g, ts, n) /\ MessagesIn(ts) = g[n]
  BY Zenon, <1>1, MessagesInFilters
<1>5. \A i \in 0 .. n : g[i] \in Seq(Positive)
  <2>1. n \in 0 .. Len(ts)
    BY <1>1
  <2> HIDE DEF ts, n
  <2> QED
    BY <1>1, <1>4, <2>1, FiltersType
<1> HIDE DEF ts, n
<1> DEFINE G == {i \in Nat : f[i + 1] = h \o g[i]}
<1>6. 0 \in G
  <2>1. f[1] = IF IsMessage(rs[1]) THEN Append(f[0], rs[1]) ELSE f[0]
    <3>1. 1 \in 1 .. n + 1 /\ 1 - 1 = 0
      BY <1>1
    <3> QED
      BY Zenon, <1>3, <3>1 DEF Filters
  <2>2. f[0] = <<>> /\ g[0] = <<>>
    BY <1>3, <1>4 DEF Filters
  <2>3. h \o <<>> = h /\ Append(<<>>, rs[1]) = <<rs[1]>>
    BY <1>2, ConcatEmptySeq
  <2>4. f[0 + 1] = h \o g[0]
    BY <1>1, <2>1, <2>2, <2>3
  <2> HIDE DEF h
  <2> QED
    BY <2>4
<1>7. ASSUME NEW i \in 1 .. n, i - 1 \in G
      PROVE  i \in G
  <2>1. /\ i \in Nat /\ i + 1 \in 1 .. n + 1 /\ (i + 1) - 1 = i /\ i - 1 \in 0 .. n
        /\ (i - 1) + 1 = i
    BY <1>1
  <2>2. f[i + 1] = IF IsMessage(rs[i + 1]) THEN Append(f[i], rs[i + 1]) ELSE f[i]
    BY Zenon, <1>3, <2>1 DEF Filters
  <2>3. g[i] = IF IsMessage(ts[i]) THEN Append(g[i - 1], ts[i]) ELSE g[i - 1]
    BY Zenon, <1>4 DEF Filters
  <2>4. f[i] = h \o g[i - 1]
    BY Zenon, <1>7, <2>1
  <2>5. ts[i] = rs[i + 1] /\ (IsMessage(ts[i]) => ts[i] \in Positive)
    BY <1>1 DEF IsMessage, Control, Positive
  <2> HIDE DEF h
  <2>6. IsMessage(ts[i]) => Append(h \o g[i - 1], ts[i]) = h \o Append(g[i - 1], ts[i])
    BY Zenon, <1>2, <1>5, <2>1, <2>5, ConcatAppend
  <2>7. f[i + 1] = h \o g[i]
    BY Zenon, <2>2, <2>3, <2>4, <2>5, <2>6
  <2> QED
    BY <2>1, <2>7
<1> HIDE DEF G
<1>8. \A i \in 0 .. n : i \in G
  <2>1. n \in Nat
    BY <1>1
  <2> QED
    BY Zenon, <1>6, <1>7, <2>1, Induction
<1>9. n \in G
  BY <1>1, <1>8
<1> QED
  BY Zenon, <1>3, <1>4, <1>9 DEF G, ts
-----------------------------------------------------------------------------
(***************************************************************************)
(* The refinement.                                                         *)
(***************************************************************************)

\* Initially the link is an empty queue.
LEMMA LinkInit == Init => Link!Init
<1> SUFFICES ASSUME Init PROVE Link!Init
  OBVIOUS
<1>1. LinkQueue = <<>>
  BY DEF Init, LinkQueue, InChannel
<1> QED
  BY <1>1 DEF Init, Link!Init

\* What is queued ahead of outbound: the messages in the channel of this
\* connection, then the one the task has in hand.
Ahead == InChannel \o (IF pc = "publish" THEN <<sending>> ELSE <<>>)

AheadFacts ==
    /\ requests \in Seq(Nat) /\ outbound \in Seq(Positive)
    /\ MessagesIn(requests) \in Seq(Positive)
    /\ Ahead \in Seq(Positive)
    /\ pc = "publish" => /\ sending \in Positive
                         /\ Ahead = MessagesIn(requests) \o <<sending>>
    /\ pc \in {"serve", "announce", "disconnect"} => Ahead = MessagesIn(requests)
    /\ pc \in {"login", "options", "backoff"} => Ahead = <<>>
    /\ pc # "stopped" => LinkQueue = Ahead \o outbound
    /\ pc = "stopped" => LinkQueue = <<>>

\* In every state of the task the link's queue has these parts.
LEMMA LinkQueueParts == LoginInv => AheadFacts
<1> SUFFICES ASSUME LoginInv PROVE AheadFacts
  OBVIOUS
<1>1. outbound \in Seq(Positive) /\ requests \in Seq(Nat)
  BY DEF LoginInv, TypeOK, Positive
<1>2. MessagesIn(requests) \in Seq(Positive) /\ InChannel \in Seq(Positive)
  BY <1>1, MessagesInType DEF InChannel
<1>3. pc = "publish" => sending \in Positive
  BY DEF LoginInv, TypeOK, NoMessage, Positive
<1>4. CASE pc = "publish"
  <2>1. <<sending>> \in Seq(Positive) /\ InChannel = MessagesIn(requests)
    BY <1>3, <1>4 DEF InChannel
  <2>2. Ahead = MessagesIn(requests) \o <<sending>> /\ Ahead \in Seq(Positive)
    BY <1>2, <1>4, <2>1, ConcatProperties DEF Ahead
  <2> QED
    BY Zenon, <1>1, <1>2, <1>3, <1>4, <2>2 DEF AheadFacts, Ahead, LinkQueue
<1>5. CASE pc # "publish"
  <2>1. Ahead = InChannel
    BY <1>2, <1>5, ConcatEmptySeq DEF Ahead
  <2> QED
    BY <1>1, <1>2, <1>5, <2>1 DEF AheadFacts, Ahead, LinkQueue, InChannel
<1> QED
  BY <1>4, <1>5

\* The second of two sequences is what follows the first.
LEMMA SecondPart ==
    ASSUME NEW s \in Seq(Positive), NEW t \in Seq(Positive)
    PROVE  /\ Len(s) \in Nat /\ Len(t) \in Nat /\ Len(s \o t) = Len(s) + Len(t)
           /\ SubSeq(s \o t, Len(s) + 1, Len(s \o t)) = t
<1>1. /\ Len(s) \in Nat /\ Len(t) \in Nat
      /\ Len(s \o t) = Len(s) + Len(t) /\ s \o t \in Seq(Positive)
  BY LenProperties, ConcatProperties
<1>2. CASE t = <<>>
  <2>1. Len(s \o t) < Len(s) + 1
    BY <1>1, <1>2
  <2> QED
    BY <1>1, <1>2, <2>1, SubSeqEmpty
<1>3. CASE t # <<>>
  <2>1. Len(t) >= 1
    BY <1>3, EmptySeq
  <2>2. /\ Len(s) + 1 \in Len(s) + 1 .. Len(s) + Len(t)
        /\ Len(s) + Len(t) \in Len(s) + 1 .. Len(s) + Len(t)
        /\ (Len(s) + 1) - Len(s) = 1 /\ (Len(s) + Len(t)) - Len(s) = Len(t)
    BY <1>1, <2>1
  <2> QED
    BY <1>1, <2>2, SubSeqOfConcat2, SubSeqFull
<1> QED
  BY <1>1, <1>2, <1>3

\* Dropping the first of two sequences, if it has any elements.
LEMMA ConcatDrop ==
    ASSUME NEW s \in Seq(Positive), NEW t \in Seq(Positive), s # <<>>
    PROVE  \E n \in 1 .. Len(s \o t) : t = SubSeq(s \o t, n + 1, Len(s \o t))
<1>1. /\ Len(s) \in Nat /\ Len(t) \in Nat /\ Len(s) >= 1
      /\ Len(s \o t) = Len(s) + Len(t)
  BY EmptySeq, SecondPart
<1>2. Len(s) \in 1 .. Len(s \o t)
  BY <1>1
<1> QED
  BY Zenon, <1>2, SecondPart

\* A message in front of a sequence.
LEMMA Cons ==
    ASSUME NEW e \in Positive, NEW s \in Seq(Positive)
    PROVE  /\ <<e>> \in Seq(Positive)
           /\ <<e>> \o s # <<>>
           /\ Head(<<e>> \o s) = e
           /\ Tail(<<e>> \o s) = s
<1> DEFINE t == <<e>> \o s
<1>1. <<e>> \in Seq(Positive) /\ Len(<<e>>) = 1 /\ <<e>>[1] = e /\ Len(s) \in Nat
  OBVIOUS
<1>2. /\ t \in Seq(Positive) /\ Len(t) = Len(s) + 1
      /\ \A i \in 1 .. Len(s) + 1 : t[i] = IF i <= 1 THEN e ELSE s[i - 1]
  BY <1>1, ConcatProperties
<1>3. t # <<>> /\ Head(t) = e
  BY <1>1, <1>2
<1>4. Tail(t) = s
  <2>1. /\ Tail(t) \in Seq(Positive) /\ Len(Tail(t)) = Len(s)
        /\ \A i \in 1 .. Len(s) : Tail(t)[i] = t[i + 1]
    BY <1>1, <1>2, <1>3, HeadTailProperties
  <2>2. \A i \in 1 .. Len(s) : Tail(t)[i] = s[i]
    BY <1>1, <1>2, <2>1
  <2> QED
    BY <1>1, <2>1, <2>2, SeqEqual
<1> QED
  BY <1>1, <1>3, <1>4

\* Taking the first message and putting it back changes nothing.
LEMMA Uncons ==
    ASSUME NEW s \in Seq(Positive), s # <<>>
    PROVE  /\ Head(s) \in Positive /\ Tail(s) \in Seq(Positive)
           /\ <<Head(s)>> \o Tail(s) = s
<1>1. 1 \in 1 .. Len(s) /\ Len(s) \in 1 .. Len(s) /\ Len(s) \in Nat
  BY EmptySeq
<1>2. SubSeq(s, 1, Len(s)) = <<s[1]>> \o SubSeq(s, 1 + 1, Len(s))
  BY <1>1, SubSeqRecursiveFirst
<1> QED
  BY <1>1, <1>2, SubSeqFull, TailIsSubSeq, HeadTailProperties

\* Taking the first element from the second of two sequences is taking one
\* element from the two together.
LEMMA ConcatWithout ==
    ASSUME NEW s \in Seq(Positive), NEW t \in Seq(Positive), t # <<>>
    PROVE  \E i \in 1 .. Len(s \o t) :
              s \o Tail(t) = SubSeq(s \o t, 1, i - 1) \o SubSeq(s \o t, i + 1, Len(s \o t))
<1> DEFINE q == s \o t
           h == <<Head(t)>>
<1>1. /\ Tail(t) \in Seq(Positive) /\ h \in Seq(Positive) /\ Len(h) = 1
      /\ h \o Tail(t) = t
  BY Uncons
<1> HIDE DEF h
<1>2. q = (s \o h) \o Tail(t) /\ s \o h \in Seq(Positive) /\ Len(s \o h) = Len(s) + 1
  <2>1. (s \o h) \o Tail(t) = s \o (h \o Tail(t))
    BY <1>1, ConcatAssociative
  <2>2. s \o h \in Seq(Positive) /\ Len(s \o h) = Len(s) + Len(h)
    BY Zenon, <1>1, ConcatProperties
  <2> QED
    BY Zenon, <1>1, <2>1, <2>2
<1>3. /\ Len(s) \in Nat /\ Len(Tail(t)) \in Nat
      /\ Len(q) = (Len(s) + 1) + Len(Tail(t))
      /\ SubSeq(q, (Len(s) + 1) + 1, Len(q)) = Tail(t)
  <2>1. /\ Len((s \o h) \o Tail(t)) = Len(s \o h) + Len(Tail(t))
        /\ SubSeq((s \o h) \o Tail(t), Len(s \o h) + 1, Len((s \o h) \o Tail(t))) = Tail(t)
        /\ Len(Tail(t)) \in Nat
    BY Zenon, <1>1, <1>2, SecondPart
  <2>2. Len(s) \in Nat
    BY LenProperties
  <2> QED
    BY Zenon, <1>2, <2>1, <2>2
<1>4. SubSeq(q, 1, (Len(s) + 1) - 1) = s
  <2>1. CASE s = <<>>
    BY <2>1, SubSeqEmpty
  <2>2. CASE s # <<>>
    <3>1. /\ 1 \in 1 .. Len(s) /\ Len(s) \in 1 .. Len(s) /\ (Len(s) + 1) - 1 = Len(s)
      BY <1>3, <2>2, EmptySeq
    <3> QED
      BY <3>1, SubSeqOfConcat1, SubSeqFull
  <2> QED
    BY <2>1, <2>2
<1>5. Len(s) + 1 \in 1 .. Len(q)
  BY <1>3
<1> QED
  BY Zenon, <1>3, <1>4, <1>5

\* Every step of the task is a step of the link or leaves it alone.
LEMMA LinkStep == LoginInv /\ [Next]_vars => [Link!Next]_Link!vars
<1>1. LoginInv' => AheadFacts'
  BY LinkQueueParts, PTL
<1> SUFFICES ASSUME LoginInv, [Next]_vars PROVE [Link!Next]_Link!vars
  OBVIOUS
<1>2. LoginInv' /\ AheadFacts /\ AheadFacts'
  BY <1>1, LoginStep, LinkQueueParts
<1>3. accepted \in Nat
  BY GatewayMqttAssumption DEF LoginInv, TypeOK
<1>4. CASE Enqueue
  <2>1. /\ pc # "stopped" /\ pc' = pc /\ accepted' = accepted + 1
        /\ outbound' = Append(outbound, accepted + 1) /\ sending' = sending
        /\ requests' = requests /\ delivered' = delivered
        /\ accepted + 1 \in Positive
    BY <1>3, <1>4 DEF Enqueue, Positive
  <2>2. Ahead' = Ahead
    BY <2>1 DEF Ahead, InChannel
  <2>3. LinkQueue' = Append(LinkQueue, accepted + 1)
    <3>1. /\ Ahead \in Seq(Positive) /\ outbound \in Seq(Positive)
          /\ LinkQueue = Ahead \o outbound /\ LinkQueue' = Ahead \o outbound'
      BY Zenon, <1>2, <2>1, <2>2 DEF AheadFacts
    <3>2. Append(Ahead \o outbound, accepted + 1) = Ahead \o Append(outbound, accepted + 1)
      BY Zenon, <2>1, <3>1, ConcatAppend
    <3> QED
      BY <2>1, <3>1, <3>2
  <2> QED
    BY <2>1, <2>3 DEF Link!Next, Link!Accept
<1>5. CASE SignalShutdown
  BY <1>5 DEF SignalShutdown, queueVars, Link!vars, LinkQueue, InChannel
<1>6. CASE UseCached \/ LoginSucceeds \/ LoginFails \/ BuildFails \/ BackoffEnds
  <2>1. /\ {pc, pc'} \subseteq {"login", "options", "backoff"}
        /\ UNCHANGED <<accepted, outbound, delivered>>
    BY <1>6 DEF UseCached, LoginSucceeds, LoginFails, BuildFails, BackoffEnds, queueVars
  <2>2. LinkQueue' = LinkQueue
    BY Zenon, <1>2, <2>1 DEF AheadFacts
  <2> QED
    BY <2>1, <2>2 DEF Link!vars
<1>7. CASE ShutdownAtLogin \/ ShutdownAtBackoff \/ Disconnect
  <2>1. /\ pc # "stopped" /\ pc' = "stopped" /\ UNCHANGED <<accepted, delivered>>
    BY <1>7 DEF ShutdownAtLogin, ShutdownAtBackoff, Disconnect, queueVars
  <2>2. LinkQueue' = <<>>
    BY <1>2, <2>1 DEF AheadFacts
  <2> QED
    BY <2>1, <2>2 DEF Link!Next, Link!Close
<1>8. CASE BuildClient
  <2>1. /\ pc = "options" /\ pc' = "serve" /\ requests' = <<>>
        /\ UNCHANGED <<accepted, outbound, delivered>>
    BY <1>8 DEF BuildClient, queueVars
  <2>2. MessagesIn(requests)' = <<>>
    BY <2>1, MessagesInEmpty
  <2>3. LinkQueue' = LinkQueue
    BY Zenon, <1>2, <2>1, <2>2 DEF AheadFacts
  <2> QED
    BY <2>1, <2>3 DEF Link!vars
<1>9. CASE TakeMessage
  <2>1. /\ pc = "serve" /\ pc' = "publish" /\ outbound # <<>>
        /\ sending' = Head(outbound) /\ outbound' = Tail(outbound)
        /\ UNCHANGED <<accepted, delivered, requests>>
    BY <1>9 DEF TakeMessage
  <2>2. Ahead' = Ahead \o <<Head(outbound)>>
    BY <1>2, <2>1 DEF AheadFacts
  <2>3. /\ Head(outbound) \in Positive /\ Tail(outbound) \in Seq(Positive)
        /\ <<Head(outbound)>> \o Tail(outbound) = outbound
    BY <1>2, <2>1, Uncons DEF AheadFacts
  <2>4. <<Head(outbound)>> \in Seq(Positive)
    BY <2>3
  <2>5. (Ahead \o <<Head(outbound)>>) \o Tail(outbound) = Ahead \o outbound
    <3>1. Ahead \in Seq(Positive)
      BY <1>2 DEF AheadFacts
    <3> QED
      BY <2>3, <2>4, <3>1, ConcatAssociative
  <2>6. LinkQueue' = LinkQueue
    BY Zenon, <1>2, <2>1, <2>2, <2>5 DEF AheadFacts
  <2> QED
    BY <2>1, <2>6 DEF Link!vars
<1>9a. CASE PublishRejected
  <2>1. /\ pc = "serve" /\ pc' = "serve" /\ outbound # <<>> /\ outbound' = Tail(outbound)
        /\ UNCHANGED <<accepted, delivered, requests>>
    BY <1>9a DEF PublishRejected
  <2>2. /\ LinkQueue = Ahead \o outbound /\ LinkQueue' = Ahead \o Tail(outbound)
        /\ Ahead \in Seq(Positive) /\ outbound \in Seq(Positive)
    BY Zenon, <1>2, <2>1 DEF AheadFacts
  <2>3. \E i \in 1 .. Len(LinkQueue) :
           LinkQueue' = SubSeq(LinkQueue, 1, i - 1) \o SubSeq(LinkQueue, i + 1, Len(LinkQueue))
    BY Zenon, <2>1, <2>2, ConcatWithout
  <2> QED
    BY Zenon, <2>1, <2>3 DEF Link!Next, Link!Refuse
<1>10. CASE Publish
  <2>1. /\ pc = "publish" /\ pc' = "serve" /\ requests' = Append(requests, sending)
        /\ UNCHANGED <<accepted, outbound, delivered>>
    BY <1>10 DEF Publish, queueVars
  <2>2. sending \in Positive /\ sending \in Nat /\ IsMessage(sending)
    BY <1>2, <2>1 DEF AheadFacts, Positive, IsMessage, Control
  <2>3. MessagesIn(requests)' = Append(MessagesIn(requests), sending)
    BY <1>2, <2>1, <2>2, MessagesInAppend DEF AheadFacts
  <2>4. Append(MessagesIn(requests), sending) = MessagesIn(requests) \o <<sending>>
    BY <1>2, <2>2, AppendIsConcat DEF AheadFacts
  <2>5. LinkQueue' = LinkQueue
    BY Zenon, <1>2, <2>1, <2>3, <2>4 DEF AheadFacts
  <2> QED
    BY <2>1, <2>5 DEF Link!vars
<1>11. CASE Announce
  <2>1. /\ pc = "announce" /\ pc' \in {"serve", "announce"}
        /\ requests' = Append(requests, Control)
        /\ UNCHANGED <<accepted, outbound, delivered>>
    BY <1>11 DEF Announce, queueVars
  <2>2. Control \in Nat /\ ~IsMessage(Control)
    BY DEF IsMessage, Control
  <2>3. MessagesIn(requests)' = MessagesIn(requests)
    BY <1>2, <2>1, <2>2, MessagesInAppend DEF AheadFacts
  <2>4. LinkQueue' = LinkQueue
    BY Zenon, <1>2, <2>1, <2>3 DEF AheadFacts
  <2> QED
    BY <2>1, <2>4 DEF Link!vars
<1>12. CASE (\E n \in 0 .. 3 : ConnAck(n)) \/ ShutdownAtServe
  <2>1. /\ pc = "serve" /\ pc' \in {"serve", "announce", "disconnect"}
        /\ UNCHANGED <<accepted, outbound, delivered, requests>>
    BY <1>12 DEF ConnAck, ShutdownAtServe, queueVars
  <2>2. LinkQueue' = LinkQueue
    BY Zenon, <2>1 DEF LinkQueue, InChannel
  <2> QED
    BY <2>1, <2>2 DEF Link!vars
<1>13. CASE PollRequest
  <2>1. /\ pc = "serve" /\ pc' = "serve" /\ requests # <<>> /\ requests' = Tail(requests)
        /\ UNCHANGED <<accepted, outbound>>
        /\ delivered' = IF IsMessage(Head(requests))
                        THEN Append(delivered, Head(requests)) ELSE delivered
    BY <1>13 DEF PollRequest, RequestsAfterPoll, IsMessage
  <2>2. MessagesIn(requests) = (IF IsMessage(Head(requests)) THEN <<Head(requests)>> ELSE <<>>)
                               \o MessagesIn(requests')
    BY Zenon, <1>2, <2>1, MessagesInTail DEF AheadFacts
  <2>3. MessagesIn(requests') \in Seq(Positive) /\ outbound \in Seq(Positive)
    BY <1>2 DEF AheadFacts
  <2>4. /\ LinkQueue = MessagesIn(requests) \o outbound
        /\ LinkQueue' = MessagesIn(requests') \o outbound
    BY Zenon, <1>2, <2>1 DEF AheadFacts
  <2>5. CASE ~IsMessage(Head(requests))
    <3>1. LinkQueue' = LinkQueue
      BY <2>2, <2>3, <2>4, <2>5, ConcatEmptySeq
    <3> QED
      BY <2>1, <2>5, <3>1 DEF Link!vars
  <2>6. CASE IsMessage(Head(requests))
    <3>1. Head(requests) \in Positive
      BY <1>2, <2>1, <2>6, HeadTailProperties DEF AheadFacts, IsMessage, Control, Positive
    <3>2. /\ <<Head(requests)>> \in Seq(Positive)
          /\ MessagesIn(requests') \o outbound \in Seq(Positive)
      BY <2>3, <3>1, ConcatProperties
    <3>3. LinkQueue = <<Head(requests)>> \o LinkQueue'
      BY <2>2, <2>3, <2>4, <2>6, <3>2, ConcatAssociative
    <3>4. LinkQueue # <<>> /\ Head(LinkQueue) = Head(requests) /\ Tail(LinkQueue) = LinkQueue'
      BY <2>4, <3>1, <3>2, <3>3, Cons
    <3> QED
      BY <2>1, <2>6, <3>4 DEF Link!Next, Link!Deliver
  <2> QED
    BY <2>5, <2>6
<1>14. CASE (\E bad \in BOOLEAN : ConnectionRefused(bad)) \/ ConnectionLost
  <2>1. /\ pc = "serve" /\ pc' = "backoff"
        /\ UNCHANGED <<accepted, outbound, delivered>>
    BY <1>14 DEF ConnectionRefused, ConnectionLost, queueVars
  <2>2. /\ LinkQueue = Ahead \o outbound /\ LinkQueue' = outbound
        /\ Ahead \in Seq(Positive) /\ outbound \in Seq(Positive)
    BY <1>2, <2>1, ConcatEmptySeq DEF AheadFacts
  <2>3. CASE Ahead = <<>>
    <3>1. LinkQueue' = LinkQueue
      BY <2>2, <2>3, ConcatEmptySeq
    <3> QED
      BY <2>1, <3>1 DEF Link!vars
  <2>4. CASE Ahead # <<>>
    BY Zenon, <2>1, <2>2, <2>4, ConcatDrop DEF Link!Next, Link!Lose
  <2> QED
    BY <2>3, <2>4
<1>15. CASE UNCHANGED vars
  BY <1>15 DEF vars, queueVars, Link!vars, LinkQueue, InChannel
<1> QED
  BY <1>4, <1>5, <1>6, <1>7, <1>8, <1>9, <1>9a, <1>10, <1>11, <1>12, <1>13,
     <1>14, <1>15
  DEF Next

\* The connection task implements LossyQueue, whatever its capacities and
\* however often connections are refused or lost.
THEOREM Refinement == Spec => LinkSpec
BY LoginInit, LoginStep, LinkInit, LinkStep, PTL DEF Spec, LinkSpec, Link!Spec

\* The theorems about LossyQueue, for the queue of this task.
LinkTheory ==
    INSTANCE LossyQueueProofs WITH queue <- LinkQueue, closed <- (pc = "stopped")

\* The task implements the LossyQueue those theorems are about.
LEMMA LinkTheoryHolds == Spec => LinkTheory!Spec
<1>1. Init => LinkTheory!Init
  BY LinkInit DEF Link!Init, LinkTheory!Init
<1>2. LoginInv /\ [Next]_vars => [LinkTheory!Next]_LinkTheory!vars
  BY Zenon, LinkStep
     DEF Link!Next, Link!Accept, Link!Deliver, Link!Lose, Link!Refuse,
         Link!Close, Link!vars,
         LinkTheory!Next, LinkTheory!Accept, LinkTheory!Deliver,
         LinkTheory!Lose, LinkTheory!Refuse, LinkTheory!Close, LinkTheory!vars
<1> QED
  BY LoginInit, LoginStep, <1>1, <1>2, PTL DEF Spec, LinkTheory!Spec

\* Over any number of connections and request channels, messages reach the
\* broker in the order they were queued and none of them twice.
THEOREM InOrder == Spec => []Link!DeliveredInOrder
<1>1. LinkTheory!DeliveredInOrder => Link!DeliveredInOrder
  BY DEF Link!DeliveredInOrder, LinkTheory!DeliveredInOrder
<1> QED
  BY LinkTheoryHolds, <1>1, LinkTheory!InOrder, PTL

\* What the task holds and what it has sent are messages that were queued, and
\* together no more of them than were queued.
THEOREM NothingInvented == Spec => []LinkTheory!Accounted
BY LinkTheoryHolds, LinkTheory!NothingInvented, PTL
-----------------------------------------------------------------------------
(***************************************************************************)
(* Room in the request channel.                                            *)
(***************************************************************************)
Serving == pc \in {"serve", "publish", "announce", "disconnect"}

\* A connection makes at most three requests that are not messages, after its
\* ConnAck; the ones still to be made have their place.
ControlBound ==
    Serving => Len(requests) + (IF pc = "announce" THEN announcing ELSE 0)
               <= Len(MessagesIn(requests)) + (IF connected THEN 3 ELSE 0)

\* The task waits for room in its own channel only behind unsent messages, and
\* then behind all but three of those the channel can hold.
WaitsBehindMessages == WaitsForRoom => Len(MessagesIn(requests)) + 3 >= RequestCapacity

\* Polling a request takes at most one message from the channel, and one only
\* with its request.
LEMMA PollLengths ==
    ASSUME NEW rs \in Seq(Nat), rs # <<>>
    PROVE  /\ Len(rs) \in Nat /\ Len(Tail(rs)) = Len(rs) - 1
           /\ Len(MessagesIn(rs)) \in Nat /\ Len(MessagesIn(Tail(rs))) \in Nat
           /\ Len(MessagesIn(Tail(rs))) >= Len(MessagesIn(rs)) - 1
<1>1. Tail(rs) \in Seq(Nat) /\ Head(rs) \in Nat /\ Len(Tail(rs)) = Len(rs) - 1
  BY HeadTailProperties
<1>2. MessagesIn(Tail(rs)) \in Seq(Positive) /\ MessagesIn(rs) \in Seq(Positive)
  BY Zenon, <1>1, MessagesInType
<1> DEFINE h == IF IsMessage(Head(rs)) THEN <<Head(rs)>> ELSE <<>>
<1>3. h \in Seq(Positive) /\ Len(h) \in Nat /\ Len(h) <= 1
  <2>1. CASE IsMessage(Head(rs))
    <3>1. Head(rs) \in Positive
      BY <1>1, <2>1 DEF IsMessage, Control, Positive
    <3> QED
      BY <2>1, <3>1
  <2>2. CASE ~IsMessage(Head(rs))
    BY <2>2
  <2> QED
    BY <2>1, <2>2
<1> HIDE DEF h
<1>4. MessagesIn(rs) = h \o MessagesIn(Tail(rs))
  BY MessagesInTail DEF h
<1>5. Len(MessagesIn(rs)) = Len(h) + Len(MessagesIn(Tail(rs)))
  BY <1>2, <1>3, <1>4, ConcatProperties
<1>6. Len(MessagesIn(Tail(rs))) \in Nat /\ Len(rs) \in Nat
  BY <1>2
<1> QED
  BY <1>1, <1>3, <1>5, <1>6

\* Every step keeps the bound.
LEMMA ControlStep == LoginInv /\ ControlBound /\ [Next]_vars => ControlBound'
<1> SUFFICES ASSUME LoginInv, ControlBound, [Next]_vars PROVE ControlBound'
  OBVIOUS
<1>1. /\ requests \in Seq(Nat) /\ Len(requests) \in Nat /\ announcing \in 0 .. 3
      /\ MessagesIn(requests) \in Seq(Positive) /\ Len(MessagesIn(requests)) \in Nat
  BY MessagesInType DEF LoginInv, TypeOK
<1>2. CASE Publish
  <2>1. /\ pc = "publish" /\ pc' = "serve" /\ requests' = Append(requests, sending)
        /\ connected' = connected
        /\ sending \in Positive /\ sending \in Nat /\ IsMessage(sending)
    BY <1>2 DEF Publish, LoginInv, TypeOK, NoMessage, Positive, IsMessage, Control
  <2>2. /\ Len(requests') = Len(requests) + 1
        /\ MessagesIn(requests') = Append(MessagesIn(requests), sending)
    BY <1>1, <2>1, MessagesInAppend, AppendProperties
  <2>3. Len(MessagesIn(requests')) = Len(MessagesIn(requests)) + 1
    BY <1>1, <2>1, <2>2, AppendProperties
  <2> QED
    BY <1>1, <2>1, <2>2, <2>3 DEF ControlBound, Serving
<1>3. CASE Announce
  <2>1. /\ pc = "announce" /\ announcing >= 1 /\ announcing' = announcing - 1
        /\ pc' = IF announcing = 1 THEN "serve" ELSE "announce"
        /\ requests' = Append(requests, Control) /\ connected' = connected
        /\ Control \in Nat /\ ~IsMessage(Control)
    BY <1>3 DEF Announce, LoginInv, IsMessage, Control
  <2>2. /\ Len(requests') = Len(requests) + 1
        /\ MessagesIn(requests') = MessagesIn(requests)
    BY <1>1, <2>1, MessagesInAppend, AppendProperties
  <2> QED
    BY <1>1, <2>1, <2>2 DEF ControlBound, Serving
<1>4. CASE PollRequest
  <2>1. /\ pc = "serve" /\ pc' = "serve" /\ requests # <<>> /\ requests' = Tail(requests)
        /\ connected' = connected
    BY <1>4 DEF PollRequest, RequestsAfterPoll
  <2>2. /\ Len(requests') = Len(requests) - 1 /\ Len(MessagesIn(requests')) \in Nat
        /\ Len(MessagesIn(requests')) >= Len(MessagesIn(requests)) - 1
    BY <1>1, <2>1, PollLengths
  <2> QED
    BY <1>1, <2>1, <2>2 DEF ControlBound, Serving
<1>5. CASE BuildClient
  <2>1. pc' = "serve" /\ requests' = <<>> /\ connected' = FALSE
    BY <1>5 DEF BuildClient
  <2>2. MessagesIn(requests') = <<>> /\ Len(requests') = 0
    BY <2>1, MessagesInEmpty
  <2> QED
    BY <2>1, <2>2 DEF ControlBound
<1>6. ASSUME NEW n \in 0 .. 3, ConnAck(n)
      PROVE  ControlBound'
  <2>1. /\ pc = "serve" /\ pc' \in {"serve", "announce"} /\ announcing' = n
        /\ ~connected /\ connected' /\ requests' = requests
    BY <1>6 DEF ConnAck
  <2> QED
    BY <1>1, <2>1 DEF ControlBound, Serving
<1>7. CASE TakeMessage \/ PublishRejected \/ ShutdownAtServe
  <2>1. /\ pc = "serve" /\ pc' \in {"serve", "publish", "disconnect"}
        /\ requests' = requests /\ connected' = connected
    BY <1>7 DEF TakeMessage, PublishRejected, ShutdownAtServe
  <2> QED
    BY <1>1, <2>1 DEF ControlBound, Serving
<1>8. CASE Enqueue \/ SignalShutdown \/ UNCHANGED vars
  <2>1. UNCHANGED <<pc, requests, connected, announcing>>
    BY <1>8 DEF Enqueue, SignalShutdown, vars
  <2> QED
    BY <2>1 DEF ControlBound, Serving
<1>9. CASE pc' \notin {"serve", "publish", "announce", "disconnect"}
  BY <1>9 DEF ControlBound, Serving
<1> QED
  BY <1>2, <1>3, <1>4, <1>5, <1>6, <1>7, <1>8, <1>9
     DEF Next, UseCached, LoginSucceeds, LoginFails, ShutdownAtLogin, BuildFails,
         ConnectionRefused, ConnectionLost, Disconnect, BackoffEnds, ShutdownAtBackoff

\* publish, on_connected and disconnect wait for a poll that cannot come only
\* when the channel of RequestCapacity holds at least RequestCapacity - 3
\* unsent messages.
THEOREM WaitsBehind == Spec => []WaitsBehindMessages
<1>1. Init => ControlBound
  BY DEF Init, ControlBound, Serving
<1>2. LoginInv /\ ControlBound => WaitsBehindMessages
  <2> SUFFICES ASSUME LoginInv, ControlBound, WaitsForRoom
               PROVE  Len(MessagesIn(requests)) + 3 >= RequestCapacity
    BY DEF WaitsBehindMessages
  <2>1. /\ Len(requests) \in Nat /\ announcing \in Nat /\ Serving
        /\ Len(MessagesIn(requests)) \in Nat /\ Len(requests) >= RequestCapacity
    BY MessagesInType, GatewayMqttAssumption
       DEF LoginInv, TypeOK, WaitsForRoom, HasRoom, Serving
  <2> QED
    BY <2>1, GatewayMqttAssumption DEF ControlBound
<1> QED
  BY LoginInit, LoginStep, <1>1, ControlStep, <1>2, PTL DEF Spec

\* Once the task waits for room in its own channel, it waits there for good.
WaitIsFinal == [][WaitsForRoom => WaitsForRoom' /\ UNCHANGED <<pc, requests>>]_vars

\* publish, on_connected and disconnect are awaited inside a branch of the
\* select! that polls the event loop, so neither a poll nor the shutdown signal
\* ends such a wait.
THEOREM WaitStays == Spec => WaitIsFinal
<1>1. [Next]_vars => [WaitsForRoom => WaitsForRoom' /\ UNCHANGED <<pc, requests>>]_vars
  <2> SUFFICES ASSUME Next, WaitsForRoom PROVE WaitsForRoom' /\ UNCHANGED <<pc, requests>>
    OBVIOUS
  <2>1. Enqueue \/ SignalShutdown
    BY DEF Next, WaitsForRoom, UseCached, LoginSucceeds, LoginFails, ShutdownAtLogin,
           BuildClient, BuildFails, TakeMessage, PublishRejected, Publish, ConnAck, Announce,
           PollRequest, ConnectionRefused, ConnectionLost, ShutdownAtServe, Disconnect, BackoffEnds,
           ShutdownAtBackoff
  <2> QED
    BY <2>1 DEF Enqueue, SignalShutdown, WaitsForRoom, HasRoom
<1> QED
  BY <1>1, PTL DEF Spec, WaitIsFinal
==============================================================================
