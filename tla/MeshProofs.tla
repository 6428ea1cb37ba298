----------------------------- MODULE MeshProofs -----------------------------
(* Theorems about the mesh of BlockchainRadioV3, for any number of repeaters  *)
(* and any bounds.                                                           *)
EXTENDS Mesh, FiniteSetTheorems, TLAPS

USE DEF Last, Nodes, Senders, Relays, None

LEMMA NumbersAreNumbers ==
  /\ Repeaters \in Nat /\ QueueSize \in Nat /\ QueueSize >= 1
  /\ MaxMessages \in Nat /\ MaxFaults \in Nat
BY RepeatersAssumption, QueueAssumption, BoundsAssumption

(* What the sequence operators return.                                       *)
LEMMA TailType ==
  ASSUME NEW S, NEW s \in Seq(S), s # <<>>
  PROVE  /\ Tail(s) \in Seq(S) /\ Head(s) \in S
         /\ Len(Tail(s)) = Len(s) - 1 /\ Len(s) \in Nat /\ Len(s) >= 1
OBVIOUS

LEMMA ConcatType ==
  ASSUME NEW S, NEW s \in Seq(S), NEW t \in Seq(S)
  PROVE  /\ s \o t \in Seq(S) /\ Len(s \o t) = Len(s) + Len(t)
         /\ Len(s) \in Nat /\ Len(t) \in Nat
OBVIOUS

LEMMA SingletonType ==
  ASSUME NEW p \in Packet
  PROVE  <<p>> \in AtMostOne
BY DEF AtMostOne

LEMMA EmptyType == <<>> \in AtMostOne /\ <<>> \in Seq(Packet)
BY DEF AtMostOne

(* A packet whose hop count goes up is a packet.                             *)
LEMMA CountedType ==
  ASSUME NEW s \in Seq(Packet), NEW m
  PROVE  Counted(s, m) \in Seq(Packet) /\ Len(Counted(s, m)) = Len(s)
<1>1. DOMAIN s = 1 .. Len(s) /\ Len(s) \in Nat
  OBVIOUS
<1>2. ASSUME NEW i \in 1 .. Len(s)
      PROVE  (IF s[i].msg = m THEN [s[i] EXCEPT !.hops = @ + 1] ELSE s[i])
               \in Packet
  <2>1. s[i] \in Packet
    OBVIOUS
  <2>2. [s[i] EXCEPT !.hops = @ + 1] \in Packet
    BY <2>1 DEF Packet
  <2>3. QED
    BY <2>1, <2>2
<1>3. QED
  BY <1>1, <1>2 DEF Counted

LEMMA CountedAtMostOne ==
  ASSUME NEW s \in AtMostOne, NEW m
  PROVE  Counted(s, m) \in AtMostOne
BY CountedType DEF AtMostOne

LEMMA OldestType ==
  ASSUME TypeOK, NEW n \in Nodes, Accepts(n)
  PROVE  /\ Oldest(n) \in Packet
         /\ Oldest(n).msg \in Messages /\ Oldest(n).uid \in Uids
         /\ inbound' \in [Nodes -> Seq(Packet)]
<1>1. inbound[n] \in Seq(Packet) /\ inbound[n] # <<>>
  BY DEF TypeOK, Accepts
<1>2. Oldest(n) \in Packet /\ Tail(inbound[n]) \in Seq(Packet)
  BY <1>1, TailType DEF Oldest
<1>3. QED
  BY <1>2 DEF TypeOK, Accepts, Packet

LEMMA AnswerType ==
  ASSUME TypeOK, NEW n \in 1 .. Last, NEW p, Answer(n, p)
  PROVE  waiting' \in [Senders -> {None} \cup Messages]
BY NumbersAreNumbers DEF TypeOK, Answer

LEMMA VerifiedType ==
  ASSUME TypeOK, NEW n \in Senders, IsVerifying(n)
  PROVE  Verified(n) \in Packet /\ Verified(n).msg \in Messages
<1>1. verifying[n] \in Seq(Packet) /\ verifying[n] # <<>>
  BY DEF TypeOK, IsVerifying, AtMostOne
<1>2. Verified(n) \in Packet
  BY <1>1, TailType DEF Verified
<1>3. QED
  BY <1>2 DEF Packet

LEMMA FaultType == TypeOK /\ Fault => faults' \in 0 .. MaxFaults
BY NumbersAreNumbers DEF TypeOK, Fault

(* Every step of a thread keeps the types.                                   *)
LEMMA ReceiveType ==
  ASSUME TypeOK, NEW real \in BOOLEAN, Receive(real)
  PROVE  TypeOK'
<1>1. sent \in Nat /\ sent + 1 \in Messages /\ nextUid \in Uids
      /\ nextUid + 1 \in 1 .. sent + 2
  BY NumbersAreNumbers DEF TypeOK, Receive, Messages, Uids
<1> DEFINE p == [msg |-> sent + 1, uid |-> nextUid, real |-> real, hops |-> 0]
<1>2. p \in Packet
  BY <1>1 DEF Packet
<1>3. <<p>> \in AtMostOne
  BY <1>2, SingletonType
<1>4. adding' = [adding EXCEPT ![0] = <<p>>]
  BY DEF Receive
<1> HIDE DEF p
<1>5. adding' \in [Senders -> AtMostOne]
  BY <1>3, <1>4 DEF TypeOK
<1>6. seen' \in [Nodes -> SUBSET Uids]
  BY <1>1 DEF TypeOK, Receive
<1>7. sent' \in 0 .. MaxMessages /\ nextUid' \in 1 .. sent' + 1
  BY <1>1 DEF Receive, Messages
<1>8. QED
  BY <1>5, <1>6, <1>7 DEF TypeOK, Receive

LEMMA ReadTornType ==
  ASSUME TypeOK, NEW n \in 1 .. Last, ReadTorn(n)
  PROVE  TypeOK'
<1>1. Oldest(n).msg \in Messages /\ inbound' \in [Nodes -> Seq(Packet)]
  BY OldestType, NumbersAreNumbers DEF ReadTorn
<1>2. faults' \in 0 .. MaxFaults
  BY FaultType DEF ReadTorn
<1>3. QED
  BY <1>1, <1>2 DEF TypeOK, ReadTorn

LEMMA AnswerDuplicateType ==
  ASSUME TypeOK, NEW n \in 1 .. Last, AnswerDuplicate(n)
  PROVE  TypeOK'
<1>1. inbound' \in [Nodes -> Seq(Packet)]
  BY OldestType, NumbersAreNumbers DEF AnswerDuplicate
<1>2. waiting' \in [Senders -> {None} \cup Messages]
  BY AnswerType DEF AnswerDuplicate
<1>3. QED
  BY <1>1, <1>2 DEF TypeOK, AnswerDuplicate

LEMMA StartAddingType ==
  ASSUME TypeOK, NEW n \in Relays, StartAdding(n)
  PROVE  TypeOK'
<1>1. /\ Oldest(n) \in Packet /\ Oldest(n).uid \in Uids
      /\ inbound' \in [Nodes -> Seq(Packet)]
  BY OldestType, NumbersAreNumbers DEF StartAdding
<1>2. adding' \in [Senders -> AtMostOne]
  BY <1>1, SingletonType DEF StartAdding, TypeOK
<1>3. seen' \in [Nodes -> SUBSET Uids]
  BY <1>1 DEF StartAdding, TypeOK
<1>4. QED
  BY <1>1, <1>2, <1>3 DEF TypeOK, StartAdding

LEMMA PutType ==
  ASSUME TypeOK, NEW n \in Senders, Put(n)
  PROVE  TypeOK'
<1>1. /\ adding[n] \in AtMostOne /\ adding[n] \in Seq(Packet)
      /\ Len(adding[n]) <= 1 /\ queue[n] \in Seq(Packet)
  BY DEF TypeOK, AtMostOne
<1> DEFINE longer == queue[n] \o adding[n]
<1>2. /\ longer \in Seq(Packet)
      /\ Len(longer) <= QueueSize
  <2>1. /\ longer \in Seq(Packet)
        /\ Len(longer) = Len(queue[n]) + Len(adding[n])
        /\ Len(queue[n]) \in Nat /\ Len(adding[n]) \in Nat
    BY <1>1, ConcatType
  <2>2. Len(queue[n]) < QueueSize
    BY DEF Put
  <2>3. ASSUME NEW a \in Nat, NEW b \in Nat, NEW q \in Nat, a < q, b <= 1
        PROVE  a + b <= q
    BY <2>3
  <2>4. Len(queue[n]) + Len(adding[n]) <= QueueSize
    BY <1>1, <2>1, <2>2, <2>3, NumbersAreNumbers
  <2> HIDE DEF longer
  <2>5. QED
    BY <2>1, <2>4
<1>3. queue' = [queue EXCEPT ![n] = longer]
  BY DEF Put
<1> HIDE DEF longer
<1>4. queue' \in [Senders -> Seq(Packet)]
  BY <1>2, <1>3 DEF TypeOK
<1>5. \A s \in Senders : Len(queue'[s]) <= QueueSize
  BY <1>2, <1>3 DEF TypeOK
<1>6. adding' \in [Senders -> AtMostOne]
  BY EmptyType DEF Put, TypeOK
<1>7. verifying' \in [Senders -> AtMostOne]
  BY <1>1 DEF Put, TypeOK
<1>8. QED
  BY <1>4, <1>5, <1>6, <1>7 DEF TypeOK, Put

LEMMA AcceptType ==
  ASSUME TypeOK, NEW n \in Relays, Accept(n)
  PROVE  TypeOK'
<1>1. n \in Senders /\ n \in 1 .. Last
  BY NumbersAreNumbers
<1>2. Verified(n).msg \in Messages
  BY <1>1, VerifiedType DEF Accept
<1> DEFINE q == Counted(queue[n], Verified(n).msg)
           t == Counted(taken[n], Verified(n).msg)
<1>3. q \in Seq(Packet) /\ Len(q) <= QueueSize
  BY <1>1, CountedType DEF TypeOK
<1>4. t \in AtMostOne
  BY <1>1, CountedAtMostOne DEF TypeOK
<1>5. queue' = [queue EXCEPT ![n] = q] /\ taken' = [taken EXCEPT ![n] = t]
  BY DEF Accept
<1> HIDE DEF q, t
<1>6. queue' \in [Senders -> Seq(Packet)]
  BY <1>3, <1>5 DEF TypeOK
<1>7. \A s \in Senders : Len(queue'[s]) <= QueueSize
  BY <1>3, <1>5 DEF TypeOK
<1>8. taken' \in [Senders -> AtMostOne]
  BY <1>4, <1>5 DEF TypeOK
<1>9. waiting' \in [Senders -> {None} \cup Messages]
  BY <1>1, AnswerType DEF Accept
<1>10. verifying' \in [Senders -> AtMostOne]
  BY EmptyType DEF Accept, TypeOK
<1>11. accepted' \subseteq Relays \X Messages
  BY <1>2 DEF Accept, TypeOK
<1>12. QED
  BY <1>6, <1>7, <1>8, <1>9, <1>10, <1>11 DEF TypeOK, Accept

LEMMA RejectType ==
  ASSUME TypeOK, NEW n \in Relays, Reject(n)
  PROVE  TypeOK'
<1>1. n \in Senders /\ n \in 1 .. Last
  BY NumbersAreNumbers
<1>5. Verified(n).msg \in Messages
  BY <1>1, VerifiedType DEF Reject
<1>6. rejected' \subseteq Relays \X Messages
  BY <1>5 DEF Reject, TypeOK
<1>2. waiting' \in [Senders -> {None} \cup Messages]
  BY <1>1, AnswerType DEF Reject
<1>3. verifying' \in [Senders -> AtMostOne]
  BY EmptyType DEF Reject, TypeOK
<1>4. QED
  BY <1>2, <1>3, <1>6 DEF TypeOK, Reject

LEMMA TakePacketType ==
  ASSUME TypeOK, NEW n \in Senders, TakePacket(n)
  PROVE  TypeOK'
<1> DEFINE h == Head(queue[n])
           r == Tail(queue[n])
<1>1. h \in Packet /\ r \in Seq(Packet) /\ Len(r) <= QueueSize
  BY TailType, NumbersAreNumbers DEF TypeOK, TakePacket
<1>2. taken' = [taken EXCEPT ![n] = <<h>>] /\ queue' = [queue EXCEPT ![n] = r]
  BY DEF TakePacket
<1> HIDE DEF h, r
<1>3. taken' \in [Senders -> AtMostOne]
  BY <1>1, <1>2, SingletonType DEF TypeOK
<1>4. queue' \in [Senders -> Seq(Packet)]
  BY <1>1, <1>2 DEF TypeOK
<1>5. \A s \in Senders : Len(queue'[s]) <= QueueSize
  BY <1>1, <1>2 DEF TypeOK
<1>6. QED
  BY <1>3, <1>4, <1>5 DEF TypeOK, TakePacket

LEMMA SendPacketType ==
  ASSUME TypeOK, NEW n \in Senders, SendPacket(n)
  PROVE  TypeOK'
<1>1. taken' \in [Senders -> AtMostOne]
  BY EmptyType DEF SendPacket, TypeOK
<1>2. CASE Fault /\ UNCHANGED <<inbound, waiting>>
  BY <1>1, <1>2, FaultType DEF TypeOK, SendPacket
<1>3. CASE ~(Fault /\ UNCHANGED <<inbound, waiting>>)
  <2>1. n + 1 \in Nodes /\ taken[n] \in Seq(Packet) /\ inbound[n + 1] \in Seq(Packet)
    BY NumbersAreNumbers DEF TypeOK, AtMostOne
  <2>2. Head(taken[n]) \in Packet
    BY <2>1, TailType DEF SendPacket
  <2> DEFINE s == inbound[n + 1] \o taken[n]
             m == Head(taken[n]).msg
  <2>3. s \in Seq(Packet) /\ m \in Messages
    BY <2>1, <2>2, ConcatType DEF Packet
  <2>4. inbound' = [inbound EXCEPT ![n + 1] = s] /\ NoFault
        /\ waiting' = [waiting EXCEPT ![n] = m]
    BY <1>3 DEF SendPacket
  <2> HIDE DEF s, m
  <2>5. inbound' \in [Nodes -> Seq(Packet)]
    BY <2>3, <2>4 DEF TypeOK
  <2>6. waiting' \in [Senders -> {None} \cup Messages]
    BY <2>3, <2>4 DEF TypeOK
  <2>7. QED
    BY <1>1, <2>4, <2>5, <2>6 DEF TypeOK, SendPacket, NoFault
<1>4. QED
  BY <1>2, <1>3

LEMMA DeliverType ==
  ASSUME TypeOK, Deliver
  PROVE  TypeOK'
<1>1. /\ Oldest(Last) \in Packet /\ Oldest(Last).uid \in Uids
      /\ inbound' \in [Nodes -> Seq(Packet)]
  BY OldestType, NumbersAreNumbers DEF Deliver
<1>2. seen' \in [Nodes -> SUBSET Uids]
  BY <1>1 DEF Deliver, TypeOK
<1>3. waiting' \in [Senders -> {None} \cup Messages]
  BY AnswerType, NumbersAreNumbers DEF Deliver
<1>4. delivered' \in Seq(Packet) /\ faults' \in 0 .. MaxFaults
  <2>1. delivered \in Seq(Packet) /\ faults \in 0 .. MaxFaults
    BY DEF TypeOK
  <2>2. CASE NoFault /\ delivered' = Append(delivered, Oldest(Last))
    BY <1>1, <2>1, <2>2 DEF NoFault
  <2>3. CASE Fault /\ UNCHANGED delivered
    BY <2>1, <2>3, FaultType
  <2>4. QED
    BY <2>2, <2>3 DEF Deliver
<1>5. QED
  BY <1>1, <1>2, <1>3, <1>4 DEF TypeOK, Deliver

LEMMA RestartType ==
  ASSUME TypeOK, NEW n \in Nodes, Restart(n)
  PROVE  TypeOK'
<1>1. nextUid' \in 1 .. sent' + 1 /\ faults' \in 0 .. MaxFaults
  BY FaultType DEF Restart, TypeOK
<1>2. /\ adding' \in [Senders -> AtMostOne]
      /\ verifying' \in [Senders -> AtMostOne]
      /\ taken' \in [Senders -> AtMostOne]
  BY EmptyType DEF Restart, TypeOK
<1>3. queue' \in [Senders -> Seq(Packet)]
  BY EmptyType DEF Restart, TypeOK
<1>4. \A s \in Senders : Len(queue'[s]) <= QueueSize
  BY NumbersAreNumbers DEF Restart, TypeOK
<1>5. waiting' \in [Senders -> {None} \cup Messages]
  BY DEF Restart, TypeOK
<1>6. seen' \in [Nodes -> SUBSET Uids] /\ inbound' \in [Nodes -> Seq(Packet)]
  BY EmptyType DEF Restart, TypeOK
<1>7. QED
  BY <1>1, <1>2, <1>3, <1>4, <1>5, <1>6 DEF TypeOK, Restart

LEMMA TypeInductive == TypeOK /\ [Next]_vars => TypeOK'
<1> SUFFICES ASSUME TypeOK, [Next]_vars PROVE TypeOK'
  OBVIOUS
<1>1. ASSUME NEW real \in BOOLEAN, Receive(real) PROVE TypeOK'
  BY <1>1, ReceiveType
<1>2. CASE Put(0)
  BY <1>2, PutType, NumbersAreNumbers
<1>3. ASSUME NEW n \in 1 .. Last, ReceivingThread(n) PROVE TypeOK'
  <2>1. n \in Relays => n \in Senders
    BY NumbersAreNumbers
  <2>2. QED
    BY <1>3, <2>1, ReadTornType, AnswerDuplicateType, StartAddingType, PutType,
       AcceptType, RejectType, DeliverType DEF ReceivingThread
<1>4. ASSUME NEW n \in Senders, ForwardingThread(n) PROVE TypeOK'
  BY <1>4, TakePacketType, SendPacketType DEF ForwardingThread
<1>5. ASSUME NEW n \in Nodes, Restart(n) PROVE TypeOK'
  BY <1>5, RestartType
<1>6. CASE UNCHANGED vars
  BY <1>6 DEF vars, TypeOK
<1>7. QED
  BY <1>1, <1>2, <1>3, <1>4, <1>5, <1>6 DEF Next

(* Packets, queues and counters keep their types: no queue exceeds its size   *)
(* and no uid runs ahead of the messages received.                           *)
THEOREM TypeCorrect == Spec => []TypeOK
<1>1. Init => TypeOK
  BY EmptyType, NumbersAreNumbers DEF Init, TypeOK
<1>2. QED
  BY <1>1, TypeInductive, PTL DEF Spec
-----------------------------------------------------------------------------
(* The order of the line.  Read from the receiver back to the producer, and   *)
(* within a node from the forwarding thread back to its connections, the      *)
(* messages are in the order in which RadioA sent them.                       *)
Msgs(s) == {s[i].msg : i \in DOMAIN s}
Sorted(s) == \A i, j \in DOMAIN s : i < j => s[i].msg < s[j].msg
Below(S, T) == \A a \in S, b \in T : a < b

All(n) == Msgs(inbound[n]) \cup
          IF n = Last THEN {}
          ELSE Msgs(adding[n]) \cup Msgs(queue[n]) \cup Msgs(taken[n])

Tidy(n) ==
  /\ n = 0 => inbound[n] = <<>>
  /\ Sorted(inbound[n])
  /\ n # Last =>
       /\ Sorted(queue[n])
       /\ Below(Msgs(adding[n]), Msgs(inbound[n]))
       /\ Below(Msgs(queue[n]), Msgs(adding[n]) \cup Msgs(inbound[n]))
       /\ Below(Msgs(taken[n]), Msgs(queue[n]) \cup Msgs(adding[n]) \cup Msgs(inbound[n]))

OrderInv ==
  /\ TypeOK
  /\ \A n \in Nodes : Tidy(n)
  /\ \A a, b \in Nodes : a < b => Below(All(b), All(a))
  /\ \A n \in Nodes : \A m \in All(n) : m <= sent

LEMMA SeqMsgs ==
  ASSUME NEW s \in Seq(Packet)
  PROVE  /\ DOMAIN s = 1 .. Len(s) /\ Len(s) \in Nat
         /\ \A i \in 1 .. Len(s) : s[i] \in Packet /\ s[i].msg \in Messages
         /\ Msgs(s) \subseteq Messages /\ Msgs(s) \subseteq Nat
<1>1. DOMAIN s = 1 .. Len(s) /\ Len(s) \in Nat
  OBVIOUS
<1>2. ASSUME NEW i \in 1 .. Len(s) PROVE s[i] \in Packet /\ s[i].msg \in Messages
  <2>1. s[i] \in Packet
    OBVIOUS
  <2>2. QED
    BY <2>1 DEF Packet
<1>3. Messages \subseteq Nat
  BY NumbersAreNumbers DEF Messages
<1>4. QED
  BY <1>1, <1>2, <1>3 DEF Msgs

LEMMA EmptyMsgs == Msgs(<<>>) = {} /\ Sorted(<<>>)
BY DEF Msgs, Sorted

LEMMA SingleMsgs ==
  ASSUME NEW p
  PROVE  Msgs(<<p>>) = {p.msg} /\ Sorted(<<p>>)
<1>1. DOMAIN <<p>> = {1} /\ <<p>>[1] = p
  OBVIOUS
<1>2. QED
  BY <1>1 DEF Msgs, Sorted

LEMMA TailMsgs ==
  ASSUME NEW s \in Seq(Packet), s # <<>>
  PROVE  /\ Head(s).msg \in Msgs(s) /\ Msgs(Tail(s)) \subseteq Msgs(s)
         /\ Sorted(s) => /\ Sorted(Tail(s))
                         /\ \A m \in Msgs(Tail(s)) : Head(s).msg < m
<1>1. /\ Tail(s) \in Seq(Packet) /\ Len(Tail(s)) = Len(s) - 1
      /\ Len(s) \in Nat /\ Len(s) >= 1 /\ Head(s) = s[1]
      /\ \A i \in 1 .. Len(s) - 1 : Tail(s)[i] = s[i + 1]
  OBVIOUS
<1>2. DOMAIN s = 1 .. Len(s) /\ DOMAIN Tail(s) = 1 .. Len(s) - 1
  BY <1>1, SeqMsgs
<1>3. QED
  BY <1>1, <1>2 DEF Msgs, Sorted

LEMMA ConcatMsgs ==
  ASSUME NEW s \in Seq(Packet), NEW t \in Seq(Packet)
  PROVE  /\ Msgs(s \o t) = Msgs(s) \cup Msgs(t)
         /\ Sorted(s) /\ Sorted(t) /\ Below(Msgs(s), Msgs(t)) => Sorted(s \o t)
<1> DEFINE u == s \o t
<1>1. /\ Len(s) \in Nat /\ Len(t) \in Nat
      /\ DOMAIN s = 1 .. Len(s) /\ DOMAIN t = 1 .. Len(t)
      /\ DOMAIN u = 1 .. Len(s) + Len(t)
      /\ \A i \in 1 .. Len(s) : u[i] = s[i]
      /\ \A i \in 1 .. Len(t) : u[Len(s) + i] = t[i]
  OBVIOUS
<1> HIDE DEF u
<1>2. \A i \in DOMAIN u : \/ i \in 1 .. Len(s) /\ u[i] = s[i]
                          \/ i - Len(s) \in 1 .. Len(t) /\ u[i] = t[i - Len(s)]
  <2> TAKE i \in DOMAIN u
  <2>1. CASE i <= Len(s)
    BY <1>1, <2>1
  <2>2. CASE ~(i <= Len(s))
    <3>1. i - Len(s) \in 1 .. Len(t) /\ Len(s) + (i - Len(s)) = i
      BY <1>1, <2>2
    <3>2. QED
      BY <1>1, <3>1
  <2>3. QED
    BY <2>1, <2>2
<1>3. Msgs(u) = Msgs(s) \cup Msgs(t)
  <2>1. Msgs(u) \subseteq Msgs(s) \cup Msgs(t)
    BY <1>1, <1>2 DEF Msgs
  <2>2. Msgs(s) \subseteq Msgs(u)
    BY <1>1 DEF Msgs
  <2>3. Msgs(t) \subseteq Msgs(u)
    <3>1. \A i \in 1 .. Len(t) : Len(s) + i \in DOMAIN u
      BY <1>1
    <3>2. QED
      BY <1>1, <3>1 DEF Msgs
  <2>4. QED
    BY <2>1, <2>2, <2>3
<1>4. ASSUME Sorted(s), Sorted(t), Below(Msgs(s), Msgs(t)),
             NEW i \in DOMAIN u, NEW j \in DOMAIN u, i < j
      PROVE  u[i].msg < u[j].msg
  <2>1. CASE i \in 1 .. Len(s) /\ j \in 1 .. Len(s)
    BY <1>1, <1>4, <2>1 DEF Sorted
  <2>2. CASE i \in 1 .. Len(s) /\ j - Len(s) \in 1 .. Len(t) /\ u[j] = t[j - Len(s)]
    <3>1. u[i].msg \in Msgs(s) /\ u[j].msg \in Msgs(t)
      BY <1>1, <2>2 DEF Msgs
    <3>2. QED
      BY <1>4, <3>1 DEF Below
  <2>3. CASE /\ i - Len(s) \in 1 .. Len(t) /\ u[i] = t[i - Len(s)]
             /\ j - Len(s) \in 1 .. Len(t) /\ u[j] = t[j - Len(s)]
    <3>1. i - Len(s) < j - Len(s)
      BY <1>1, <1>4
    <3>2. QED
      BY <1>1, <1>4, <2>3, <3>1 DEF Sorted
  <2>4. CASE i - Len(s) \in 1 .. Len(t) /\ j \in 1 .. Len(s)
    BY <1>1, <1>4, <2>4
  <2>5. QED
    BY <1>2, <1>4, <2>1, <2>2, <2>3, <2>4
<1>5. QED
  BY <1>3, <1>4 DEF u, Sorted

LEMMA CountedMsgs ==
  ASSUME NEW s \in Seq(Packet), NEW m
  PROVE  Msgs(Counted(s, m)) = Msgs(s) /\ (Sorted(s) => Sorted(Counted(s, m)))
<1>1. DOMAIN Counted(s, m) = DOMAIN s
  BY DEF Counted
<1>2. ASSUME NEW i \in DOMAIN s PROVE Counted(s, m)[i].msg = s[i].msg
  <2>1. s[i] \in Packet
    BY SeqMsgs
  <2>2. [s[i] EXCEPT !.hops = @ + 1].msg = s[i].msg
    BY <2>1 DEF Packet
  <2>3. QED
    BY <2>2 DEF Counted
<1>3. QED
  BY <1>1, <1>2 DEF Msgs, Sorted

LEMMA AtMostOneMsgs ==
  ASSUME NEW s \in AtMostOne
  PROVE  /\ s \in Seq(Packet) /\ Sorted(s)
         /\ s # <<>> => Msgs(s) = {Head(s).msg} /\ Head(s) \in Packet
<1>1. s \in Seq(Packet) /\ Len(s) \in Nat /\ Len(s) <= 1 /\ DOMAIN s = 1 .. Len(s)
  BY DEF AtMostOne
<1>2. Sorted(s)
  BY <1>1 DEF Sorted
<1>3. ASSUME s # <<>> PROVE DOMAIN s = {1} /\ Head(s) = s[1] /\ Head(s) \in Packet
  BY <1>1, <1>3
<1>4. QED
  BY <1>1, <1>2, <1>3 DEF Msgs

(* What the buffers of a node hold.                                          *)
LEMMA Buffers ==
  ASSUME TypeOK
  PROVE  /\ \A n \in Nodes : inbound[n] \in Seq(Packet)
         /\ \A n \in Senders : /\ adding[n] \in AtMostOne /\ taken[n] \in AtMostOne
                               /\ queue[n] \in Seq(Packet)
         /\ \A n \in Nodes : All(n) \subseteq Nat
<1>1. \A n \in Nodes : inbound[n] \in Seq(Packet)
  BY DEF TypeOK
<1>2. \A n \in Senders : /\ adding[n] \in AtMostOne /\ taken[n] \in AtMostOne
                         /\ queue[n] \in Seq(Packet)
  BY DEF TypeOK
<1>3. ASSUME NEW n \in Nodes PROVE All(n) \subseteq Nat
  <2>1. CASE n = Last
    BY <1>1, <2>1, SeqMsgs DEF All
  <2>2. CASE n # Last
    <3>1. n \in Senders
      BY <2>2, NumbersAreNumbers
    <3>2. adding[n] \in Seq(Packet) /\ taken[n] \in Seq(Packet)
      BY <1>2, <3>1, AtMostOneMsgs
    <3>3. Msgs(inbound[n]) \subseteq Nat /\ Msgs(queue[n]) \subseteq Nat
      BY <1>1, <1>2, <3>1, SeqMsgs
    <3>4. Msgs(adding[n]) \subseteq Nat /\ Msgs(taken[n]) \subseteq Nat
      BY <3>2, SeqMsgs
    <3>5. QED
      BY <2>2, <3>3, <3>4 DEF All
  <2>3. QED
    BY <2>1, <2>2
<1>4. QED
  BY <1>1, <1>2, <1>3

(* What the line holds is what some node holds.                              *)
Held == UNION {All(n) : n \in Nodes}

(* A step at one node that lets no message in keeps the order when it keeps   *)
(* that node's.                                                              *)
Same(n) ==
  /\ inbound'[n] = inbound[n]
  /\ n # Last => /\ adding'[n] = adding[n] /\ queue'[n] = queue[n]
                 /\ taken'[n] = taken[n]

LEMMA OneNode ==
  ASSUME OrderInv, TypeOK', NEW n \in Nodes, Tidy(n)', All(n)' \subseteq All(n),
         \A k \in Nodes \ {n} : Same(k), sent' = sent
  PROVE  OrderInv' /\ Held' \subseteq Held
<1>1. \A k \in Nodes \ {n} : Tidy(k)' /\ All(k)' = All(k)
  BY DEF OrderInv, Same, Tidy, All
<1>2. \A k \in Nodes : Tidy(k)' /\ All(k)' \subseteq All(k)
  BY <1>1
<1>3. \A a, b \in Nodes : a < b => Below(All(b)', All(a)')
  BY <1>2 DEF OrderInv, Below
<1>4. \A k \in Nodes : \A m \in All(k)' : m <= sent'
  BY <1>2 DEF OrderInv
<1>5. (\A a, b \in Nodes : a < b => Below(All(b), All(a)))'
  BY <1>3 DEF Below
<1>6. Held' \subseteq Held
  BY <1>2 DEF Held
<1>7. QED
  BY <1>2, <1>4, <1>5, <1>6 DEF OrderInv

(* The oldest connection of a node is taken and its packet dropped or, by     *)
(* the last node, delivered.                                                 *)
LEMMA OrderDrop ==
  ASSUME OrderInv, TypeOK', NEW n \in 1 .. Last, inbound[n] # <<>>,
         inbound' = [inbound EXCEPT ![n] = Tail(@)],
         UNCHANGED <<sent, adding, queue, taken>>
  PROVE  OrderInv' /\ Held' \subseteq Held
<1>1. n \in Nodes /\ n # 0
  BY NumbersAreNumbers
<1>2. inbound[n] \in Seq(Packet) /\ inbound \in [Nodes -> Seq(Packet)]
  BY <1>1 DEF OrderInv, TypeOK
<1>3. inbound'[n] = Tail(inbound[n]) /\ \A k \in Nodes \ {n} : Same(k)
  BY <1>1, <1>2 DEF Same
<1>4. Sorted(inbound[n]) /\ Tidy(n)
  BY <1>1 DEF OrderInv, Tidy
<1>5. Sorted(inbound'[n]) /\ Msgs(inbound'[n]) \subseteq Msgs(inbound[n])
  BY <1>2, <1>3, <1>4, TailMsgs
<1>6. Tidy(n)'
  BY <1>1, <1>4, <1>5 DEF Tidy, Below
<1>7. All(n)' \subseteq All(n)
  BY <1>5 DEF All
<1>8. QED
  BY <1>1, <1>3, <1>6, <1>7, OneNode

LEMMA OrderStartAdding ==
  ASSUME OrderInv, TypeOK', NEW n \in Relays, StartAdding(n)
  PROVE  OrderInv' /\ Held' \subseteq Held
<1>1. n \in Nodes /\ n \in Senders /\ n # 0 /\ n # Last
  BY NumbersAreNumbers
<1>2. /\ inbound[n] \in Seq(Packet) /\ inbound \in [Nodes -> Seq(Packet)]
      /\ adding \in [Senders -> AtMostOne] /\ inbound[n] # <<>>
      /\ adding[n] = <<>>
  BY <1>1 DEF OrderInv, TypeOK, StartAdding, Accepts
<1>3. /\ inbound'[n] = Tail(inbound[n]) /\ adding'[n] = <<Head(inbound[n])>>
      /\ queue' = queue /\ taken' = taken /\ sent' = sent
      /\ \A k \in Nodes \ {n} : Same(k)
  BY <1>1, <1>2 DEF StartAdding, Accepts, Oldest, Same
<1>4. Sorted(inbound[n]) /\ Tidy(n)
  BY <1>1 DEF OrderInv, Tidy
<1>5. /\ Sorted(inbound'[n]) /\ Msgs(inbound'[n]) \subseteq Msgs(inbound[n])
      /\ Head(inbound[n]).msg \in Msgs(inbound[n])
      /\ \A m \in Msgs(inbound'[n]) : Head(inbound[n]).msg < m
  BY <1>2, <1>3, <1>4, TailMsgs
<1>6. Msgs(adding'[n]) = {Head(inbound[n]).msg}
  BY <1>3, SingleMsgs
<1>7. Below(Msgs(adding'[n]), Msgs(inbound'[n]))
  BY <1>5, <1>6 DEF Below
<1>8. Tidy(n)'
  BY <1>1, <1>3, <1>4, <1>5, <1>6, <1>7 DEF Tidy, Below
<1>9. All(n)' \subseteq All(n)
  BY <1>1, <1>3, <1>5, <1>6 DEF All
<1>10. QED
  BY <1>1, <1>3, <1>8, <1>9, OneNode

LEMMA OrderPut ==
  ASSUME OrderInv, TypeOK', NEW n \in Senders, Put(n)
  PROVE  OrderInv' /\ Held' \subseteq Held
<1>1. n \in Nodes /\ n # Last
  BY NumbersAreNumbers
<1>2. /\ adding \in [Senders -> AtMostOne] /\ queue \in [Senders -> Seq(Packet)]
      /\ adding[n] \in AtMostOne /\ queue[n] \in Seq(Packet)
  BY DEF OrderInv, TypeOK
<1>3. /\ adding'[n] = <<>> /\ queue'[n] = queue[n] \o adding[n]
      /\ inbound' = inbound /\ taken' = taken /\ sent' = sent
      /\ \A k \in Nodes \ {n} : Same(k)
  BY <1>2 DEF Put, Same
<1>4. adding[n] \in Seq(Packet) /\ Sorted(adding[n]) /\ Tidy(n)
  BY <1>1, <1>2, AtMostOneMsgs DEF OrderInv
<1>5. Sorted(queue[n]) /\ Below(Msgs(queue[n]), Msgs(adding[n]))
  BY <1>1, <1>4 DEF Tidy, Below
<1>6. Msgs(queue'[n]) = Msgs(queue[n]) \cup Msgs(adding[n]) /\ Sorted(queue'[n])
  BY <1>2, <1>3, <1>4, <1>5, ConcatMsgs
<1>7. Msgs(adding'[n]) = {}
  BY <1>3, EmptyMsgs
<1>8. Tidy(n)'
  BY <1>1, <1>3, <1>4, <1>6, <1>7 DEF Tidy, Below
<1>9. All(n)' \subseteq All(n)
  BY <1>1, <1>3, <1>6, <1>7 DEF All
<1>10. QED
  BY <1>1, <1>3, <1>8, <1>9, OneNode

LEMMA OrderAccept ==
  ASSUME OrderInv, TypeOK', NEW n \in Senders, Accept(n)
  PROVE  OrderInv' /\ Held' \subseteq Held
<1> DEFINE m == Verified(n).msg
<1>1. n \in Nodes /\ n # Last
  BY NumbersAreNumbers
<1>2. /\ taken \in [Senders -> AtMostOne] /\ queue \in [Senders -> Seq(Packet)]
      /\ taken[n] \in Seq(Packet) /\ queue[n] \in Seq(Packet)
  BY AtMostOneMsgs DEF OrderInv, TypeOK
<1>3. /\ taken'[n] = Counted(taken[n], m) /\ queue'[n] = Counted(queue[n], m)
      /\ inbound' = inbound /\ adding' = adding /\ sent' = sent
      /\ \A k \in Nodes \ {n} : Same(k)
  BY <1>2 DEF Accept, Same
<1> HIDE DEF m
<1>4. /\ Msgs(taken'[n]) = Msgs(taken[n]) /\ Msgs(queue'[n]) = Msgs(queue[n])
      /\ Sorted(queue[n]) => Sorted(queue'[n])
  BY <1>2, <1>3, CountedMsgs
<1>5. Tidy(n)
  BY <1>1 DEF OrderInv
<1>6. Tidy(n)' /\ All(n)' \subseteq All(n)
  BY <1>1, <1>3, <1>4, <1>5 DEF Tidy, All
<1>7. QED
  BY <1>1, <1>3, <1>6, OneNode

LEMMA OrderTakePacket ==
  ASSUME OrderInv, TypeOK', NEW n \in Senders, TakePacket(n)
  PROVE  OrderInv' /\ Held' \subseteq Held
<1>1. n \in Nodes /\ n # Last
  BY NumbersAreNumbers
<1>2. /\ taken \in [Senders -> AtMostOne] /\ queue \in [Senders -> Seq(Packet)]
      /\ queue[n] \in Seq(Packet) /\ queue[n] # <<>> /\ taken[n] = <<>>
  BY DEF OrderInv, TypeOK, TakePacket
<1>3. /\ taken'[n] = <<Head(queue[n])>> /\ queue'[n] = Tail(queue[n])
      /\ inbound' = inbound /\ adding' = adding /\ sent' = sent
      /\ \A k \in Nodes \ {n} : Same(k)
  BY <1>2 DEF TakePacket, Same
<1>4. Tidy(n) /\ Sorted(queue[n])
  BY <1>1 DEF OrderInv, Tidy
<1>5. /\ Sorted(queue'[n]) /\ Msgs(queue'[n]) \subseteq Msgs(queue[n])
      /\ Head(queue[n]).msg \in Msgs(queue[n])
      /\ \A m \in Msgs(queue'[n]) : Head(queue[n]).msg < m
  BY <1>2, <1>3, <1>4, TailMsgs
<1>6. Msgs(taken'[n]) = {Head(queue[n]).msg}
  BY <1>3, SingleMsgs
<1>7. /\ Below(Msgs(taken'[n]), Msgs(queue'[n]))
      /\ Below(Msgs(taken'[n]), Msgs(adding[n]) \cup Msgs(inbound[n]))
      /\ Below(Msgs(queue'[n]), Msgs(adding[n]) \cup Msgs(inbound[n]))
  BY <1>1, <1>4, <1>5, <1>6 DEF Tidy, Below
<1>8. Tidy(n)'
  BY <1>1, <1>3, <1>4, <1>5, <1>7 DEF Tidy, Below
<1>9. All(n)' \subseteq All(n)
  BY <1>1, <1>3, <1>5, <1>6 DEF All
<1>10. QED
  BY <1>1, <1>3, <1>8, <1>9, OneNode

LEMMA OrderRestart ==
  ASSUME OrderInv, TypeOK', NEW n \in Nodes, Restart(n)
  PROVE  OrderInv' /\ Held' \subseteq Held
<1>1. inbound \in [Nodes -> Seq(Packet)]
  BY DEF OrderInv, TypeOK
<1>2. inbound'[n] = <<>> /\ \A k \in Nodes \ {n} : inbound'[k] = inbound[k]
  BY <1>1 DEF Restart
<1>3. /\ n # Last => adding'[n] = <<>> /\ queue'[n] = <<>> /\ taken'[n] = <<>>
      /\ \A k \in Nodes \ {n} : Same(k)
  BY <1>2, NumbersAreNumbers DEF Restart, Same
<1>4. Tidy(n)' /\ All(n)' = {}
  BY <1>2, <1>3, EmptyMsgs DEF Tidy, All, Below
<1>5. QED
  BY <1>3, <1>4, OneNode DEF Restart

(* A packet that is sent is older than what stays and newer than what the     *)
(* next node holds.                                                          *)
LEMMA OrderSendPacket ==
  ASSUME OrderInv, TypeOK', NEW n \in Senders, SendPacket(n)
  PROVE  OrderInv' /\ Held' \subseteq Held
<1>1. n \in Nodes /\ n # Last /\ n + 1 \in Nodes /\ n + 1 # 0 /\ n # n + 1
  BY NumbersAreNumbers
<1>2. /\ taken \in [Senders -> AtMostOne] /\ inbound \in [Nodes -> Seq(Packet)]
      /\ taken[n] \in AtMostOne /\ inbound[n + 1] \in Seq(Packet) /\ taken[n] # <<>>
  BY <1>1 DEF OrderInv, TypeOK, SendPacket
<1>3. taken[n] \in Seq(Packet) /\ Sorted(taken[n])
  BY <1>2, AtMostOneMsgs
<1>4. /\ taken'[n] = <<>> /\ \A k \in Senders \ {n} : taken'[k] = taken[k]
      /\ queue' = queue /\ adding' = adding /\ sent' = sent
  BY <1>2 DEF SendPacket
<1>5. CASE UNCHANGED inbound
  <2>1. \A k \in Nodes \ {n} : Same(k)
    BY <1>4, <1>5, NumbersAreNumbers DEF Same
  <2>2. Tidy(n) /\ Msgs(taken'[n]) = {}
    BY <1>1, <1>4, EmptyMsgs DEF OrderInv
  <2>3. Tidy(n)' /\ All(n)' \subseteq All(n)
    BY <1>1, <1>4, <1>5, <2>2 DEF Tidy, All, Below
  <2>4. QED
    BY <1>1, <1>4, <2>1, <2>3, OneNode
<1>6. CASE inbound' = [inbound EXCEPT ![n + 1] = @ \o taken[n]]
  <2>1. /\ inbound'[n + 1] = inbound[n + 1] \o taken[n]
        /\ \A k \in Nodes \ {n + 1} : inbound'[k] = inbound[k]
    BY <1>1, <1>2, <1>6
  <2>2. \A k \in Nodes \ {n, n + 1} : Same(k)
    BY <1>4, <2>1, NumbersAreNumbers DEF Same
  <2>3. \A k \in Nodes \ {n, n + 1} : Tidy(k)' /\ All(k)' = All(k)
    BY <2>2 DEF OrderInv, Same, Tidy, All
  <2>4. Tidy(n) /\ Tidy(n + 1) /\ Below(All(n + 1), All(n))
    BY <1>1 DEF OrderInv
  <2>5. Msgs(taken[n]) \subseteq All(n) /\ Msgs(inbound[n + 1]) \subseteq All(n + 1)
    BY <1>1 DEF All
  <2>6. Below(Msgs(inbound[n + 1]), Msgs(taken[n]))
    BY <2>4, <2>5 DEF Below
  <2>7. /\ Msgs(inbound'[n + 1]) = Msgs(inbound[n + 1]) \cup Msgs(taken[n])
        /\ Sorted(inbound'[n + 1])
    BY <1>2, <1>3, <2>1, <2>4, <2>6, ConcatMsgs DEF Tidy
  <2>8. All(n + 1)' \subseteq All(n + 1) \cup Msgs(taken[n])
    BY <1>4, <2>7, NumbersAreNumbers DEF All
  <2>9. Tidy(n + 1)'
    <3>1. CASE n + 1 = Last
      BY <1>1, <2>7, <3>1 DEF Tidy
    <3>2. CASE n + 1 # Last
      <4>1. /\ adding'[n + 1] = adding[n + 1] /\ queue'[n + 1] = queue[n + 1]
            /\ taken'[n + 1] = taken[n + 1]
        BY <1>1, <1>4, <3>2, NumbersAreNumbers
      <4>2. /\ Msgs(adding[n + 1]) \subseteq All(n + 1)
            /\ Msgs(queue[n + 1]) \subseteq All(n + 1)
            /\ Msgs(taken[n + 1]) \subseteq All(n + 1)
        BY <3>2 DEF All
      <4>3. Below(All(n + 1), Msgs(taken[n]))
        BY <2>4, <2>5 DEF Below
      <4>4. QED
        BY <1>1, <2>4, <2>7, <3>2, <4>1, <4>2, <4>3 DEF Tidy, Below
    <3>3. QED
      BY <3>1, <3>2
  <2>10. Msgs(taken'[n]) = {} /\ inbound'[n] = inbound[n]
    BY <1>1, <1>4, <2>1, EmptyMsgs
  <2>11. Tidy(n)' /\ All(n)' \subseteq All(n)
    BY <1>1, <1>4, <2>4, <2>10 DEF Tidy, All, Below
  <2>12. ASSUME NEW x \in All(n)' PROVE \A y \in Msgs(taken[n]) : y < x
    <3>1. x \in Msgs(inbound[n]) \cup Msgs(adding[n]) \cup Msgs(queue[n])
      BY <1>1, <1>4, <2>10, <2>12 DEF All
    <3>2. QED
      BY <1>1, <2>4, <3>1 DEF Tidy, Below
  <2>13. ASSUME NEW a \in Nodes, NEW b \in Nodes, a < b
         PROVE  Below(All(b)', All(a)')
    <3>1. Below(All(b), All(a)) /\ (a < n => Below(All(n), All(a)))
      BY <1>1, <2>13 DEF OrderInv
    <3>2. n + 1 < b => Below(All(b), All(n))
      BY <1>1, <2>13, NumbersAreNumbers DEF OrderInv
    <3>3. CASE b = n + 1
      <4>1. CASE a = n
        BY <2>8, <2>11, <2>12, <3>1, <3>3, <4>1 DEF Below
      <4>2. CASE a # n
        <5>1. a < n /\ a # n + 1
          BY <1>1, <2>13, <3>3, <4>2, NumbersAreNumbers
        <5>2. All(a)' = All(a)
          BY <2>3, <4>2, <5>1
        <5>3. QED
          BY <2>5, <2>8, <3>1, <3>3, <5>1, <5>2 DEF Below
      <4>3. QED
        BY <4>1, <4>2
    <3>4. CASE b # n + 1
      <4>1. All(b)' \subseteq All(b)
        BY <2>3, <2>11, <3>4
      <4>2. CASE a = n + 1
        BY <2>5, <2>8, <2>13, <3>1, <3>2, <4>1, <4>2 DEF Below
      <4>3. CASE a # n + 1
        <5>1. All(a)' \subseteq All(a)
          BY <2>3, <2>11, <4>3
        <5>2. QED
          BY <3>1, <4>1, <5>1 DEF Below
      <4>4. QED
        BY <4>2, <4>3
    <3>5. QED
      BY <3>3, <3>4
  <2>14. (\A a, b \in Nodes : a < b => Below(All(b), All(a)))'
    BY <2>13 DEF Below
  <2>15. \A k \in Nodes : Tidy(k)'
    BY <2>3, <2>9, <2>11
  <2>16. ASSUME NEW k \in Nodes, NEW x \in All(k)' PROVE x <= sent'
    BY <1>1, <1>4, <2>3, <2>5, <2>8, <2>11, <2>16 DEF OrderInv
  <2>17. Held' \subseteq Held
    BY <1>1, <2>3, <2>5, <2>8, <2>11 DEF Held
  <2>18. QED
    BY <2>14, <2>15, <2>16, <2>17 DEF OrderInv
<1>7. QED
  BY <1>5, <1>6 DEF SendPacket

LEMMA OrderReceive ==
  ASSUME OrderInv, TypeOK', NEW real \in BOOLEAN, Receive(real)
  PROVE  OrderInv' /\ \A n \in Nodes : All(n)' \subseteq All(n) \cup {sent'}
<1> DEFINE p == [msg |-> sent', uid |-> nextUid, real |-> real, hops |-> 0]
<1>1. p.msg = sent' /\ 0 \in Nodes /\ 0 \in Senders /\ 0 # Last
  BY NumbersAreNumbers
<1>2. adding \in [Senders -> AtMostOne] /\ sent \in Nat
  BY DEF OrderInv, TypeOK
<1>3. /\ adding'[0] = <<p>> /\ sent' = sent + 1
      /\ \A k \in Senders \ {0} : adding'[k] = adding[k]
      /\ inbound' = inbound /\ queue' = queue /\ taken' = taken /\ adding[0] = <<>>
  BY <1>1, <1>2 DEF Receive
<1> HIDE DEF p
<1>4. Msgs(adding'[0]) = {sent'} /\ Msgs(inbound[0]) = {} /\ inbound[0] = <<>>
  BY <1>1, <1>3, SingleMsgs, EmptyMsgs DEF OrderInv, Tidy
<1>5. \A k \in Nodes \ {0} : Tidy(k)' /\ All(k)' = All(k)
  <2>1. \A k \in Nodes \ {0} : Same(k)
    BY <1>3, NumbersAreNumbers DEF Same
  <2>2. QED
    BY <2>1 DEF OrderInv, Same, Tidy, All
<1>6. All(0)' \subseteq All(0) \cup {sent'}
  BY <1>1, <1>3, <1>4 DEF All
<1>7. \A n \in Nodes : \A m \in All(n) : m \in Nat /\ m < sent'
  BY <1>2, <1>3, Buffers DEF OrderInv
<1>8. Msgs(queue[0]) \subseteq All(0) /\ Msgs(taken[0]) \subseteq All(0)
  BY <1>1 DEF All
<1>9. Tidy(0)'
  BY <1>1, <1>3, <1>4, <1>7, <1>8 DEF OrderInv, Tidy, Below
<1>10. ASSUME NEW a \in Nodes, NEW b \in Nodes, a < b
       PROVE  Below(All(b)', All(a)')
  <2>1. b # 0 /\ All(b)' = All(b) /\ All(a)' \subseteq All(a) \cup {sent'}
    BY <1>5, <1>6, <1>10, NumbersAreNumbers
  <2>2. QED
    BY <1>7, <1>10, <2>1 DEF OrderInv, Below
<1>11. (\A a, b \in Nodes : a < b => Below(All(b), All(a)))'
  BY <1>10 DEF Below
<1>12. \A n \in Nodes : All(n)' \subseteq All(n) \cup {sent'}
  BY <1>5, <1>6
<1>13. \A n \in Nodes : \A m \in All(n)' : m <= sent'
  BY <1>2, <1>3, <1>7, <1>12
<1>14. QED
  BY <1>1, <1>5, <1>9, <1>11, <1>12, <1>13 DEF OrderInv

LEMMA OrderQuiet ==
  ASSUME OrderInv, TypeOK', UNCHANGED <<sent, inbound, adding, queue, taken>>
  PROVE  OrderInv' /\ Held' \subseteq Held
<1>1. \A n \in Nodes : Tidy(n)' /\ All(n)' = All(n)
  BY DEF OrderInv, Tidy, All
<1>2. (\A a, b \in Nodes : a < b => Below(All(b), All(a)))'
  BY <1>1 DEF OrderInv, Below
<1>3. \A n \in Nodes : \A m \in All(n)' : m <= sent'
  BY <1>1 DEF OrderInv
<1>4. QED
  BY <1>1, <1>2, <1>3 DEF OrderInv, Held

(* Every step keeps the order, and only Receive lets a message in.            *)
LEMMA OrderStep ==
  ASSUME OrderInv, [Next]_vars
  PROVE  /\ OrderInv'
         /\ Held' \subseteq Held \/ \E real \in BOOLEAN : Receive(real)
<1>1. TypeOK'
  BY TypeInductive DEF OrderInv
<1> DEFINE Kept == OrderInv' /\ Held' \subseteq Held
<1>2. ASSUME NEW real \in BOOLEAN, Receive(real) PROVE OrderInv'
  BY <1>1, <1>2, OrderReceive
<1>3. CASE Put(0)
  BY <1>1, <1>3, OrderPut, NumbersAreNumbers
<1>4. ASSUME NEW n \in 1 .. Last, ReadTorn(n) \/ AnswerDuplicate(n) PROVE Kept
  BY <1>1, <1>4, OrderDrop DEF ReadTorn, AnswerDuplicate, Accepts
<1>5. ASSUME NEW n \in Relays, StartAdding(n) \/ Put(n) \/ Accept(n) PROVE Kept
  <2>1. n \in Senders
    BY NumbersAreNumbers
  <2>2. QED
    BY <1>1, <1>5, <2>1, OrderStartAdding, OrderPut, OrderAccept
<1>6. ASSUME NEW n \in Relays, Reject(n) PROVE Kept
  BY <1>1, <1>6, OrderQuiet DEF Reject
<1>7. CASE Deliver
  <2>1. Last \in 1 .. Last
    BY NumbersAreNumbers
  <2>2. /\ inbound[Last] # <<>> /\ inbound' = [inbound EXCEPT ![Last] = Tail(@)]
        /\ UNCHANGED <<sent, adding, queue, taken>>
    BY <1>7 DEF Deliver, Accepts
  <2>3. QED
    BY <1>1, <2>1, <2>2, OrderDrop
<1>8. ASSUME NEW n \in Senders, TakePacket(n) \/ SendPacket(n) PROVE Kept
  BY <1>1, <1>8, OrderTakePacket, OrderSendPacket
<1>9. ASSUME NEW n \in Nodes, Restart(n) PROVE Kept
  BY <1>1, <1>9, OrderRestart
<1>10. CASE UNCHANGED vars
  BY <1>1, <1>10, OrderQuiet DEF vars
<1>11. QED
  BY <1>2, <1>3, <1>4, <1>5, <1>6, <1>7, <1>8, <1>9, <1>10
  DEF Next, ReceivingThread, ForwardingThread

LEMMA OrderInit == Init => OrderInv
<1> SUFFICES ASSUME Init PROVE OrderInv
  OBVIOUS
<1>1. TypeOK
  BY EmptyType, NumbersAreNumbers DEF Init, TypeOK
<1>2. ASSUME NEW n \in Nodes PROVE Tidy(n) /\ All(n) = {}
  <2>1. inbound[n] = <<>>
    BY DEF Init
  <2>2. n # Last => adding[n] = <<>> /\ queue[n] = <<>> /\ taken[n] = <<>>
    BY NumbersAreNumbers DEF Init
  <2>3. QED
    BY <2>1, <2>2, EmptyMsgs DEF Tidy, All, Below
<1>3. QED
  BY <1>1, <1>2 DEF OrderInv, Below

LEMMA HeldIsTransit ==
  {p.msg : p \in InTransit} = Held /\ {p.msg : p \in InTransit}' = Held'
<1>1. ASSUME NEW s PROVE Msgs(s) = {p.msg : p \in Elements(s)}
  BY DEF Msgs, Elements
<1>2. ASSUME NEW n \in Nodes
      PROVE  {p.msg : p \in At(n)} = All(n) /\ {p.msg : p \in At(n)'} = All(n)'
  BY <1>1 DEF At, All
<1>3. QED
  BY <1>2 DEF InTransit, Held

(* A step that delivers nothing and lets no message in is a loss, or none.    *)
LEMMA LineLoses ==
  ASSUME Held' \subseteq Held, UNCHANGED <<sent, delivered>>
  PROVE  Line!Lose
BY HeldIsTransit DEF Line!Lose

(* The receiver delivers the oldest message of all.                          *)
LEMMA LineDelivers ==
  ASSUME OrderInv, TypeOK', Deliver, delivered' = Append(delivered, Oldest(Last))
  PROVE  Line!Deliver
<1> DEFINE p == Oldest(Last)
           d == [i \in DOMAIN delivered |-> delivered[i].msg]
<1>1. Last \in Nodes /\ \A n \in Nodes \ {Last} : n < Last
  BY NumbersAreNumbers
<1>2. /\ inbound[Last] \in Seq(Packet) /\ inbound[Last] # <<>>
      /\ inbound \in [Nodes -> Seq(Packet)] /\ Sorted(inbound[Last])
      /\ delivered \in Seq(Packet)
  BY <1>1 DEF OrderInv, TypeOK, Tidy, Deliver, Accepts
<1>3. /\ inbound'[Last] = Tail(inbound[Last]) /\ p = Head(inbound[Last])
      /\ \A n \in Nodes \ {Last} : inbound'[n] = inbound[n]
      /\ UNCHANGED <<sent, adding, queue, taken>>
  BY <1>1, <1>2 DEF Deliver, Accepts, Oldest
<1>4. /\ p.msg \in Msgs(inbound[Last])
      /\ Msgs(inbound'[Last]) \subseteq Msgs(inbound[Last])
      /\ \A m \in Msgs(inbound'[Last]) : p.msg < m
  BY <1>2, <1>3, TailMsgs
<1>5. All(Last) = Msgs(inbound[Last]) /\ All(Last)' = Msgs(inbound'[Last])
  BY DEF All
<1>6. \A n \in Nodes \ {Last} : All(n)' = All(n)
  BY <1>3 DEF All
<1>7. ASSUME NEW n \in Nodes \ {Last}, NEW m \in All(n) PROVE p.msg < m
  BY <1>1, <1>4, <1>5, <1>7 DEF OrderInv, Below
<1>8. p.msg \in Nat /\ \A m \in Held : m \in Nat
  BY <1>1, <1>4, <1>5, Buffers DEF OrderInv, Held
<1>9. Msgs(inbound[Last]) = {p.msg} \cup Msgs(inbound'[Last])
  <2>1. /\ Len(inbound[Last]) \in Nat /\ Len(inbound[Last]) >= 1
        /\ DOMAIN inbound[Last] = 1 .. Len(inbound[Last])
        /\ DOMAIN Tail(inbound[Last]) = 1 .. Len(inbound[Last]) - 1
        /\ \A i \in 1 .. Len(inbound[Last]) - 1 : Tail(inbound[Last])[i] = inbound[Last][i + 1]
        /\ Head(inbound[Last]) = inbound[Last][1]
    BY <1>2
  <2>2. ASSUME NEW i \in DOMAIN inbound[Last]
        PROVE  inbound[Last][i].msg \in {p.msg} \cup Msgs(inbound'[Last])
    <3>1. CASE i = 1
      BY <1>3, <2>1, <3>1
    <3>2. CASE i # 1
      <4>1. i - 1 \in DOMAIN Tail(inbound[Last]) /\ Tail(inbound[Last])[i - 1] = inbound[Last][i]
        BY <2>1, <2>2, <3>2
      <4>2. QED
        BY <1>3, <4>1 DEF Msgs
    <3>3. QED
      BY <3>1, <3>2
  <2>3. Msgs(inbound[Last]) \subseteq {p.msg} \cup Msgs(inbound'[Last])
    BY <2>2 DEF Msgs
  <2>4. QED
    BY <1>4, <2>3
<1> HIDE DEF p
<1>10. Held' = {m \in Held : p.msg < m}
  <2>1. ASSUME NEW m \in Held' PROVE m \in Held /\ p.msg < m
    <3>1. PICK n \in Nodes : m \in All(n)'
      BY DEF Held
    <3>2. CASE n = Last
      BY <1>1, <1>4, <1>5, <3>1, <3>2 DEF Held
    <3>3. CASE n # Last
      BY <1>6, <1>7, <3>1, <3>3 DEF Held
    <3>4. QED
      BY <3>2, <3>3
  <2>2. ASSUME NEW m \in Held, p.msg < m PROVE m \in Held'
    <3>1. PICK n \in Nodes : m \in All(n)
      BY DEF Held
    <3>2. CASE n = Last
      <4>1. m # p.msg
        BY <1>8, <2>2
      <4>2. m \in All(Last)'
        BY <1>5, <1>9, <3>1, <3>2, <4>1
      <4>3. QED
        BY <1>1, <4>2 DEF Held
    <3>3. CASE n # Last
      <4>1. m \in All(n)'
        BY <1>6, <3>1, <3>3
      <4>2. QED
        BY <4>1 DEF Held
    <3>4. QED
      BY <3>2, <3>3
  <2>3. QED
    BY <2>1, <2>2
<1>11. [i \in DOMAIN delivered' |-> delivered'[i].msg] = Append(d, p.msg)
  <2>1. /\ Len(delivered) \in Nat /\ DOMAIN delivered = 1 .. Len(delivered)
        /\ \A i \in 1 .. Len(delivered) : delivered[i] \in Packet
    BY <1>2, SeqMsgs
  <2>2. p \in Packet
    BY <1>2, <1>3
  <2>3. /\ DOMAIN delivered' = 1 .. Len(delivered) + 1
        /\ delivered'[Len(delivered) + 1] = p
        /\ \A i \in 1 .. Len(delivered) : delivered'[i] = delivered[i]
    BY <1>2, <2>1, <2>2 DEF p
  <2>4. d \in Seq(Messages) /\ Len(d) = Len(delivered)
    BY <2>1 DEF Packet
  <2>5. p.msg \in Messages
    BY <2>2 DEF Packet
  <2>6. \A i \in 1 .. Len(delivered) : d[i] = delivered[i].msg
    BY <2>1
  <2> HIDE DEF d
  <2>7. Append(d, p.msg) = [i \in 1 .. Len(d) + 1 |-> IF i = Len(d) + 1 THEN p.msg ELSE d[i]]
    BY <2>4, <2>5
  <2>8. \A i \in DOMAIN delivered' :
          delivered'[i].msg = IF i = Len(d) + 1 THEN p.msg ELSE d[i]
    BY <2>1, <2>3, <2>4, <2>6
  <2>9. QED
    BY <2>3, <2>4, <2>7, <2>8
<1>12. p.msg \in Held
  BY <1>1, <1>4, <1>5 DEF Held
<1>13. QED
  BY <1>3, <1>10, <1>11, <1>12, HeldIsTransit DEF Line!Deliver

LEMMA LineSends ==
  ASSUME OrderInv, TypeOK', NEW real \in BOOLEAN, Receive(real)
  PROVE  Line!Send
<1>1. \A n \in Nodes : All(n)' \subseteq All(n) \cup {sent'}
  BY OrderReceive
<1>2. /\ sent' = sent + 1 /\ UNCHANGED <<delivered, inbound, queue, taken>>
      /\ adding[0] = <<>>
  BY DEF Receive
<1>3. 0 \in Nodes /\ 0 # Last /\ 0 \in Senders
  BY NumbersAreNumbers
<1>4. \A n \in Nodes : All(n) \subseteq All(n)'
  <2>1. adding \in [Senders -> AtMostOne]
    BY DEF OrderInv, TypeOK
  <2>2. \A n \in Nodes \ {0} : n # Last => adding'[n] = adding[n]
    BY <2>1, NumbersAreNumbers DEF Receive
  <2>3. Msgs(adding[0]) = {}
    BY <1>2, EmptyMsgs
  <2>4. QED
    BY <1>2, <2>2, <2>3 DEF All
<1>5. Held \subseteq Held' /\ Held' \subseteq Held \cup {sent'}
  BY <1>1, <1>4 DEF Held
<1>6. Held' = Held \/ Held' = Held \cup {sent'}
  BY <1>5
<1>7. QED
  BY <1>2, <1>6, HeldIsTransit DEF Line!Send

LEMMA LineStep ==
  ASSUME OrderInv, [Next]_vars
  PROVE  [Line!Next]_(Line!vars)
<1>1. TypeOK'
  BY TypeInductive DEF OrderInv
<1>2. ASSUME NEW real \in BOOLEAN, Receive(real) PROVE Line!Next
  BY <1>1, <1>2, LineSends DEF Line!Next
<1>3. CASE Deliver /\ delivered' = Append(delivered, Oldest(Last))
  BY <1>1, <1>3, LineDelivers DEF Line!Next
<1>4. ASSUME ~\E real \in BOOLEAN : Receive(real), UNCHANGED <<sent, delivered>>
      PROVE  Line!Next
  BY <1>4, OrderStep, LineLoses DEF Line!Next
<1>5. \/ \E real \in BOOLEAN : Receive(real)
      \/ Deliver /\ delivered' = Append(delivered, Oldest(Last))
      \/ UNCHANGED <<sent, delivered>>
  <2>1. CASE Put(0)
    BY <2>1 DEF Put
  <2>2. ASSUME NEW n \in 1 .. Last, ReceivingThread(n)
        PROVE  \/ Deliver /\ delivered' = Append(delivered, Oldest(Last))
               \/ UNCHANGED <<sent, delivered>>
    BY <2>2 DEF ReceivingThread, ReadTorn, AnswerDuplicate, StartAdding, Put, Accept,
       Reject, Deliver
  <2>3. ASSUME NEW n \in Senders, ForwardingThread(n) PROVE UNCHANGED <<sent, delivered>>
    BY <2>3 DEF ForwardingThread, TakePacket, SendPacket
  <2>4. ASSUME NEW n \in Nodes, Restart(n) PROVE UNCHANGED <<sent, delivered>>
    BY <2>4 DEF Restart
  <2>5. QED
    BY <2>1, <2>2, <2>3, <2>4 DEF Next, vars
<1>6. QED
  BY <1>2, <1>3, <1>4, <1>5

(* The whole line, of any length, with its threads, queues, connections and   *)
(* restarts, is one lossy line that neither reorders nor duplicates.         *)
THEOREM MeshImplementsLine == Spec => ImplementsLine
<1>1. Init => Line!Init
  <2> SUFFICES ASSUME Init PROVE Line!Init
    OBVIOUS
  <2>1. \A n \in Nodes : All(n) = {}
    <3>1. ASSUME NEW n \in Nodes PROVE All(n) = {}
      <4>1. inbound[n] = <<>>
        BY DEF Init
      <4>2. n # Last => adding[n] = <<>> /\ queue[n] = <<>> /\ taken[n] = <<>>
        BY NumbersAreNumbers DEF Init
      <4>3. QED
        BY <4>1, <4>2, EmptyMsgs DEF All
    <3>2. QED
      BY <3>1
  <2>2. Held = {}
    BY <2>1 DEF Held
  <2>3. [i \in DOMAIN delivered |-> delivered[i].msg] = <<>>
    BY DEF Init
  <2>4. QED
    BY <2>2, <2>3, HeldIsTransit DEF Init, Line!Init
<1>2. OrderInv /\ [Next]_vars => OrderInv' /\ [Line!Next]_(Line!vars)
  BY OrderStep, LineStep
<1>3. QED
  BY OrderInit, <1>1, <1>2, PTL DEF Spec, ImplementsLine, Line!Spec
-----------------------------------------------------------------------------
(* The hop count.  A message that has not passed a repeater's queue yet was   *)
(* not verified there, and what the repeater is verifying is older than all    *)
(* of these: it verifies each message at most once.                          *)
VerifiedAt(m) == {n \in Relays : <<n, m>> \in accepted}
Honest(p) == p.hops <= Cardinality(VerifiedAt(p.msg))

Arriving(n) == Elements(inbound[n]) \cup Elements(adding[n])
Coming(n) == {p.msg : p \in Arriving(n)} \cup UNION {All(a) : a \in 0 .. n - 1}

Pending(n) ==
  verifying[n] # <<>> =>
    /\ adding[n] = <<>>
    /\ <<n, Verified(n).msg>> \notin accepted
    /\ Verified(n).msg <= sent
    /\ \A m \in Coming(n) : Verified(n).msg < m

HopsInv ==
  /\ OrderInv
  /\ \A p \in InTransit \cup Elements(delivered) : Honest(p)
  /\ \A n \in Relays : Pending(n)
  /\ \A n \in Relays : \A m \in Coming(n) : <<n, m>> \notin accepted
  /\ \A n \in Relays, m \in Messages : <<n, m>> \in accepted => m <= sent

LEMMA SeqElements ==
  ASSUME NEW s \in Seq(Packet)
  PROVE  /\ Elements(s) \subseteq Packet
         /\ \A i \in DOMAIN s : s[i] \in Elements(s)
         /\ s # <<>> => Head(s) \in Elements(s) /\ Elements(Tail(s)) \subseteq Elements(s)
<1>1. /\ Len(s) \in Nat /\ DOMAIN s = 1 .. Len(s)
      /\ \A i \in 1 .. Len(s) : s[i] \in Packet
  BY SeqMsgs
<1>2. ASSUME s # <<>>
      PROVE  Head(s) \in Elements(s) /\ Elements(Tail(s)) \subseteq Elements(s)
  <2>1. /\ Len(s) >= 1 /\ Head(s) = s[1] /\ DOMAIN Tail(s) = 1 .. Len(s) - 1
        /\ \A i \in 1 .. Len(s) - 1 : Tail(s)[i] = s[i + 1]
    BY <1>2
  <2>2. \A i \in 1 .. Len(s) - 1 : i + 1 \in 1 .. Len(s)
    BY <1>1
  <2>3. 1 \in 1 .. Len(s)
    BY <1>1, <2>1
  <2>4. QED
    BY <1>1, <2>1, <2>2, <2>3 DEF Elements
<1>3. QED
  BY <1>1, <1>2 DEF Elements

LEMMA FewElements ==
  Elements(<<>>) = {} /\ \A p : Elements(<<p>>) = {p}
<1>1. ASSUME NEW p PROVE Elements(<<p>>) = {p}
  <2>1. DOMAIN <<p>> = {1} /\ <<p>>[1] = p
    OBVIOUS
  <2>2. QED
    BY <2>1 DEF Elements
<1>2. QED
  BY <1>1 DEF Elements

LEMMA ConcatElements ==
  ASSUME NEW s \in Seq(Packet), NEW t \in Seq(Packet)
  PROVE  Elements(s \o t) \subseteq Elements(s) \cup Elements(t)
<1> DEFINE u == s \o t
<1>1. /\ Len(s) \in Nat /\ Len(t) \in Nat
      /\ DOMAIN s = 1 .. Len(s) /\ DOMAIN t = 1 .. Len(t)
      /\ DOMAIN u = 1 .. Len(s) + Len(t)
      /\ \A i \in 1 .. Len(s) : u[i] = s[i]
      /\ \A i \in 1 .. Len(t) : u[Len(s) + i] = t[i]
  OBVIOUS
<1> HIDE DEF u
<1>2. ASSUME NEW i \in DOMAIN u PROVE u[i] \in Elements(s) \cup Elements(t)
  <2>1. CASE i \in 1 .. Len(s)
    BY <1>1, <2>1 DEF Elements
  <2>2. CASE i \notin 1 .. Len(s)
    <3>1. i - Len(s) \in 1 .. Len(t) /\ i = Len(s) + (i - Len(s))
      BY <1>1, <1>2, <2>2
    <3>2. u[i] = t[i - Len(s)]
      BY <1>1, <3>1
    <3>3. QED
      BY <1>1, <3>1, <3>2 DEF Elements
  <2>3. QED
    BY <2>1, <2>2
<1>3. Elements(u) \subseteq Elements(s) \cup Elements(t)
  BY <1>2 DEF Elements
<1>4. QED
  BY <1>3 DEF u

(* The messages of a node are those of its packets.                          *)
LEMMA AllIsAt ==
  /\ \A n \in Nodes : All(n) = {p.msg : p \in At(n)} /\ All(n)' = {p.msg : p \in At(n)'}
  /\ InTransit = UNION {At(n) : n \in Nodes}
  /\ InTransit' = UNION {At(n)' : n \in Nodes}
<1>1. ASSUME NEW s PROVE Msgs(s) = {p.msg : p \in Elements(s)}
  BY DEF Msgs, Elements
<1>2. QED
  BY <1>1 DEF At, All, InTransit

(* A repeater's verifications grow, and one more repeater counts once.        *)
LEMMA OneMore ==
  ASSUME NEW n \in Relays, NEW m, <<n, m>> \notin accepted,
         accepted' = accepted \cup {<<n, m>>}
  PROVE  /\ \A x : Cardinality(VerifiedAt(x)) \in Nat
         /\ Cardinality(VerifiedAt(m)') = Cardinality(VerifiedAt(m)) + 1
         /\ \A x : x # m => VerifiedAt(x)' = VerifiedAt(x)
<1>1. IsFiniteSet(Relays)
  BY NumbersAreNumbers, FS_Interval
<1>2. ASSUME NEW x
      PROVE  IsFiniteSet(VerifiedAt(x)) /\ Cardinality(VerifiedAt(x)) \in Nat
  <2>1. VerifiedAt(x) \in SUBSET Relays
    BY DEF VerifiedAt
  <2>2. IsFiniteSet(VerifiedAt(x))
    BY <1>1, <2>1, FS_Subset
  <2>3. QED
    BY <2>2, FS_CardinalityType
<1>3. VerifiedAt(m)' = VerifiedAt(m) \cup {n} /\ n \notin VerifiedAt(m)
  BY DEF VerifiedAt
<1>4. Cardinality(VerifiedAt(m) \cup {n}) = Cardinality(VerifiedAt(m)) + 1
  BY <1>2, <1>3, FS_AddElement
<1>5. ASSUME NEW x, x # m PROVE VerifiedAt(x)' = VerifiedAt(x)
  BY <1>5 DEF VerifiedAt
<1>6. QED
  BY <1>2, <1>3, <1>4, <1>5

(* A step that lets no packet in and verifies none keeps the bound.           *)
LEMMA HopsQuiet ==
  ASSUME HopsInv, OrderInv', InTransit' \subseteq InTransit,
         Elements(delivered') \subseteq Elements(delivered) \cup InTransit,
         \A k \in Relays : Coming(k)' \subseteq Coming(k),
         \A k \in Relays : \/ Pending(k)'
                           \/ verifying'[k] = verifying[k] /\ adding'[k] = adding[k],
         UNCHANGED <<sent, accepted>>
  PROVE  HopsInv'
<1>1. \A p : Honest(p)' = Honest(p)
  BY DEF Honest, VerifiedAt
<1>2. \A p \in InTransit' \cup Elements(delivered') : Honest(p)'
  BY <1>1 DEF HopsInv
<1>3. ASSUME NEW k \in Relays PROVE Pending(k)'
  BY DEF HopsInv, Pending, Verified
<1>4. (\A p \in InTransit \cup Elements(delivered) : Honest(p))'
  BY <1>2 DEF Elements
<1>5. ASSUME NEW k \in Relays, NEW m \in Coming(k)' PROVE <<k, m>> \notin accepted'
  <2>1. m \in Coming(k) /\ accepted' = accepted
    BY <1>5
  <2>2. QED
    BY <2>1 DEF HopsInv
<1>6. \A k \in Relays, m \in Messages : <<k, m>> \in accepted' => m <= sent'
  BY DEF HopsInv
<1>7. QED
  BY <1>3, <1>4, <1>5, <1>6 DEF HopsInv

(* One node changes and no packet comes in: then no other node has anything   *)
(* new coming.                                                               *)
LEMMA ComingShrinks ==
  ASSUME NEW n \in Nodes, \A k \in Nodes \ {n} : Same(k), At(n)' \subseteq At(n),
         n # Last => Arriving(n)' \subseteq Arriving(n)
  PROVE  /\ InTransit' \subseteq InTransit
         /\ \A k \in Relays : Coming(k)' \subseteq Coming(k)
<1>1. \A k \in Nodes : At(k)' \subseteq At(k)
  BY DEF Same, At
<1>2. \A k \in Nodes : All(k)' \subseteq All(k)
  BY <1>1, AllIsAt
<1>3. InTransit' \subseteq InTransit
  BY <1>1, AllIsAt
<1>4. ASSUME NEW k \in Relays PROVE Coming(k)' \subseteq Coming(k)
  <2>1. k \in Nodes /\ k # Last /\ 0 .. k - 1 \subseteq Nodes
    BY NumbersAreNumbers
  <2>2. Arriving(k)' \subseteq Arriving(k)
    BY <2>1 DEF Same, Arriving
  <2>3. QED
    BY <1>2, <2>1, <2>2 DEF Coming
<1>5. QED
  BY <1>3, <1>4

LEMMA HopsDrop ==
  ASSUME HopsInv, OrderInv', NEW n \in 1 .. Last, inbound[n] # <<>>,
         inbound' = [inbound EXCEPT ![n] = Tail(@)],
         UNCHANGED <<sent, adding, queue, taken, verifying, accepted>>,
         Elements(delivered') \subseteq Elements(delivered) \cup InTransit
  PROVE  HopsInv'
<1>1. n \in Nodes
  BY NumbersAreNumbers
<1>2. inbound[n] \in Seq(Packet) /\ inbound \in [Nodes -> Seq(Packet)]
  BY <1>1 DEF HopsInv, OrderInv, TypeOK
<1>3. inbound'[n] = Tail(inbound[n]) /\ \A k \in Nodes \ {n} : Same(k)
  BY <1>1, <1>2 DEF Same
<1>4. Elements(inbound'[n]) \subseteq Elements(inbound[n])
  BY <1>2, <1>3, SeqElements
<1>5. At(n)' \subseteq At(n) /\ Arriving(n)' \subseteq Arriving(n)
  BY <1>4 DEF At, Arriving
<1>6. /\ InTransit' \subseteq InTransit
      /\ \A k \in Relays : Coming(k)' \subseteq Coming(k)
  BY <1>1, <1>3, <1>5, ComingShrinks
<1>7. QED
  BY <1>6, HopsQuiet

LEMMA HopsStartAdding ==
  ASSUME HopsInv, OrderInv', NEW n \in Relays, StartAdding(n)
  PROVE  HopsInv'
<1>1. n \in Nodes /\ n \in Senders /\ n # Last
  BY NumbersAreNumbers
<1>2. /\ inbound[n] \in Seq(Packet) /\ inbound \in [Nodes -> Seq(Packet)]
      /\ adding \in [Senders -> AtMostOne] /\ inbound[n] # <<>>
      /\ verifying[n] = <<>>
  BY <1>1 DEF HopsInv, OrderInv, TypeOK, StartAdding, Accepts
<1>3. /\ inbound'[n] = Tail(inbound[n]) /\ adding'[n] = <<Head(inbound[n])>>
      /\ UNCHANGED <<queue, taken, sent, verifying, accepted, delivered>>
      /\ \A k \in Nodes \ {n} : Same(k)
  BY <1>1, <1>2 DEF StartAdding, Accepts, Oldest, Same
<1>4. \A k \in Relays \ {n} : adding'[k] = adding[k]
  BY <1>2 DEF StartAdding
<1>5. /\ Elements(inbound'[n]) \subseteq Elements(inbound[n])
      /\ Elements(adding'[n]) \subseteq Elements(inbound[n])
  BY <1>2, <1>3, SeqElements, FewElements
<1>6. At(n)' \subseteq At(n) /\ Arriving(n)' \subseteq Arriving(n)
  BY <1>1, <1>3, <1>5 DEF At, Arriving
<1>7. /\ InTransit' \subseteq InTransit
      /\ \A k \in Relays : Coming(k)' \subseteq Coming(k)
  BY <1>1, <1>3, <1>6, ComingShrinks
<1>8. Pending(n)'
  BY <1>2, <1>3 DEF Pending
<1>9. QED
  BY <1>3, <1>4, <1>7, <1>8, HopsQuiet

LEMMA HopsTakePacket ==
  ASSUME HopsInv, OrderInv', NEW n \in Senders, TakePacket(n)
  PROVE  HopsInv'
<1>1. n \in Nodes /\ n # Last
  BY NumbersAreNumbers
<1>2. /\ taken \in [Senders -> AtMostOne] /\ queue \in [Senders -> Seq(Packet)]
      /\ queue[n] \in Seq(Packet) /\ queue[n] # <<>>
  BY DEF HopsInv, OrderInv, TypeOK, TakePacket
<1>3. /\ taken'[n] = <<Head(queue[n])>> /\ queue'[n] = Tail(queue[n])
      /\ UNCHANGED <<inbound, adding, sent, verifying, accepted, delivered>>
      /\ \A k \in Nodes \ {n} : Same(k)
  BY <1>2 DEF TakePacket, Same
<1>4. /\ Elements(taken'[n]) \subseteq Elements(queue[n])
      /\ Elements(queue'[n]) \subseteq Elements(queue[n])
  BY <1>2, <1>3, SeqElements, FewElements
<1>5. At(n)' \subseteq At(n) /\ Arriving(n)' \subseteq Arriving(n)
  BY <1>1, <1>3, <1>4 DEF At, Arriving
<1>6. /\ InTransit' \subseteq InTransit
      /\ \A k \in Relays : Coming(k)' \subseteq Coming(k)
  BY <1>1, <1>3, <1>5, ComingShrinks
<1>7. QED
  BY <1>3, <1>6, HopsQuiet

LEMMA HopsRestart ==
  ASSUME HopsInv, OrderInv', NEW n \in Nodes, Restart(n)
  PROVE  HopsInv'
<1>1. inbound \in [Nodes -> Seq(Packet)]
  BY DEF HopsInv, OrderInv, TypeOK
<1>2. inbound'[n] = <<>> /\ \A k \in Nodes \ {n} : inbound'[k] = inbound[k]
  BY <1>1 DEF Restart
<1>3. /\ n # Last => adding'[n] = <<>> /\ queue'[n] = <<>> /\ taken'[n] = <<>>
      /\ \A k \in Nodes \ {n} : Same(k)
  BY <1>2, NumbersAreNumbers DEF Restart, Same
<1>4. \A k \in Relays : \/ verifying'[k] = <<>>
                        \/ verifying'[k] = verifying[k] /\ adding'[k] = adding[k]
  BY NumbersAreNumbers DEF Restart
<1>5. At(n)' = {} /\ (n # Last => Arriving(n)' = {})
  BY <1>2, <1>3, FewElements DEF At, Arriving
<1>6. /\ InTransit' \subseteq InTransit
      /\ \A k \in Relays : Coming(k)' \subseteq Coming(k)
  BY <1>3, <1>5, ComingShrinks
<1>7. \A k \in Relays : verifying'[k] = <<>> => Pending(k)'
  BY DEF Pending
<1>8. UNCHANGED <<sent, accepted, delivered>>
  BY DEF Restart
<1>9. QED
  BY <1>4, <1>6, <1>7, <1>8, HopsQuiet

(* A rejected packet keeps its count.                                        *)
LEMMA HopsReject ==
  ASSUME HopsInv, OrderInv', NEW n \in Relays, Reject(n)
  PROVE  HopsInv'
<1>1. verifying \in [Senders -> AtMostOne] /\ Relays \subseteq Senders
  <2>1. verifying \in [Senders -> AtMostOne]
    BY DEF HopsInv, OrderInv, TypeOK
  <2>2. QED
    BY <2>1, NumbersAreNumbers
<1>2. /\ verifying'[n] = <<>> /\ \A k \in Relays \ {n} : verifying'[k] = verifying[k]
      /\ UNCHANGED <<inbound, adding, queue, taken, sent, accepted, delivered>>
  BY <1>1 DEF Reject
<1>4. /\ InTransit' \subseteq InTransit
      /\ \A k \in Relays : Coming(k)' \subseteq Coming(k)
  BY <1>2 DEF InTransit, At, Coming, Arriving, All
<1>5. Pending(n)'
  BY <1>2 DEF Pending
<1>6. QED
  BY <1>2, <1>4, <1>5, HopsQuiet

(* A packet is queued when its verification starts; what comes after it is    *)
(* newer.                                                                    *)
LEMMA HopsPut ==
  ASSUME HopsInv, OrderInv', NEW n \in Senders, Put(n)
  PROVE  HopsInv'
<1>1. n \in Nodes /\ n # Last
  BY NumbersAreNumbers
<1>2. /\ adding \in [Senders -> AtMostOne] /\ queue \in [Senders -> Seq(Packet)]
      /\ verifying \in [Senders -> AtMostOne]
      /\ adding[n] \in AtMostOne /\ queue[n] \in Seq(Packet) /\ adding[n] # <<>>
  BY DEF HopsInv, OrderInv, TypeOK, Put
<1>3. /\ adding'[n] = <<>> /\ queue'[n] = queue[n] \o adding[n]
      /\ \A k \in Nodes \ {n} : Same(k)
      /\ \A k \in Senders \ {n} : adding'[k] = adding[k]
      /\ UNCHANGED <<inbound, taken, sent, accepted, delivered>>
  BY <1>2 DEF Put, Same
<1>4. adding[n] \in Seq(Packet) /\ Msgs(adding[n]) = {Head(adding[n]).msg}
      /\ Head(adding[n]) \in Elements(adding[n])
  BY <1>2, AtMostOneMsgs, SeqElements
<1>5. Elements(adding'[n]) = {} /\ Elements(queue'[n]) \subseteq Elements(queue[n]) \cup Elements(adding[n])
  BY <1>2, <1>3, <1>4, ConcatElements, FewElements
<1>6. At(n)' \subseteq At(n) /\ Arriving(n)' \subseteq Arriving(n)
  BY <1>1, <1>3, <1>5 DEF At, Arriving
<1>7. /\ InTransit' \subseteq InTransit
      /\ \A k \in Relays : Coming(k)' \subseteq Coming(k)
  BY <1>1, <1>3, <1>6, ComingShrinks
<1>8. ASSUME NEW k \in Relays
      PROVE  \/ Pending(k)'
             \/ verifying'[k] = verifying[k] /\ adding'[k] = adding[k]
  <2>1. CASE k = n
    <3> DEFINE v == Head(adding[n]).msg
    <3>1. verifying'[n] = adding[n]
      BY <1>2, <2>1, NumbersAreNumbers DEF Put
    <3>2. Verified(n)' = Head(adding[n])
      BY <3>1 DEF Verified
    <3>3. v \in Coming(n) /\ v \in All(n)
      BY <1>1, <1>4 DEF Coming, Arriving, All
    <3>4. <<n, v>> \notin accepted /\ v <= sent
      BY <1>1, <2>1, <3>3 DEF HopsInv, OrderInv
    <3>5. ASSUME NEW m \in Coming(n)' PROVE v < m
      <4>1. CASE m \in Msgs(inbound[n])
        BY <1>1, <1>4, <4>1 DEF HopsInv, OrderInv, Tidy, Below
      <4>2. CASE m \notin Msgs(inbound[n])
        <5>1. m \in UNION {All(a)' : a \in 0 .. n - 1}
          BY <1>3, <1>5, <3>5, <4>2 DEF Coming, Arriving, Msgs, Elements
        <5>2. PICK a \in 0 .. n - 1 : m \in All(a)'
          BY <5>1
        <5>3. a \in Nodes /\ a < n /\ a # n
          BY <1>1, <5>2, NumbersAreNumbers
        <5>4. All(a)' = All(a)
          BY <1>3, <5>3 DEF Same, All
        <5>5. QED
          BY <1>1, <3>3, <5>2, <5>3, <5>4 DEF HopsInv, OrderInv, Below
      <4>3. QED
        BY <4>1, <4>2
    <3> HIDE DEF v
    <3>6. <<n, v>> \notin accepted' /\ v <= sent' /\ adding'[n] = <<>>
      BY <1>3, <3>4
    <3>7. Verified(n)'.msg = v
      BY <3>2 DEF v
    <3>8. QED
      BY <2>1, <3>5, <3>6, <3>7 DEF Pending
  <2>2. CASE k # n
    <3>1. k \in Senders
      BY NumbersAreNumbers
    <3>2. QED
      BY <1>2, <1>3, <2>2, <3>1 DEF Put
  <2>3. QED
    BY <2>1, <2>2
<1>9. QED
  BY <1>3, <1>7, <1>8, HopsQuiet

LEMMA HopsSendPacket ==
  ASSUME HopsInv, OrderInv', NEW n \in Senders, SendPacket(n)
  PROVE  HopsInv'
<1>1. n \in Nodes /\ n # Last /\ n + 1 \in Nodes /\ n + 1 # 0 /\ n # n + 1
  BY NumbersAreNumbers
<1>2. /\ taken \in [Senders -> AtMostOne] /\ inbound \in [Nodes -> Seq(Packet)]
      /\ taken[n] \in AtMostOne /\ inbound[n + 1] \in Seq(Packet)
  BY <1>1 DEF HopsInv, OrderInv, TypeOK
<1>3. taken[n] \in Seq(Packet)
  BY <1>2, AtMostOneMsgs
<1>4. /\ taken'[n] = <<>> /\ \A k \in Senders \ {n} : taken'[k] = taken[k]
      /\ UNCHANGED <<queue, adding, sent, verifying, accepted, delivered>>
  BY <1>2 DEF SendPacket
<1>5. CASE UNCHANGED inbound
  <2>1. \A k \in Nodes \ {n} : Same(k)
    BY <1>4, <1>5, NumbersAreNumbers DEF Same
  <2>2. Elements(taken'[n]) = {}
    BY <1>4, FewElements
  <2>3. At(n)' \subseteq At(n) /\ Arriving(n)' \subseteq Arriving(n)
    BY <1>1, <1>4, <1>5, <2>2 DEF At, Arriving
  <2>4. /\ InTransit' \subseteq InTransit
        /\ \A k \in Relays : Coming(k)' \subseteq Coming(k)
    BY <1>1, <2>1, <2>3, ComingShrinks
  <2>5. QED
    BY <1>4, <2>4, HopsQuiet
<1>6. CASE inbound' = [inbound EXCEPT ![n + 1] = @ \o taken[n]]
  <2>1. /\ inbound'[n + 1] = inbound[n + 1] \o taken[n]
        /\ \A k \in Nodes \ {n + 1} : inbound'[k] = inbound[k]
    BY <1>1, <1>2, <1>6
  <2>2. Elements(inbound'[n + 1]) \subseteq Elements(inbound[n + 1]) \cup Elements(taken[n])
    BY <1>2, <1>3, <2>1, ConcatElements
  <2>3. /\ Elements(taken'[n]) = {} /\ Elements(taken[n]) \subseteq At(n)
    BY <1>1, <1>4, FewElements DEF At
  <2>4. ASSUME NEW k \in Nodes, k # n + 1
        PROVE  At(k)' \subseteq At(k) /\ (k # Last => Arriving(k)' \subseteq Arriving(k))
    <3>1. inbound'[k] = inbound[k] /\ adding' = adding /\ queue' = queue
      BY <1>4, <2>1, <2>4
    <3>2. k # Last => Elements(taken'[k]) \subseteq Elements(taken[k])
      BY <1>4, <2>3, NumbersAreNumbers
    <3>3. QED
      BY <3>1, <3>2 DEF At, Arriving
  <2>5. /\ At(n + 1)' \subseteq At(n + 1) \cup Elements(taken[n])
        /\ Arriving(n + 1)' \subseteq Arriving(n + 1) \cup Elements(taken[n])
    <3>1. n + 1 # Last => taken'[n + 1] = taken[n + 1]
      BY <1>1, <1>4, NumbersAreNumbers
    <3>2. QED
      BY <1>4, <2>2, <3>1 DEF At, Arriving
  <2>6. InTransit' \subseteq InTransit
    BY <1>1, <2>3, <2>4, <2>5, AllIsAt
  <2>7. /\ \A k \in Nodes : k # n + 1 => All(k)' \subseteq All(k)
        /\ All(n + 1)' \subseteq All(n + 1) \cup All(n)
        /\ \A p \in Elements(taken[n]) : p.msg \in All(n)
    BY <1>1, <2>3, <2>4, <2>5, AllIsAt
  <2>8. ASSUME NEW k \in Relays, NEW m \in Coming(k)' PROVE m \in Coming(k)
    <3>1. k \in Nodes /\ k # Last /\ k - 1 \in Int /\ \A a \in 0 .. k - 1 : a \in Nodes
      BY NumbersAreNumbers
    <3>2. k > n + 1 => n + 1 \in 0 .. k - 1 /\ n \in 0 .. k - 1
      BY NumbersAreNumbers
    <3>3. k = n + 1 => n \in 0 .. k - 1
      BY NumbersAreNumbers
    <3>4. CASE m \in {p.msg : p \in Arriving(k)'}
      BY <2>4, <2>5, <2>7, <3>1, <3>3, <3>4 DEF Coming
    <3>5. CASE m \in UNION {All(a)' : a \in 0 .. k - 1}
      <4>1. PICK a \in 0 .. k - 1 : m \in All(a)'
        BY <3>5
      <4>2. CASE a = n + 1
        <5>1. k > n + 1
          BY <4>1, <4>2, NumbersAreNumbers
        <5>2. QED
          BY <2>7, <3>2, <4>1, <4>2, <5>1 DEF Coming
      <4>3. CASE a # n + 1
        BY <2>7, <3>1, <4>1, <4>3 DEF Coming
      <4>4. QED
        BY <4>2, <4>3
    <3>6. QED
      BY <2>8, <3>4, <3>5 DEF Coming
  <2>9. QED
    BY <1>4, <2>6, <2>8, HopsQuiet
<1>7. QED
  BY <1>5, <1>6 DEF SendPacket

(* RadioA's next message is newer than all that was or is being verified.     *)
LEMMA HopsReceive ==
  ASSUME HopsInv, OrderInv', NEW real \in BOOLEAN, Receive(real)
  PROVE  HopsInv'
<1> DEFINE p == [msg |-> sent', uid |-> nextUid, real |-> real, hops |-> 0]
<1>1. 0 \in Nodes /\ 0 \in Senders /\ 0 # Last /\ Relays \subseteq Senders \ {0}
  BY NumbersAreNumbers
<1>2. adding \in [Senders -> AtMostOne] /\ sent \in Nat /\ accepted \subseteq Relays \X Messages
  BY DEF HopsInv, OrderInv, TypeOK
<1>3. /\ adding'[0] = <<p>> /\ sent' = sent + 1
      /\ \A k \in Senders \ {0} : adding'[k] = adding[k]
      /\ UNCHANGED <<inbound, queue, taken, verifying, accepted, delivered>>
  BY <1>1, <1>2 DEF Receive
<1>4. p.msg = sent + 1 /\ p.hops = 0
  BY <1>3
<1> HIDE DEF p
<1>5. Elements(adding'[0]) = {p}
  BY <1>3, FewElements
<1>6. \A k \in Nodes : k # 0 => At(k)' = At(k)
  BY <1>3, NumbersAreNumbers DEF At
<1>7. At(0)' \subseteq At(0) \cup {p}
  BY <1>3, <1>5 DEF At
<1>8. InTransit' \subseteq InTransit \cup {p}
  BY <1>6, <1>7, AllIsAt
<1>9. \A k \in Nodes : All(k)' \subseteq All(k) \cup {sent + 1}
  BY <1>4, <1>6, <1>7, AllIsAt
<1>10. ASSUME NEW k \in Relays, NEW m \in Coming(k)' PROVE m \in Coming(k) \/ m = sent + 1
  <2>1. Arriving(k)' = Arriving(k) /\ \A a \in 0 .. k - 1 : a \in Nodes
    BY <1>1, <1>3, NumbersAreNumbers DEF Arriving
  <2>2. QED
    BY <1>9, <1>10, <2>1 DEF Coming
<1>11. ASSUME NEW x PROVE VerifiedAt(x)' = VerifiedAt(x) /\ Cardinality(VerifiedAt(x)) \in Nat
  <2>1. VerifiedAt(x)' = VerifiedAt(x) /\ VerifiedAt(x) \in SUBSET Relays
    BY <1>3 DEF VerifiedAt
  <2>2. IsFiniteSet(Relays)
    BY NumbersAreNumbers, FS_Interval
  <2>3. QED
    BY <2>1, <2>2, FS_Subset, FS_CardinalityType
<1>12. ASSUME NEW q \in InTransit' \cup Elements(delivered') PROVE Honest(q)'
  <2>1. CASE q = p
    <3>1. q.hops = 0 /\ Cardinality(VerifiedAt(q.msg)') \in Nat
      BY <1>4, <1>11, <2>1
    <3>2. QED
      BY <3>1 DEF Honest
  <2>2. CASE q # p
    <3>1. q \in InTransit \cup Elements(delivered)
      BY <1>3, <1>8, <1>12, <2>2
    <3>2. Honest(q)
      BY <3>1 DEF HopsInv
    <3>3. QED
      BY <1>11, <3>2 DEF Honest
  <2>3. QED
    BY <2>1, <2>2
<1>13. ASSUME NEW k \in Relays, NEW m \in Coming(k)' PROVE <<k, m>> \notin accepted'
  <2>1. CASE m \in Coming(k)
    BY <1>3, <2>1 DEF HopsInv
  <2>2. CASE m = sent + 1
    <3>1. <<k, m>> \in accepted => m \in Messages /\ m <= sent
      BY <1>2 DEF HopsInv
    <3>2. QED
      BY <1>2, <1>3, <2>2, <3>1
  <2>3. QED
    BY <1>10, <1>13, <2>1, <2>2
<1>14. ASSUME NEW k \in Relays PROVE Pending(k)'
  <2>1. k \in Senders /\ adding'[k] = adding[k] /\ verifying'[k] = verifying[k]
    BY <1>1, <1>3
  <2> SUFFICES ASSUME verifying[k] # <<>> PROVE Pending(k)'
    BY <2>1 DEF Pending
  <2>2. Verified(k).msg \in Messages /\ Verified(k)' = Verified(k)
    BY <2>1, VerifiedType DEF HopsInv, OrderInv, IsVerifying, Verified
  <2>3. /\ adding[k] = <<>> /\ <<k, Verified(k).msg>> \notin accepted
        /\ Verified(k).msg <= sent /\ \A m \in Coming(k) : Verified(k).msg < m
    BY DEF HopsInv, Pending
  <2> DEFINE v == Verified(k).msg
  <2>4. v \in Nat /\ v <= sent
    BY <2>2, <2>3 DEF Messages
  <2> HIDE DEF v
  <2>5. v < sent + 1 /\ v <= sent'
    BY <1>2, <1>3, <2>4
  <2>6. \A m \in Coming(k)' : v < m
    BY <1>10, <2>3, <2>5 DEF v
  <2>7. adding'[k] = <<>> /\ <<k, v>> \notin accepted' /\ Verified(k)'.msg = v
    BY <1>3, <2>1, <2>2, <2>3 DEF v
  <2>8. QED
    BY <2>5, <2>6, <2>7 DEF Pending
<1>15. ASSUME NEW k \in Relays, NEW m \in Messages, <<k, m>> \in accepted' PROVE m <= sent'
  <2>1. m <= sent /\ m \in Nat
    BY <1>3, <1>15 DEF HopsInv, Messages
  <2>2. QED
    BY <1>2, <1>3, <2>1
<1>16. (\A q \in InTransit \cup Elements(delivered) : Honest(q))'
  BY <1>12 DEF Elements
<1>17. QED
  BY <1>13, <1>14, <1>15, <1>16 DEF HopsInv

(* What counting does to a packet.                                           *)
LEMMA CountedElements ==
  ASSUME NEW s \in Seq(Packet), NEW m, NEW q \in Elements(Counted(s, m))
  PROVE  \E p \in Elements(s) :
           /\ p \in Packet /\ q.msg = p.msg
           /\ IF p.msg = m THEN q.hops = p.hops + 1 ELSE q = p
<1>1. DOMAIN Counted(s, m) = DOMAIN s
  BY DEF Counted
<1>2. PICK i \in DOMAIN s : q = Counted(s, m)[i]
  BY <1>1 DEF Elements
<1>3. s[i] \in Packet /\ s[i] \in Elements(s)
  BY <1>2, SeqElements
<1>4. q = IF s[i].msg = m THEN [s[i] EXCEPT !.hops = @ + 1] ELSE s[i]
  BY <1>2 DEF Counted
<1>5. /\ [s[i] EXCEPT !.hops = @ + 1].msg = s[i].msg
      /\ [s[i] EXCEPT !.hops = @ + 1].hops = s[i].hops + 1
  BY <1>3 DEF Packet
<1>6. QED
  BY <1>3, <1>4, <1>5

(* A verification that succeeds raises the count by one, and the repeater has *)
(* not verified the message before.                                          *)
LEMMA HopsAccept ==
  ASSUME HopsInv, OrderInv', NEW n \in Relays, Accept(n)
  PROVE  HopsInv'
<1>0. PICK v : v = Verified(n).msg
  OBVIOUS
<1>1. n \in Nodes /\ n \in Senders /\ n # Last /\ Relays \subseteq Senders
  BY NumbersAreNumbers
<1>2. /\ taken \in [Senders -> AtMostOne] /\ queue \in [Senders -> Seq(Packet)]
      /\ verifying \in [Senders -> AtMostOne] /\ delivered \in Seq(Packet)
      /\ adding \in [Senders -> AtMostOne] /\ inbound \in [Nodes -> Seq(Packet)]
  BY DEF HopsInv, OrderInv, TypeOK
<1>3. taken[n] \in Seq(Packet) /\ queue[n] \in Seq(Packet)
  BY <1>1, <1>2, AtMostOneMsgs
<1>4. v \in Messages /\ v <= sent /\ <<n, v>> \notin accepted
  BY <1>0, <1>1, VerifiedType DEF HopsInv, OrderInv, Accept, IsVerifying, Pending
<1>5. /\ taken'[n] = Counted(taken[n], v) /\ queue'[n] = Counted(queue[n], v)
      /\ accepted' = accepted \cup {<<n, v>>}
      /\ UNCHANGED <<inbound, adding, sent, delivered>>
      /\ \A k \in Nodes \ {n} : Same(k)
  BY <1>0, <1>1, <1>2 DEF Accept, Same
<1>6. verifying'[n] = <<>> /\ \A k \in Relays \ {n} : verifying'[k] = verifying[k]
  BY <1>1, <1>2 DEF Accept
<1>7. \A m \in Coming(n) : v < m
  BY <1>0 DEF HopsInv, Accept, IsVerifying, Pending
<1>8. \A k \in Nodes : All(k)' = All(k)
  <2>1. \A k \in Nodes : k # n => All(k)' = All(k)
    BY <1>5 DEF Same, All
  <2>2. Msgs(taken'[n]) = Msgs(taken[n]) /\ Msgs(queue'[n]) = Msgs(queue[n])
    BY <1>3, <1>5, CountedMsgs
  <2>3. QED
    BY <1>5, <2>1, <2>2 DEF All
<1>9. \A k \in Relays : Coming(k)' = Coming(k)
  <2>1. ASSUME NEW k \in Relays PROVE \A a \in 0 .. k - 1 : a \in Nodes
    BY NumbersAreNumbers
  <2>2. QED
    BY <1>5, <1>8, <2>1 DEF Coming, Arriving
<1>10. /\ \A x : Cardinality(VerifiedAt(x)) \in Nat
       /\ Cardinality(VerifiedAt(v)') = Cardinality(VerifiedAt(v)) + 1
       /\ \A x : x # v => VerifiedAt(x)' = VerifiedAt(x)
  BY <1>4, <1>5, OneMore
<1>11. ASSUME NEW p \in Packet, Honest(p) PROVE Honest(p)'
  <2>1. p.hops \in Nat /\ p.hops <= Cardinality(VerifiedAt(p.msg))
    BY <1>11 DEF Packet, Honest
  <2>2. Cardinality(VerifiedAt(p.msg)) <= Cardinality(VerifiedAt(p.msg)')
        /\ Cardinality(VerifiedAt(p.msg)') \in Nat
    BY <1>10
  <2>3. p.hops <= Cardinality(VerifiedAt(p.msg)')
    BY <1>10, <2>1, <2>2
  <2>4. QED
    BY <2>3 DEF Honest
<1>12. InTransit \cup Elements(delivered) \subseteq Packet
  <2>1. \A s \in Seq(Packet) : Elements(s) \subseteq Packet
    BY SeqElements
  <2>2. \A s \in AtMostOne : Elements(s) \subseteq Packet
    BY <2>1 DEF AtMostOne
  <2>3. ASSUME NEW k \in Nodes PROVE At(k) \subseteq Packet
    <3>1. k # Last => k \in Senders
      BY NumbersAreNumbers
    <3>2. QED
      BY <1>2, <2>1, <2>2, <3>1 DEF At
  <2>4. QED
    BY <1>2, <2>1, <2>3, AllIsAt
<1>13. \A p \in InTransit \cup Elements(delivered) : Honest(p)'
  BY <1>11, <1>12 DEF HopsInv
<1>14. ASSUME NEW s \in Seq(Packet), Elements(s) \subseteq InTransit,
              NEW q \in Elements(Counted(s, v))
       PROVE  Honest(q)'
  <2>1. PICK p \in Elements(s) :
           /\ p \in Packet /\ q.msg = p.msg
           /\ IF p.msg = v THEN q.hops = p.hops + 1 ELSE q = p
    BY <1>14, CountedElements
  <2>2. CASE p.msg = v
    <3>1. p.hops \in Nat /\ p.hops <= Cardinality(VerifiedAt(v))
      BY <1>14, <2>1, <2>2 DEF HopsInv, Honest, Packet
    <3>2. q.hops = p.hops + 1 /\ q.msg = v
      BY <2>1, <2>2
    <3>3. q.hops <= Cardinality(VerifiedAt(v)')
      BY <1>10, <3>1, <3>2
    <3>4. QED
      BY <3>2, <3>3 DEF Honest
  <2>3. CASE p.msg # v
    BY <1>13, <1>14, <2>1, <2>3
  <2>4. QED
    BY <2>2, <2>3
<1>15. Elements(queue[n]) \subseteq InTransit /\ Elements(taken[n]) \subseteq InTransit
  BY <1>1 DEF InTransit, At
<1>16. ASSUME NEW q \in InTransit' \cup Elements(delivered') PROVE Honest(q)'
  <2>1. \A k \in Nodes : k # n => At(k)' = At(k)
    BY <1>5 DEF Same, At
  <2>2. At(n)' \subseteq At(n) \cup Elements(queue'[n]) \cup Elements(taken'[n])
    BY <1>5 DEF At
  <2>3. q \in InTransit \cup Elements(delivered)
          \/ q \in Elements(queue'[n]) \/ q \in Elements(taken'[n])
    BY <1>1, <1>5, <1>16, <2>1, <2>2, AllIsAt
  <2>4. QED
    BY <1>3, <1>5, <1>13, <1>14, <1>15, <2>3
<1>17. ASSUME NEW k \in Relays PROVE Pending(k)'
  <2>1. CASE k = n
    BY <1>6, <2>1 DEF Pending
  <2>2. CASE k # n
    BY <1>5, <1>6, <1>9, <2>2 DEF HopsInv, Pending, Verified
  <2>3. QED
    BY <2>1, <2>2
<1>18. ASSUME NEW k \in Relays, NEW m \in Coming(k)' PROVE <<k, m>> \notin accepted'
  <2>1. m \in Coming(k) /\ <<k, m>> \notin accepted
    BY <1>9, <1>18 DEF HopsInv
  <2>2. k = n => m # v
    <3>1. v < v <=> FALSE
      BY <1>4 DEF Messages
    <3>2. QED
      BY <1>7, <2>1, <3>1
  <2>3. QED
    BY <1>5, <2>1, <2>2
<1>19. ASSUME NEW k \in Relays, NEW m \in Messages, <<k, m>> \in accepted' PROVE m <= sent'
  BY <1>4, <1>5, <1>19 DEF HopsInv
<1>20. (\A q \in InTransit \cup Elements(delivered) : Honest(q))'
  BY <1>16 DEF Elements
<1>21. QED
  BY <1>17, <1>18, <1>19, <1>20 DEF HopsInv

LEMMA HopsStep == HopsInv /\ [Next]_vars => HopsInv'
<1> SUFFICES ASSUME HopsInv, [Next]_vars PROVE HopsInv'
  OBVIOUS
<1>1. OrderInv'
  BY OrderStep DEF HopsInv
<1>2. ASSUME NEW real \in BOOLEAN, Receive(real) PROVE HopsInv'
  BY <1>1, <1>2, HopsReceive
<1>3. CASE Put(0)
  BY <1>1, <1>3, HopsPut, NumbersAreNumbers
<1>4. ASSUME NEW n \in 1 .. Last, ReadTorn(n) \/ AnswerDuplicate(n) PROVE HopsInv'
  <2>1. /\ inbound[n] # <<>> /\ inbound' = [inbound EXCEPT ![n] = Tail(@)]
        /\ UNCHANGED <<sent, adding, queue, taken, verifying, accepted, delivered>>
    BY <1>4 DEF ReadTorn, AnswerDuplicate, Accepts
  <2>2. QED
    BY <1>1, <2>1, HopsDrop
<1>5. ASSUME NEW n \in Relays, StartAdding(n) \/ Put(n) \/ Accept(n) \/ Reject(n)
      PROVE  HopsInv'
  <2>1. n \in Senders
    BY NumbersAreNumbers
  <2>2. QED
    BY <1>1, <1>5, <2>1, HopsStartAdding, HopsPut, HopsAccept, HopsReject
<1>6. CASE Deliver
  <2>1. Last \in 1 .. Last /\ Last \in Nodes
    BY NumbersAreNumbers
  <2>2. /\ inbound[Last] # <<>> /\ inbound' = [inbound EXCEPT ![Last] = Tail(@)]
        /\ UNCHANGED <<sent, adding, queue, taken, verifying, accepted>>
        /\ delivered' = delivered \/ delivered' = Append(delivered, Head(inbound[Last]))
    BY <1>6 DEF Deliver, Accepts, Oldest
  <2>3. inbound[Last] \in Seq(Packet) /\ delivered \in Seq(Packet)
    BY <2>1 DEF HopsInv, OrderInv, TypeOK
  <2>4. Head(inbound[Last]) \in Packet /\ Head(inbound[Last]) \in InTransit
    BY <2>1, <2>2, <2>3, SeqElements DEF InTransit, At
  <2>5. ASSUME NEW p \in Packet
        PROVE  Elements(Append(delivered, p)) \subseteq Elements(delivered) \cup {p}
    <3>1. Append(delivered, p) = delivered \o <<p>> /\ <<p>> \in Seq(Packet)
      BY <2>3
    <3>2. QED
      BY <2>3, <3>1, ConcatElements, FewElements
  <2>6. Elements(delivered') \subseteq Elements(delivered) \cup InTransit
    BY <2>2, <2>4, <2>5
  <2>7. QED
    BY <1>1, <2>1, <2>2, <2>6, HopsDrop
<1>7. ASSUME NEW n \in Senders, TakePacket(n) \/ SendPacket(n) PROVE HopsInv'
  BY <1>1, <1>7, HopsTakePacket, HopsSendPacket
<1>8. ASSUME NEW n \in Nodes, Restart(n) PROVE HopsInv'
  BY <1>1, <1>8, HopsRestart
<1>9. CASE UNCHANGED vars
  <2>1. UNCHANGED <<inbound, adding, queue, taken, verifying, accepted, delivered, sent>>
    BY <1>9 DEF vars
  <2>2. InTransit' = InTransit /\ \A k \in Relays : Coming(k)' = Coming(k)
    BY <2>1 DEF InTransit, At, Coming, Arriving, All
  <2>3. QED
    BY <1>1, <2>1, <2>2, HopsQuiet
<1>10. QED
  BY <1>2, <1>3, <1>4, <1>5, <1>6, <1>7, <1>8, <1>9
  DEF Next, ReceivingThread, ForwardingThread

LEMMA HopsInit == Init => HopsInv
<1> SUFFICES ASSUME Init PROVE HopsInv
  OBVIOUS
<1>1. OrderInv
  BY OrderInit
<1>2. ASSUME NEW n \in Nodes PROVE At(n) = {}
  <2>1. inbound[n] = <<>>
    BY DEF Init
  <2>2. n # Last => adding[n] = <<>> /\ queue[n] = <<>> /\ taken[n] = <<>>
    BY NumbersAreNumbers DEF Init
  <2>3. QED
    BY <2>1, <2>2, FewElements DEF At
<1>3. InTransit = {} /\ Elements(delivered) = {}
  BY <1>2, AllIsAt, FewElements DEF Init
<1>4. ASSUME NEW n \in Relays PROVE verifying[n] = <<>>
  BY NumbersAreNumbers DEF Init
<1>5. accepted = {}
  BY DEF Init
<1>6. QED
  BY <1>1, <1>3, <1>4, <1>5 DEF HopsInv, Pending

(* The packet that reaches RadioB claims no more repeaters than have verified *)
(* it (update_repeater in packet.py, called by receive_packets after the       *)
(* packet is queued), in a line of any length.                               *)
THEOREM HopsAreEarned == Spec => []HopsAreVerified
<1>1. HopsInv => HopsAreVerified
  <2> SUFFICES ASSUME HopsInv PROVE HopsAreVerified
    OBVIOUS
  <2>1. \A i \in DOMAIN delivered : Honest(delivered[i])
    BY DEF HopsInv, Elements
  <2>2. QED
    BY <2>1 DEF HopsAreVerified, Honest, VerifiedAt
<1>2. QED
  BY <1>1, HopsInit, HopsStep, PTL DEF Spec
-----------------------------------------------------------------------------
(* Nobody waits in vain.  What node n still owes an answer for: packets on   *)
(* its connections, and the one its receiving thread is at.                  *)
Owed(n) == Msgs(inbound[n]) \cup
           IF n = Last THEN {} ELSE Msgs(adding[n]) \cup Msgs(verifying[n])

AnswerIsOwed ==
  \A n \in Senders : waiting[n] \in {None} \cup torn \cup Owed(n + 1)

LEMMA HeadMsgs ==
  ASSUME NEW s \in Seq(Packet), s # <<>>
  PROVE  Msgs(s) = {Head(s).msg} \cup Msgs(Tail(s))
<1>1. /\ Tail(s) \in Seq(Packet) /\ Len(Tail(s)) = Len(s) - 1
      /\ Len(s) \in Nat /\ Len(s) >= 1 /\ Head(s) = s[1]
      /\ DOMAIN s = 1 .. Len(s) /\ DOMAIN Tail(s) = 1 .. Len(s) - 1
      /\ \A i \in 1 .. Len(s) - 1 : Tail(s)[i] = s[i + 1]
  OBVIOUS
<1>2. ASSUME NEW i \in DOMAIN s PROVE s[i].msg \in {Head(s).msg} \cup Msgs(Tail(s))
  <2>1. CASE i = 1
    BY <1>1, <2>1
  <2>2. CASE i # 1
    <3>1. i - 1 \in DOMAIN Tail(s) /\ Tail(s)[i - 1] = s[i]
      BY <1>1, <2>2
    <3> QED
      BY <3>1 DEF Msgs
  <2> QED
    BY <2>1, <2>2
<1> QED
  BY <1>2, TailMsgs DEF Msgs

(* A step at node n concerns the thread before it alone.                     *)
LEMMA OwedAtNode ==
  ASSUME AnswerIsOwed, NEW n \in 1 .. Last, torn \subseteq torn',
         waiting'[n - 1] \in {None} \cup torn' \cup Owed(n)',
         \A k \in Senders : k # n - 1 =>
           waiting'[k] \in {None, waiting[k]} /\ Owed(k + 1) \subseteq Owed(k + 1)'
  PROVE  AnswerIsOwed'
<1>1. \A k \in Senders : k = n - 1 => k + 1 = n
  BY NumbersAreNumbers
<1> QED
  BY <1>1 DEF AnswerIsOwed

LEMMA OwedAccepts ==
  ASSUME OrderInv, AnswerIsOwed, NEW n \in 1 .. Last, Accepts(n),
         torn \subseteq torn',
         Oldest(n).msg \in torn' \cup Owed(n)' \/ Answer(n, Oldest(n)),
         UNCHANGED waiting \/ Answer(n, Oldest(n)),
         n # Last => /\ Msgs(adding[n]) \subseteq Msgs(adding'[n])
                     /\ verifying'[n] = verifying[n],
         \A k \in Senders : k # n => adding'[k] = adding[k] /\ verifying'[k] = verifying[k]
  PROVE  AnswerIsOwed'
<1>1. n \in Nodes /\ n - 1 \in Senders /\ (n - 1) + 1 = n
  BY NumbersAreNumbers
<1>2. inbound[n] \in Seq(Packet) /\ inbound[n] # <<>> /\ inbound \in [Nodes -> Seq(Packet)]
  BY <1>1 DEF OrderInv, TypeOK, Accepts
<1>3. inbound'[n] = Tail(inbound[n])
      /\ \A k \in Nodes : k # n => inbound'[k] = inbound[k]
  BY <1>1, <1>2 DEF Accepts
<1>4. Msgs(inbound[n]) = {Oldest(n).msg} \cup Msgs(inbound'[n])
  BY <1>2, <1>3, HeadMsgs DEF Oldest
<1>5. Owed(n) \subseteq {Oldest(n).msg} \cup Owed(n)'
  BY <1>4 DEF Owed
<1>6. waiting \in [Senders -> {None} \cup Messages]
  BY DEF OrderInv, TypeOK
<1>7. ASSUME NEW k \in Senders, k # n - 1
      PROVE  waiting'[k] \in {None, waiting[k]} /\ Owed(k + 1) \subseteq Owed(k + 1)'
  <2>1. k + 1 \in Nodes /\ k + 1 # n /\ (k + 1 # Last => k + 1 \in Senders)
    BY <1>7, NumbersAreNumbers
  <2>2. Owed(k + 1)' = Owed(k + 1)
    BY <1>3, <2>1 DEF Owed
  <2>3. waiting'[k] = waiting[k]
    BY <1>6, <1>7 DEF Answer
  <2> QED
    BY <2>2, <2>3
<1>8. waiting[n - 1] \in {None} \cup torn \cup Owed(n)
  BY <1>1 DEF AnswerIsOwed
<1>9. waiting'[n - 1] \in {None} \cup torn' \cup Owed(n)'
  <2>1. CASE waiting[n - 1] = Oldest(n).msg /\ Answer(n, Oldest(n))
    BY <1>1, <1>6, <2>1 DEF Answer
  <2>2. CASE waiting[n - 1] # Oldest(n).msg
    <3>1. waiting'[n - 1] = waiting[n - 1]
      BY <2>2 DEF Answer
    <3> QED
      BY <1>5, <1>8, <2>2, <3>1
  <2>3. CASE ~Answer(n, Oldest(n))
    BY <1>5, <1>8, <2>3
  <2> QED
    BY <2>1, <2>2, <2>3
<1> QED
  BY <1>7, <1>9, OwedAtNode

LEMMA OwedVerified ==
  ASSUME OrderInv, AnswerIsOwed, NEW n \in Relays, IsVerifying(n),
         Answer(n, Verified(n)), verifying' = [verifying EXCEPT ![n] = <<>>],
         UNCHANGED <<adding, inbound, torn>>
  PROVE  AnswerIsOwed'
<1>1. /\ n \in Senders /\ n \in 1 .. Last /\ n # Last
      /\ n - 1 \in Senders /\ (n - 1) + 1 = n
  BY NumbersAreNumbers
<1>2. /\ verifying \in [Senders -> AtMostOne] /\ verifying[n] # <<>>
      /\ waiting \in [Senders -> {None} \cup Messages]
  BY DEF OrderInv, TypeOK, IsVerifying
<1>3. Msgs(verifying[n]) = {Verified(n).msg}
  BY <1>1, <1>2, AtMostOneMsgs DEF Verified
<1>4. verifying'[n] = <<>> /\ \A k \in Senders : k # n => verifying'[k] = verifying[k]
  BY <1>1, <1>2
<1>5. ASSUME NEW k \in Senders, k # n - 1
      PROVE  waiting'[k] \in {None, waiting[k]} /\ Owed(k + 1) \subseteq Owed(k + 1)'
  <2>1. k + 1 \in Nodes /\ k + 1 # n /\ (k + 1 # Last => k + 1 \in Senders)
    BY <1>5, NumbersAreNumbers
  <2>2. Owed(k + 1)' = Owed(k + 1)
    BY <1>4, <2>1 DEF Owed
  <2>3. waiting'[k] = waiting[k]
    BY <1>2, <1>5 DEF Answer
  <2> QED
    BY <2>2, <2>3
<1>6. waiting'[n - 1] \in {None} \cup torn' \cup Owed(n)'
  <2>1. waiting[n - 1] \in {None} \cup torn \cup Owed(n)
    BY <1>1 DEF AnswerIsOwed
  <2>2. Owed(n) \subseteq {Verified(n).msg} \cup Owed(n)'
    BY <1>1, <1>3 DEF Owed
  <2>3. waiting'[n - 1] = IF waiting[n - 1] = Verified(n).msg THEN None ELSE waiting[n - 1]
    BY <1>1, <1>2 DEF Answer
  <2> QED
    BY <2>1, <2>2, <2>3
<1> QED
  BY <1>1, <1>5, <1>6, OwedAtNode
LEMMA OwedSendPacket ==
  ASSUME OrderInv, AnswerIsOwed, NEW n \in Senders, SendPacket(n)
  PROVE  AnswerIsOwed'
<1>1. n + 1 \in 1 .. Last /\ n + 1 \in Nodes /\ (n + 1) - 1 = n
  BY NumbersAreNumbers
<1>2. /\ taken[n] \in AtMostOne /\ taken[n] # <<>>
      /\ inbound \in [Nodes -> Seq(Packet)] /\ inbound[n + 1] \in Seq(Packet)
      /\ waiting \in [Senders -> {None} \cup Messages]
  BY <1>1 DEF OrderInv, TypeOK, SendPacket
<1>3. taken[n] \in Seq(Packet) /\ Msgs(taken[n]) = {Head(taken[n]).msg}
  BY <1>2, AtMostOneMsgs
<1>4. CASE UNCHANGED <<inbound, waiting>>
  BY <1>4 DEF SendPacket, AnswerIsOwed, Owed
<1>5. CASE /\ inbound' = [inbound EXCEPT ![n + 1] = @ \o taken[n]]
           /\ waiting' = [waiting EXCEPT ![n] = Head(taken[n]).msg]
  <2>1. /\ inbound'[n + 1] = inbound[n + 1] \o taken[n]
        /\ \A k \in Nodes : k # n + 1 => inbound'[k] = inbound[k]
        /\ waiting'[n] = Head(taken[n]).msg
        /\ \A k \in Senders : k # n => waiting'[k] = waiting[k]
    BY <1>1, <1>2, <1>5
  <2>2. Msgs(inbound'[n + 1]) = Msgs(inbound[n + 1]) \cup Msgs(taken[n])
    BY <1>2, <1>3, <2>1, ConcatMsgs
  <2>3. waiting'[n] \in Owed(n + 1)'
    BY <1>3, <2>1, <2>2 DEF Owed
  <2>4. ASSUME NEW k \in Senders, k # n PROVE Owed(k + 1)' = Owed(k + 1)
    <3>1. k + 1 \in Nodes /\ k + 1 # n + 1
      BY <2>4, NumbersAreNumbers
    <3> QED
      BY <2>1, <3>1 DEF Owed, SendPacket
  <2>5. torn' = torn
    BY DEF SendPacket
  <2> QED
    BY <1>1, <2>1, <2>3, <2>4, <2>5, OwedAtNode
<1> QED
  BY <1>4, <1>5 DEF SendPacket

LEMMA OwedPut ==
  ASSUME HopsInv, AnswerIsOwed, NEW n \in Senders, Put(n)
  PROVE  AnswerIsOwed'
<1>1. CASE n = 0
  <2>1. \A k \in Senders : k + 1 # 0 /\ (k + 1 # Last => k + 1 \in Senders)
    BY NumbersAreNumbers
  <2>2. adding \in [Senders -> AtMostOne]
    BY DEF HopsInv, OrderInv, TypeOK
  <2>3. \A k \in Senders : k # 0 => adding'[k] = adding[k]
    BY <1>1, <2>2 DEF Put
  <2>4. \A k \in Senders : Owed(k + 1)' = Owed(k + 1)
    BY <1>1, <2>1, <2>3 DEF Owed, Put
  <2> QED
    BY <2>4 DEF AnswerIsOwed, Put
<1>2. CASE n # 0
  <2>1. n \in Relays /\ n \in 1 .. Last /\ n # Last /\ n - 1 \in Senders
        /\ (n - 1) + 1 = n
    BY <1>2, NumbersAreNumbers
  <2>2. verifying[n] = <<>>
    BY <2>1 DEF HopsInv, Pending, Put
  <2>3. /\ adding \in [Senders -> AtMostOne] /\ verifying \in [Senders -> AtMostOne]
    BY DEF HopsInv, OrderInv, TypeOK
  <2>4. /\ adding'[n] = <<>> /\ verifying'[n] = adding[n]
        /\ \A k \in Senders : k # n => /\ adding'[k] = adding[k]
                                       /\ verifying'[k] = verifying[k]
    BY <1>2, <2>3 DEF Put
  <2>5. Owed(n) \subseteq Owed(n)'
    BY <2>1, <2>2, <2>4, EmptyMsgs DEF Owed, Put
  <2>6. ASSUME NEW k \in Senders, k # n - 1 PROVE Owed(k + 1)' = Owed(k + 1)
    <3>1. k + 1 # n /\ (k + 1 # Last => k + 1 \in Senders)
      BY <2>6, NumbersAreNumbers
    <3> QED
      BY <2>4, <3>1 DEF Owed, Put
  <2>7. waiting[n - 1] \in {None} \cup torn \cup Owed(n)
    BY <2>1 DEF AnswerIsOwed
  <2>8. torn' = torn /\ waiting' = waiting
    BY DEF Put
  <2> QED
    BY <2>1, <2>5, <2>6, <2>7, <2>8, OwedAtNode
<1> QED
  BY <1>1, <1>2

LEMMA OwedRestart ==
  ASSUME OrderInv, AnswerIsOwed, NEW n \in Nodes, Restart(n)
  PROVE  AnswerIsOwed'
<1>1. inbound \in [Nodes -> Seq(Packet)]
  BY DEF OrderInv, TypeOK
<1>2. ASSUME NEW k \in Senders
      PROVE  waiting'[k] \in {None} \cup torn' \cup Owed(k + 1)'
  <2>1. CASE k \in {n, n - 1}
    BY <2>1 DEF Restart
  <2>2. CASE k \notin {n, n - 1}
    <3>1. k + 1 \in Nodes /\ k + 1 # n /\ (k + 1 # Last => k + 1 \in Senders)
      BY <2>2, NumbersAreNumbers
    <3>2. /\ inbound'[k + 1] = inbound[k + 1]
          /\ k + 1 # Last => /\ adding'[k + 1] = adding[k + 1]
                             /\ verifying'[k + 1] = verifying[k + 1]
      BY <1>1, <3>1 DEF Restart
    <3>3. Owed(k + 1)' = Owed(k + 1)
      BY <3>2 DEF Owed
    <3>4. waiting'[k] = waiting[k] /\ torn' = torn
      BY <2>2 DEF Restart
    <3> QED
      BY <3>3, <3>4 DEF AnswerIsOwed
  <2> QED
    BY <2>1, <2>2
<1> QED
  BY <1>2 DEF AnswerIsOwed

LEMMA OwedReceives ==
  ASSUME OrderInv, AnswerIsOwed, NEW n \in 1 .. Last,
         \/ ReadTorn(n) \/ AnswerDuplicate(n)
         \/ n \in Relays /\ StartAdding(n)
         \/ n = Last /\ Deliver
  PROVE  AnswerIsOwed'
<1>1. CASE ReadTorn(n)
  BY <1>1, OwedAccepts DEF ReadTorn
<1>2. CASE AnswerDuplicate(n)
  BY <1>2, OwedAccepts DEF AnswerDuplicate
<1>3. CASE n = Last /\ Deliver
  BY <1>3, OwedAccepts DEF Deliver
<1>4. CASE n \in Relays /\ StartAdding(n)
  <2>1. n \in Senders /\ n # Last
    BY <1>4, NumbersAreNumbers
  <2>2. adding \in [Senders -> AtMostOne]
    BY DEF OrderInv, TypeOK
  <2>3. /\ adding[n] = <<>> /\ adding'[n] = <<Oldest(n)>>
        /\ \A k \in Senders : k # n => adding'[k] = adding[k]
    BY <1>4, <2>1, <2>2 DEF StartAdding, Accepts
  <2>4. Msgs(adding[n]) = {} /\ Msgs(adding'[n]) = {Oldest(n).msg}
    BY <2>3, EmptyMsgs, SingleMsgs
  <2>5. Oldest(n).msg \in Owed(n)'
    BY <2>1, <2>4 DEF Owed
  <2> QED
    BY <1>4, <2>3, <2>4, <2>5, OwedAccepts DEF StartAdding
<1> QED
  BY <1>1, <1>2, <1>3, <1>4

LEMMA OwedStep == HopsInv /\ AnswerIsOwed /\ [Next]_vars => AnswerIsOwed'
<1> SUFFICES ASSUME HopsInv, AnswerIsOwed, [Next]_vars PROVE AnswerIsOwed'
  OBVIOUS
<1>0. OrderInv
  BY DEF HopsInv
<1>1. ASSUME NEW real \in BOOLEAN, Receive(real) PROVE AnswerIsOwed'
  <2>1. \A k \in Senders : k + 1 # 0 /\ (k + 1 # Last => k + 1 \in Senders)
    BY NumbersAreNumbers
  <2>2. adding \in [Senders -> AtMostOne]
    BY <1>0 DEF OrderInv, TypeOK
  <2>3. \A k \in Senders : k # 0 => adding'[k] = adding[k]
    BY <1>1, <2>2 DEF Receive
  <2>4. \A k \in Senders : Owed(k + 1)' = Owed(k + 1)
    BY <1>1, <2>1, <2>3 DEF Owed, Receive
  <2> QED
    BY <1>1, <2>4 DEF AnswerIsOwed, Receive
<1>2. CASE Put(0)
  BY <1>2, OwedPut, NumbersAreNumbers
<1>3. ASSUME NEW n \in 1 .. Last, ReceivingThread(n) PROVE AnswerIsOwed'
  <2>1. n \in Relays => n \in Senders
    BY NumbersAreNumbers
  <2>2. ASSUME n \in Relays, Accept(n) \/ Reject(n) PROVE AnswerIsOwed'
    BY <1>0, <2>2, OwedVerified DEF Accept, Reject
  <2> QED
    BY <1>0, <1>3, <2>1, <2>2, OwedPut, OwedReceives DEF ReceivingThread
<1>4. ASSUME NEW n \in Senders, ForwardingThread(n) PROVE AnswerIsOwed'
  <2>1. CASE TakePacket(n)
    BY <2>1 DEF TakePacket, AnswerIsOwed, Owed
  <2> QED
    BY <1>0, <1>4, <2>1, OwedSendPacket DEF ForwardingThread
<1>5. ASSUME NEW n \in Nodes, Restart(n) PROVE AnswerIsOwed'
  BY <1>0, <1>5, OwedRestart
<1>6. CASE UNCHANGED vars
  BY <1>6 DEF vars, AnswerIsOwed, Owed
<1> QED
  BY <1>1, <1>2, <1>3, <1>4, <1>5, <1>6 DEF Next

LEMMA OwedInvariant == Spec => [](HopsInv /\ AnswerIsOwed)
<1>1. Init => HopsInv
  BY HopsInit
<1>2. Init => AnswerIsOwed
  BY DEF Init, AnswerIsOwed
<1> QED
  BY <1>1, <1>2, HopsStep, OwedStep, PTL DEF Spec

(* A forwarding thread, which has no time-out, waits for a node that has its *)
(* packet and will answer it, or for one that could not read it: no restart  *)
(* and no duplicate leaves it waiting for an answer that nobody owes.        *)
THEOREM EveryAnswerIsOwed == Spec => []AnswerIsOwed
BY OwedInvariant, PTL
-----------------------------------------------------------------------------
(* Somebody can always go on.  When a thread can take a step is written out:  *)
(* the receiving thread of a node, and its forwarding thread.                *)
CanAccept(n) ==
  inbound[n] # <<>> /\ (n \in Relays => adding[n] = <<>> /\ verifying[n] = <<>>)
CanPut(n) == adding[n] # <<>> /\ Len(queue[n]) < QueueSize
CanReceive(n) ==
  CanAccept(n) \/ (n \in Relays /\ (CanPut(n) \/ verifying[n] # <<>>))
CanForward(n) ==
  /\ n \in Senders
  /\ taken[n] # <<>> \/ (waiting[n] = None /\ queue[n] # <<>>)

\* What n waits for comes to a node behind it that can go on, or a thread from
\* n on waits for a packet that was not read as a whole.
NobodyBlocks ==
  \A n \in Senders : waiting[n] # None =>
    \/ \E k \in Senders : n <= k /\ waiting[k] \in torn
    \/ \E k \in Nodes : n < k /\ (CanReceive(k) \/ CanForward(k))

\* A set of numbers below a number has a largest one.
LEMMA LargestExists ==
  ASSUME NEW N \in Nat, NEW S, S \subseteq 0 .. N, S # {}
  PROVE  \E m \in S : \A x \in S : x <= m
<1> DEFINE From(x) == {y \in S : x <= y}
           T == {From(x) : x \in S}
<1>0. 0 \in Int /\ N \in Int /\ \A x \in S : x \in Nat
  OBVIOUS
<1>1. IsFiniteSet(S)
  <2>1. IsFiniteSet(0 .. N)
    BY <1>0, FS_Interval
  <2> QED
    BY <2>1, FS_Subset
<1>2. T \subseteq FiniteSubsetsOf(S) /\ T # {}
  <2>1. ASSUME NEW x \in S PROVE From(x) \in SUBSET S /\ IsFiniteSet(From(x))
    BY <1>1, FS_Subset
  <2> QED
    BY <2>1 DEF FiniteSubsetsOf
<1>3. PICK A \in T : \A B \in T : <<B, A>> \notin StrictSubsetOrdering(S)
  <2>1. IsWellFoundedOn(StrictSubsetOrdering(S), FiniteSubsetsOf(S))
    BY FS_StrictSubsetOrderingWellFounded
  <2> HIDE DEF T
  <2> QED
    BY <1>2, <2>1, WFMin
<1>4. PICK m \in S : A = From(m)
  OBVIOUS
<1>5. ASSUME NEW x \in S PROVE x <= m
  <2>1. SUFFICES ASSUME m < x PROVE FALSE
    BY <1>0
  <2>2. From(x) \subseteq From(m) /\ m \in From(m) /\ m \notin From(x)
    <3>1. m \in Nat /\ x \in Nat
      BY <1>0
    <3>2. \A y \in S : y \in Nat /\ (x <= y => m <= y)
      BY <1>0, <2>1, <3>1
    <3>3. m <= m /\ ~(x <= m)
      BY <2>1, <3>1
    <3> QED
      BY <3>2, <3>3, Zenon
  <2>3. From(x) \in SUBSET S /\ From(m) \in SUBSET S /\ From(x) \in T
    OBVIOUS
  <2> HIDE DEF From
  <2>4. <<From(x), From(m)>> \in StrictSubsetOrdering(S)
    BY <2>2, <2>3 DEF StrictSubsetOrdering
  <2> QED
    BY <1>3, <1>4, <2>3, <2>4
<1> QED
  BY <1>5

(* The last thread that waits waits for a node whose own thread does not.    *)
LEMMA LastWaiterIsServed ==
  ASSUME HopsInv, AnswerIsOwed, NEW n \in Senders, waiting[n] \notin {None} \cup torn,
         n + 1 \in Senders => waiting[n + 1] = None
  PROVE  CanReceive(n + 1) \/ CanForward(n + 1)
<1>1. /\ TypeOK /\ n + 1 \in Nodes /\ n + 1 # 0
      /\ n + 1 # Last => n + 1 \in Relays /\ n + 1 \in Senders
      /\ n + 1 = Last => n + 1 \notin Relays
  BY NumbersAreNumbers DEF HopsInv, OrderInv
<1>2. waiting[n] \in Owed(n + 1)
  BY DEF AnswerIsOwed
<1>3. CASE n + 1 = Last
  <2>1. inbound[n + 1] # <<>>
    BY <1>2, <1>3, EmptyMsgs DEF Owed
  <2> QED
    BY <1>1, <1>3, <2>1 DEF CanReceive, CanAccept
<1>4. CASE n + 1 # Last
  <2>1. CASE verifying[n + 1] # <<>>
    BY <1>1, <1>4, <2>1 DEF CanReceive
  <2>2. CASE verifying[n + 1] = <<>> /\ adding[n + 1] # <<>>
    <3>1. CASE Len(queue[n + 1]) < QueueSize
      BY <1>1, <1>4, <2>2, <3>1 DEF CanReceive, CanPut
    <3>2. CASE ~(Len(queue[n + 1]) < QueueSize)
      <4>1. queue[n + 1] # <<>>
        BY <3>2, NumbersAreNumbers
      <4> QED
        BY <1>1, <1>4, <4>1 DEF CanForward
    <3> QED
      BY <3>1, <3>2
  <2>3. CASE verifying[n + 1] = <<>> /\ adding[n + 1] = <<>>
    <3>1. inbound[n + 1] # <<>>
      BY <1>2, <1>4, <2>3, EmptyMsgs DEF Owed
    <3> QED
      BY <2>3, <3>1 DEF CanReceive, CanAccept
  <2> QED
    BY <2>1, <2>2, <2>3
<1> QED
  BY <1>3, <1>4

LEMMA OwedMeansMoving == HopsInv /\ AnswerIsOwed => NobodyBlocks
<1> SUFFICES ASSUME HopsInv, AnswerIsOwed, NEW n \in Senders, waiting[n] # None,
                    ~ \E k \in Senders : n <= k /\ waiting[k] \in torn
             PROVE  \E k \in Nodes : n < k /\ (CanReceive(k) \/ CanForward(k))
  BY DEF NobodyBlocks
<1> DEFINE Waiters == {k \in Senders : n <= k /\ waiting[k] # None}
<1>1. n \in Waiters /\ Waiters \subseteq 0 .. Repeaters
  BY NumbersAreNumbers
<1>2. PICK m \in Waiters : \A k \in Waiters : k <= m
  <2> HIDE DEF Waiters
  <2> QED
    BY <1>1, LargestExists, NumbersAreNumbers
<1>3. m \in Senders /\ n <= m /\ waiting[m] \notin {None} \cup torn
  OBVIOUS
<1>4. m + 1 \in Nodes /\ n < m + 1 /\ n <= m + 1 /\ ~(m + 1 <= m)
  BY <1>3, NumbersAreNumbers
<1>5. m + 1 \in Senders => waiting[m + 1] = None
  BY <1>2, <1>4
<1>6. CanReceive(m + 1) \/ CanForward(m + 1)
  <2> HIDE DEF Waiters
  <2> QED
    BY <1>3, <1>5, LastWaiterIsServed
<1> QED
  BY <1>4, <1>6

(* Forwarding threads that wait for each other's nodes, receiving threads     *)
(* blocked at full queues behind them: a node behind a waiting thread can     *)
(* always take a step, so the line never blocks as a whole, unless a packet   *)
(* was not read.  How long the line is and how small the queues are plays no  *)
(* part.                                                                     *)
THEOREM TheLineNeverBlocks == Spec => []NobodyBlocks
BY OwedInvariant, OwedMeansMoving, PTL
-----------------------------------------------------------------------------
(* How many connections wait to be accepted.  A forwarder has one at a time,  *)
(* whose answer it waits for; each failure leaves at most one more behind.    *)
Open(n) == IF waiting[n - 1] \in Msgs(inbound[n]) THEN 1 ELSE 0

OneAtATime == \A n \in Senders : taken[n] # <<>> => waiting[n] = None

BacklogInv ==
  /\ OneAtATime
  /\ \A n \in 1 .. Last : Len(inbound[n]) <= faults + Open(n)

BacklogBounded == \A n \in 1 .. Last : Len(inbound[n]) <= faults + 1

LEMMA BacklogTypes ==
  ASSUME TypeOK, NEW n \in 1 .. Last
  PROVE  /\ n \in Nodes /\ n - 1 \in Senders /\ inbound[n] \in Seq(Packet)
         /\ Len(inbound[n]) \in Nat /\ faults \in Nat /\ Open(n) \in {0, 1}
<1>1. n \in Nodes /\ n - 1 \in Senders
  BY NumbersAreNumbers
<1>2. inbound[n] \in Seq(Packet) /\ faults \in Nat
  BY <1>1, NumbersAreNumbers DEF TypeOK
<1> QED
  BY <1>1, <1>2, SeqMsgs DEF Open

\* A step at node n; elsewhere nothing changes.
LEMMA BacklogAtNode ==
  ASSUME TypeOK, BacklogInv, NEW n \in 1 .. Last,
         OneAtATime', faults' \in Nat, faults' >= faults,
         Len(inbound'[n]) <= faults' + Open(n)',
         \A k \in 1 .. Last : k # n =>
           inbound'[k] = inbound[k] /\ waiting'[k - 1] = waiting[k - 1]
  PROVE  BacklogInv'
<1>1. ASSUME NEW k \in 1 .. Last, k # n
      PROVE  Len(inbound'[k]) <= faults' + Open(k)'
  <2>1. Open(k)' = Open(k) /\ inbound'[k] = inbound[k]
    BY <1>1 DEF Open
  <2>2. Len(inbound[k]) <= faults + Open(k)
    BY DEF BacklogInv
  <2>3. Len(inbound[k]) \in Nat /\ faults \in Nat /\ Open(k) \in Nat
    BY BacklogTypes
  <2>4. Len(inbound[k]) <= faults' + Open(k)
    BY <2>2, <2>3
  <2> QED
    BY <2>1, <2>4
<1> QED
  BY <1>1 DEF BacklogInv

\* Whatever comes of the oldest connection, one fewer is left.
LEMMA BacklogAccepts ==
  ASSUME TypeOK, TypeOK', BacklogInv, NEW n \in 1 .. Last, Accepts(n),
         faults' \in {faults, faults + 1},
         UNCHANGED waiting \/ Answer(n, Oldest(n)), UNCHANGED taken
  PROVE  BacklogInv'
<1>1. /\ n \in Nodes /\ n - 1 \in Senders /\ inbound[n] \in Seq(Packet)
      /\ Len(inbound[n]) \in Nat /\ faults \in Nat /\ Open(n) \in {0, 1}
  BY BacklogTypes
<1>2. /\ inbound \in [Nodes -> Seq(Packet)]
      /\ waiting \in [Senders -> {None} \cup Messages]
  BY DEF TypeOK
<1>3. inbound'[n] = Tail(inbound[n]) /\ \A k \in Nodes : k # n => inbound'[k] = inbound[k]
  BY <1>1, <1>2 DEF Accepts
<1>4. Len(inbound'[n]) = Len(inbound[n]) - 1
  BY <1>1, <1>3, TailType DEF Accepts
<1>5. Open(n)' \in {0, 1}
  BY DEF Open
<1>6. Len(inbound[n]) <= faults + Open(n)
  BY DEF BacklogInv
<1>7. Len(inbound'[n]) <= faults' + Open(n)'
  <2>1. Len(inbound[n]) - 1 <= faults
    BY <1>1, <1>6
  <2>2. faults' \in Nat /\ faults <= faults'
    BY <1>1
  <2>3. faults <= faults' + Open(n)'
    BY <1>1, <1>5, <2>2
  <2> QED
    BY <1>1, <1>4, <1>5, <2>1, <2>2, <2>3
<1>8. /\ \A k \in Senders : waiting'[k] \in {None, waiting[k]}
      /\ \A k \in Senders : k # n - 1 => waiting'[k] = waiting[k]
  BY <1>1, <1>2 DEF Answer
<1>9. OneAtATime'
  BY <1>8 DEF BacklogInv, OneAtATime
<1>10. ASSUME NEW k \in 1 .. Last, k # n
       PROVE  inbound'[k] = inbound[k] /\ waiting'[k - 1] = waiting[k - 1]
  <2>1. k \in Nodes /\ k - 1 \in Senders /\ k - 1 # n - 1
    BY <1>10, NumbersAreNumbers
  <2> QED
    BY <1>3, <1>8, <1>10, <2>1
<1>11. faults' \in Nat /\ faults' >= faults
  BY <1>1
<1> QED
  BY <1>7, <1>9, <1>10, <1>11, BacklogAtNode

LEMMA BacklogVerified ==
  ASSUME HopsInv, BacklogInv, NEW n \in Relays, IsVerifying(n),
         Answer(n, Verified(n)), UNCHANGED <<inbound, faults>>,
         \A k \in Senders : taken'[k] # <<>> => taken[k] # <<>>
  PROVE  BacklogInv'
<1>0. n \in 1 .. Last /\ n \in Nodes /\ n - 1 \in Senders /\ TypeOK
  BY NumbersAreNumbers DEF HopsInv, OrderInv
<1>1. /\ inbound[n] \in Seq(Packet) /\ faults \in Nat
      /\ waiting \in [Senders -> {None} \cup Messages]
  BY <1>0, BacklogTypes DEF TypeOK
<1>2. Verified(n).msg \notin Msgs(inbound[n])
  <2>1. \A m \in Msgs(inbound[n]) : Verified(n).msg < m /\ m \in Nat
    <3>1. Msgs(inbound[n]) \subseteq Nat
      BY <1>1, SeqMsgs
    <3>2. Msgs(inbound[n]) \subseteq Coming(n)
      BY DEF Msgs, Coming, Arriving, Elements
    <3>3. \A m \in Coming(n) : Verified(n).msg < m
      BY DEF HopsInv, Pending, IsVerifying
    <3> QED
      BY <3>1, <3>2, <3>3
  <2>2. Verified(n).msg \in Nat
    BY <1>0, VerifiedType, NumbersAreNumbers DEF Messages
  <2> QED
    BY <2>1, <2>2
<1>3. /\ \A k \in Senders : waiting'[k] \in {None, waiting[k]}
      /\ \A k \in Senders : k # n - 1 => waiting'[k] = waiting[k]
      /\ waiting[n - 1] = Verified(n).msg \/ waiting'[n - 1] = waiting[n - 1]
  BY <1>0, <1>1 DEF Answer
<1>4. OneAtATime'
  BY <1>3 DEF BacklogInv, OneAtATime
<1>5. Len(inbound'[n]) <= faults' + Open(n)'
  <2>1. CASE waiting[n - 1] = Verified(n).msg
    <3>1. Open(n) = 0 /\ Open(n)' \in {0, 1}
      BY <1>2, <2>1 DEF Open
    <3>2. Len(inbound[n]) <= faults + Open(n)
      BY <1>0 DEF BacklogInv
    <3> QED
      BY <1>0, <3>1, <3>2, BacklogTypes
  <2>2. CASE waiting'[n - 1] = waiting[n - 1]
    BY <1>0, <2>2 DEF BacklogInv, Open
  <2> QED
    BY <1>3, <2>1, <2>2
<1>6. \A k \in 1 .. Last : k # n => k - 1 \in Senders /\ k - 1 # n - 1
  BY NumbersAreNumbers
<1>7. faults' \in Nat /\ faults' >= faults
  BY <1>1
<1> QED
  BY <1>0, <1>3, <1>4, <1>5, <1>6, <1>7, BacklogAtNode

LEMMA BacklogSend ==
  ASSUME TypeOK, TypeOK', BacklogInv, NEW n \in Senders, SendPacket(n)
  PROVE  BacklogInv'
<1>1. n + 1 \in 1 .. Last /\ n + 1 \in Nodes /\ (n + 1) - 1 = n
  BY NumbersAreNumbers
<1>2. /\ taken \in [Senders -> AtMostOne] /\ taken[n] # <<>>
      /\ inbound \in [Nodes -> Seq(Packet)] /\ inbound[n + 1] \in Seq(Packet)
      /\ waiting \in [Senders -> {None} \cup Messages]
      /\ Len(inbound[n + 1]) \in Nat /\ faults \in Nat
  BY <1>1, BacklogTypes DEF TypeOK, SendPacket
<1>3. taken'[n] = <<>> /\ \A k \in Senders : k # n => taken'[k] = taken[k]
  BY <1>2 DEF SendPacket
<1>4. waiting[n] = None
  BY <1>2 DEF BacklogInv, OneAtATime
<1>5. CASE Fault /\ UNCHANGED <<inbound, waiting>>
  <2>1. OneAtATime'
    BY <1>3, <1>5 DEF BacklogInv, OneAtATime
  <2>2. /\ Len(inbound[n + 1]) <= faults + Open(n + 1) /\ Open(n + 1) \in Nat
        /\ Open(n + 1)' = Open(n + 1) /\ faults' = faults + 1
    BY <1>1, <1>5, BacklogTypes DEF BacklogInv, Open, Fault
  <2>3. Len(inbound[n + 1]) <= (faults + 1) + Open(n + 1)
    BY <1>2, <2>2
  <2>4. Len(inbound'[n + 1]) <= faults' + Open(n + 1)'
    BY <1>5, <2>2, <2>3
  <2>5. faults' \in Nat /\ faults' >= faults
    BY <1>2, <2>2
  <2> QED
    BY <1>1, <1>5, <2>1, <2>4, <2>5, BacklogAtNode
<1>6. CASE /\ NoFault
           /\ inbound' = [inbound EXCEPT ![n + 1] = @ \o taken[n]]
           /\ waiting' = [waiting EXCEPT ![n] = Head(taken[n]).msg]
  <2>1. /\ inbound'[n + 1] = inbound[n + 1] \o taken[n]
        /\ \A k \in Nodes : k # n + 1 => inbound'[k] = inbound[k]
        /\ waiting'[n] = Head(taken[n]).msg
        /\ \A k \in Senders : k # n => waiting'[k] = waiting[k]
    BY <1>1, <1>2, <1>6
  <2>2. OneAtATime'
    BY <1>3, <2>1 DEF BacklogInv, OneAtATime
  <2>3. taken[n] \in Seq(Packet) /\ Msgs(taken[n]) = {Head(taken[n]).msg}
        /\ Len(taken[n]) <= 1
    BY <1>2, AtMostOneMsgs DEF AtMostOne
  <2>4. Open(n + 1)' = 1
    <3>1. Msgs(inbound'[n + 1]) = Msgs(inbound[n + 1]) \cup Msgs(taken[n])
      BY <1>2, <2>1, <2>3, ConcatMsgs
    <3> QED
      BY <1>1, <2>1, <2>3, <3>1 DEF Open
  <2>5. Open(n + 1) = 0
    <3>1. None \notin Msgs(inbound[n + 1])
      BY <1>2, SeqMsgs DEF Messages
    <3> QED
      BY <1>1, <1>4, <3>1 DEF Open
  <2>6. Len(inbound[n + 1]) <= faults + Open(n + 1)
    BY <1>1 DEF BacklogInv
  <2>7. /\ Len(inbound'[n + 1]) = Len(inbound[n + 1]) + Len(taken[n])
        /\ Len(taken[n]) \in Nat
    BY <1>2, <2>1, <2>3, ConcatType
  <2>8. Len(inbound'[n + 1]) <= faults + 1
    BY <1>2, <2>3, <2>5, <2>6, <2>7
  <2>9. Len(inbound'[n + 1]) <= faults' + Open(n + 1)'
    BY <1>6, <2>4, <2>8 DEF NoFault
  <2>10. ASSUME NEW k \in 1 .. Last, k # n + 1
         PROVE  inbound'[k] = inbound[k] /\ waiting'[k - 1] = waiting[k - 1]
    <3>1. k \in Nodes /\ k - 1 \in Senders /\ k - 1 # n
      BY <2>10, NumbersAreNumbers
    <3> QED
      BY <2>1, <2>10, <3>1
  <2>11. faults' \in Nat /\ faults' >= faults
    BY <1>2, <1>6 DEF NoFault
  <2> QED
    BY <1>1, <2>2, <2>9, <2>10, <2>11, BacklogAtNode
<1> QED
  BY <1>5, <1>6 DEF SendPacket

LEMMA BacklogRestart ==
  ASSUME TypeOK, TypeOK', BacklogInv, NEW n \in Nodes, Restart(n)
  PROVE  BacklogInv'
<1>1. /\ inbound \in [Nodes -> Seq(Packet)] /\ faults \in Nat
      /\ faults' = faults + 1
  BY NumbersAreNumbers DEF TypeOK, Restart, Fault
<1>2. inbound'[n] = <<>> /\ \A k \in Nodes : k # n => inbound'[k] = inbound[k]
  BY <1>1 DEF Restart
<1>3. \A k \in Senders : /\ k \in {n, n - 1} => waiting'[k] = None
                         /\ k \notin {n, n - 1} => waiting'[k] = waiting[k]
                         /\ taken'[k] # <<>> => taken[k] # <<>>
  BY DEF Restart
<1>4. OneAtATime'
  BY <1>3 DEF BacklogInv, OneAtATime
<1>5. ASSUME NEW k \in 1 .. Last
      PROVE  Len(inbound'[k]) <= faults' + Open(k)'
  <2>1. /\ k \in Nodes /\ k - 1 \in Senders /\ Len(inbound[k]) \in Nat
        /\ Open(k) \in {0, 1} /\ Open(k)' \in {0, 1}
    BY BacklogTypes DEF Open
  <2>2. Len(inbound[k]) <= faults + Open(k)
    BY DEF BacklogInv
  <2>3. CASE k = n
    <3>1. Len(inbound'[k]) = 0
      BY <1>2, <2>3
    <3> QED
      BY <1>1, <2>1, <3>1
  <2>4. CASE k # n
    <3>1. Len(inbound[k]) <= faults + 1
      BY <1>1, <2>1, <2>2
    <3> QED
      BY <1>1, <1>2, <2>1, <2>4, <3>1
  <2> QED
    BY <2>3, <2>4
<1> QED
  BY <1>4, <1>5 DEF BacklogInv

LEMMA BacklogStep ==
  HopsInv /\ HopsInv' /\ BacklogInv /\ [Next]_vars => BacklogInv'
<1> SUFFICES ASSUME HopsInv, HopsInv', BacklogInv, [Next]_vars PROVE BacklogInv'
  OBVIOUS
<1>0. TypeOK /\ TypeOK'
  BY DEF HopsInv, OrderInv
<1>1. ASSUME UNCHANGED <<inbound, waiting, taken, faults>> PROVE BacklogInv'
  BY <1>1 DEF BacklogInv, OneAtATime, Open
<1>2. ASSUME NEW real \in BOOLEAN, Receive(real) PROVE BacklogInv'
  BY <1>1, <1>2 DEF Receive
<1>3. ASSUME NEW n \in Senders, Put(n) PROVE BacklogInv'
  BY <1>1, <1>3 DEF Put
<1>4. ASSUME NEW n \in 1 .. Last, ReceivingThread(n) PROVE BacklogInv'
  <2>1. n \in Relays => n \in Senders
    BY NumbersAreNumbers
  <2>2. CASE ReadTorn(n)
    BY <1>0, <2>2, BacklogAccepts DEF ReadTorn, Fault
  <2>3. CASE AnswerDuplicate(n)
    BY <1>0, <2>3, BacklogAccepts DEF AnswerDuplicate
  <2>4. CASE n \in Relays /\ StartAdding(n)
    BY <1>0, <2>4, BacklogAccepts DEF StartAdding
  <2>5. CASE n = Last /\ Deliver
    <3>1. faults' \in {faults, faults + 1}
      BY <2>5 DEF Deliver, Fault, NoFault
    <3> QED
      BY <1>0, <2>5, <3>1, BacklogAccepts DEF Deliver
  <2>6. CASE n \in Relays /\ Accept(n)
    <3>1. taken \in [Senders -> AtMostOne] /\ \A k \in Senders : taken[k] \in Seq(Packet)
      BY <1>0 DEF TypeOK, AtMostOne
    <3>2. taken'[n] = Counted(taken[n], Verified(n).msg)
          /\ \A k \in Senders : k # n => taken'[k] = taken[k]
      BY <2>1, <2>6, <3>1 DEF Accept
    <3>3. Len(taken'[n]) = Len(taken[n]) /\ taken'[n] \in Seq(Packet)
      BY <2>1, <2>6, <3>1, <3>2, CountedType
    <3>4. \A k \in Senders : taken'[k] # <<>> => taken[k] # <<>>
      BY <3>1, <3>2, <3>3
    <3> QED
      BY <2>6, <3>4, BacklogVerified DEF Accept
  <2>7. CASE n \in Relays /\ Reject(n)
    BY <2>7, BacklogVerified DEF Reject
  <2> QED
    BY <1>3, <1>4, <2>1, <2>2, <2>3, <2>4, <2>5, <2>6, <2>7 DEF ReceivingThread
<1>5. ASSUME NEW n \in Senders, TakePacket(n) PROVE BacklogInv'
  <2>1. taken \in [Senders -> AtMostOne]
    BY <1>0 DEF TypeOK
  <2>2. \A k \in Senders : k # n => taken'[k] = taken[k]
    BY <1>5, <2>1 DEF TakePacket
  <2>3. OneAtATime'
    BY <1>5, <2>2 DEF TakePacket, BacklogInv, OneAtATime
  <2> QED
    BY <1>5, <2>3 DEF TakePacket, BacklogInv, Open
<1>6. ASSUME NEW n \in Senders, SendPacket(n) PROVE BacklogInv'
  BY <1>0, <1>6, BacklogSend
<1>7. ASSUME NEW n \in Nodes, Restart(n) PROVE BacklogInv'
  BY <1>0, <1>7, BacklogRestart
<1>8. CASE UNCHANGED vars
  BY <1>1, <1>8 DEF vars
<1> QED
  BY <1>2, <1>3, <1>4, <1>5, <1>6, <1>7, <1>8, NumbersAreNumbers
  DEF Next, ForwardingThread

(* Connections do not pile up at a node: one that is open and at most one     *)
(* for each failure.  A node listens for five, so its backlog of connections  *)
(* is not full before four things have failed.                               *)
THEOREM BacklogsAreShort == Spec => []BacklogBounded
<1>1. Init => HopsInv /\ BacklogInv
  <2>1. Init => BacklogInv
    BY NumbersAreNumbers DEF Init, BacklogInv, OneAtATime, Open, Msgs
  <2> QED
    BY <2>1, HopsInit
<1>2. HopsInv /\ BacklogInv => BacklogBounded
  <2> SUFFICES ASSUME HopsInv, BacklogInv, NEW n \in 1 .. Last
               PROVE  Len(inbound[n]) <= faults + 1
    BY DEF BacklogBounded
  <2>1. Len(inbound[n]) <= faults + Open(n)
    BY DEF BacklogInv
  <2>2. Len(inbound[n]) \in Nat /\ faults \in Nat /\ Open(n) \in {0, 1}
    BY BacklogTypes DEF HopsInv, OrderInv
  <2> QED
    BY <2>1, <2>2
<1> QED
  BY <1>1, <1>2, HopsStep, BacklogStep, PTL DEF Spec
-----------------------------------------------------------------------------
(* A packet that no later node knows.  It stays so, wherever it goes, as long *)
(* as nothing fails: a packet of the same number that is older would have to   *)
(* be in transit, and one that is newer stays behind it.                      *)
StillFresh(m) == \E n \in Nodes : \E p \in At(n) : p.msg = m /\ Fresh(n, p)
Arrived(m) == \E i \in DOMAIN delivered : delivered[i].msg = m

FreshIsKept ==
  [][\A m \in Messages : StillFresh(m) /\ faults' = faults
                           => (Arrived(m) \/ StillFresh(m))']_vars

LEMMA AllElements ==
  /\ \A s \in Seq(Packet) : s # <<>> => Elements(s) = {Head(s)} \cup Elements(Tail(s))
  /\ \A s, t \in Seq(Packet) : Elements(s \o t) = Elements(s) \cup Elements(t)
<1>1. ASSUME NEW s \in Seq(Packet), s # <<>>
      PROVE  Elements(s) = {Head(s)} \cup Elements(Tail(s))
  <2>1. /\ Tail(s) \in Seq(Packet) /\ Len(Tail(s)) = Len(s) - 1
        /\ Len(s) \in Nat /\ Len(s) >= 1 /\ Head(s) = s[1]
        /\ DOMAIN s = 1 .. Len(s) /\ DOMAIN Tail(s) = 1 .. Len(s) - 1
        /\ \A i \in 1 .. Len(s) - 1 : Tail(s)[i] = s[i + 1]
    BY <1>1
  <2>2. ASSUME NEW i \in DOMAIN s PROVE s[i] \in {Head(s)} \cup Elements(Tail(s))
    <3>1. CASE i = 1
      BY <2>1, <3>1
    <3>2. CASE i # 1
      <4>1. i - 1 \in DOMAIN Tail(s) /\ Tail(s)[i - 1] = s[i]
        BY <2>1, <3>2
      <4> QED
        BY <4>1 DEF Elements
    <3> QED
      BY <3>1, <3>2
  <2> QED
    BY <1>1, <2>2, SeqElements DEF Elements
<1>2. ASSUME NEW s \in Seq(Packet), NEW t \in Seq(Packet)
      PROVE  Elements(s) \cup Elements(t) \subseteq Elements(s \o t)
  <2> DEFINE u == s \o t
  <2>1. /\ Len(s) \in Nat /\ Len(t) \in Nat
        /\ DOMAIN s = 1 .. Len(s) /\ DOMAIN t = 1 .. Len(t)
        /\ DOMAIN u = 1 .. Len(s) + Len(t)
        /\ \A i \in 1 .. Len(s) : u[i] = s[i]
        /\ \A i \in 1 .. Len(t) : u[Len(s) + i] = t[i]
    OBVIOUS
  <2> HIDE DEF u
  <2>2. ASSUME NEW i \in DOMAIN s PROVE s[i] \in Elements(u)
    <3>1. i \in DOMAIN u /\ u[i] = s[i]
      BY <2>1
    <3> QED
      BY <3>1 DEF Elements
  <2>3. ASSUME NEW i \in DOMAIN t PROVE t[i] \in Elements(u)
    <3>1. Len(s) + i \in DOMAIN u /\ u[Len(s) + i] = t[i]
      BY <2>1
    <3> QED
      BY <3>1 DEF Elements
  <2>4. Elements(s) \cup Elements(t) \subseteq Elements(u)
    BY <2>2, <2>3 DEF Elements
  <2> QED
    BY <2>4 DEF u
<1> QED
  BY <1>1, <1>2, ConcatElements

\* What has to be shown of a step: where the packet is now.
LEMMA FreshStays ==
  ASSUME NEW n \in Nodes, NEW p, Fresh(n, p),
         NEW k \in Nodes, NEW q \in At(k)', q.msg = p.msg, q.uid = p.uid,
         \A j \in Nodes : j > k \/ (j = k /\ q \in Elements(inbound'[k]))
                            => p.uid \notin seen'[j],
         \A r \in InTransit' : \E s \in InTransit : s.msg = r.msg /\ s.uid = r.uid
  PROVE  StillFresh(p.msg)'
<1>1. \A r \in InTransit' : r.msg < p.msg => r.uid # p.uid
  BY DEF Fresh
<1>2. Fresh(k, q)'
  BY <1>1 DEF Fresh
<1> QED
  BY <1>2 DEF StillFresh

LEMMA FreshQuiet ==
  ASSUME NEW n \in Nodes, NEW p, Fresh(n, p), UNCHANGED <<inbound, seen>>,
         \A k \in Nodes : At(k)' = At(k)
  PROVE  StillFresh(p.msg)'
<1>1. p \in At(n)' /\ InTransit' = InTransit
  BY AllIsAt DEF Fresh
<1>2. \A j \in Nodes : j > n \/ (j = n /\ p \in Elements(inbound'[n]))
                         => p.uid \notin seen'[j]
  BY DEF Fresh
<1> QED
  BY <1>1, <1>2, FreshStays

\* The messages at a node are newer than those further down.
LEMMA FurtherIsOlder ==
  ASSUME OrderInv, NEW a \in Nodes, NEW b \in Nodes, NEW p \in At(a), NEW q \in At(b)
  PROVE  /\ p.msg \in Nat /\ q.msg \in Nat
         /\ a < b => q.msg < p.msg
<1>1. p.msg \in All(a) /\ q.msg \in All(b)
  BY AllIsAt
<1>2. \A k \in Nodes : All(k) \subseteq Nat
  <2>1. ASSUME NEW k \in Nodes PROVE All(k) \subseteq Nat
    <3>1. inbound[k] \in Seq(Packet)
      BY DEF OrderInv, TypeOK
    <3>2. k # Last => /\ adding[k] \in Seq(Packet) /\ queue[k] \in Seq(Packet)
                      /\ taken[k] \in Seq(Packet)
      <4>1. k # Last => k \in Senders
        BY NumbersAreNumbers
      <4>2. \A s \in AtMostOne : s \in Seq(Packet)
        BY DEF AtMostOne
      <4> QED
        BY <4>1, <4>2 DEF OrderInv, TypeOK
    <3> QED
      BY <3>1, <3>2, SeqMsgs DEF All
  <2> QED
    BY <2>1
<1> QED
  BY <1>1, <1>2 DEF OrderInv, Below

(* The oldest connection of a node is accepted: the packets behind it have    *)
(* other numbers, or were not fresh.                                         *)
LEMMA FreshBehind ==
  ASSUME OrderInv, NEW n \in 1 .. Last, Accepts(n),
         seen' = seen \/ seen' = [seen EXCEPT ![n] = @ \cup {Oldest(n).uid}],
         \A k \in Nodes : k # n => At(k)' = At(k),
         At(n)' \subseteq At(n),
         NEW a \in Nodes, NEW p, Fresh(a, p), p \in At(a)', p # Oldest(n)
  PROVE  StillFresh(p.msg)'
<1>0. PICK h : h = Oldest(n)
  OBVIOUS
<1>1. n \in Nodes
  BY NumbersAreNumbers
<1>2. /\ inbound \in [Nodes -> Seq(Packet)] /\ inbound[n] \in Seq(Packet)
      /\ inbound[n] # <<>> /\ seen \in [Nodes -> SUBSET Uids]
  BY <1>1 DEF OrderInv, TypeOK, Accepts
<1>3. inbound'[n] = Tail(inbound[n]) /\ \A k \in Nodes : k # n => inbound'[k] = inbound[k]
  BY <1>1, <1>2 DEF Accepts
<1>4. Elements(inbound[n]) = {h} \cup Elements(inbound'[n])
  BY <1>0, <1>2, <1>3, AllElements DEF Oldest
<1>5. h \in At(n) /\ h \in InTransit
  BY <1>1, <1>4, AllIsAt DEF At
<1>6. \A r \in Elements(inbound'[n]) : h.msg < r.msg
  <2>1. Sorted(inbound[n])
    BY <1>1 DEF OrderInv, Tidy
  <2>2. \A m \in Msgs(inbound'[n]) : h.msg < m
    BY <1>0, <1>2, <1>3, <2>1, TailMsgs DEF Oldest
  <2> QED
    BY <2>2 DEF Elements, Msgs
<1>7. h.msg < p.msg => h.uid # p.uid
  BY <1>5 DEF Fresh
<1>8. a < n => h.msg < p.msg
  BY <1>1, <1>5, FurtherIsOlder DEF Fresh
<1>9. /\ \A j \in Nodes : j # n => seen'[j] = seen[j]
      /\ seen'[n] \subseteq seen[n] \cup {h.uid}
  BY <1>0, <1>1, <1>2
<1>10. ASSUME NEW j \in Nodes, j > a \/ (j = a /\ p \in Elements(inbound'[a]))
       PROVE  p.uid \notin seen'[j]
  <2>1. p \in Elements(inbound'[a]) => p \in Elements(inbound[a])
    BY <1>3, <1>4
  <2>2. p.uid \notin seen[j]
    BY <1>10, <2>1 DEF Fresh
  <2>3. CASE j # n
    BY <1>9, <2>2, <2>3
  <2>4. CASE j = n
    <3>1. CASE j > a
      BY <1>7, <1>8, <1>9, <2>2, <2>4, <3>1
    <3>2. CASE j = a /\ p \in Elements(inbound'[a])
      BY <1>6, <1>7, <1>9, <2>2, <2>4, <3>2
    <3> QED
      BY <1>10, <3>1, <3>2
  <2> QED
    BY <2>3, <2>4
<1>11. \A r \in InTransit' : r \in InTransit
  BY AllIsAt
<1> QED
  BY <1>10, <1>11, FreshStays

LEMMA FreshAccepts ==
  ASSUME OrderInv, NEW n \in 1 .. Last,
         \/ AnswerDuplicate(n)
         \/ n \in Relays /\ StartAdding(n)
         \/ n = Last /\ Deliver /\ NoFault,
         NEW a \in Nodes, NEW p, Fresh(a, p)
  PROVE  (Arrived(p.msg) \/ StillFresh(p.msg))'
<1>0. PICK h : h = Oldest(n)
  OBVIOUS
<1>1. n \in Nodes /\ (n \in Relays => n \in Senders /\ n # Last)
      /\ \A k \in Nodes : k # Last => k \in Senders
  BY NumbersAreNumbers
<1>2. Accepts(n)
  BY DEF AnswerDuplicate, StartAdding, Deliver
<1>3. /\ inbound \in [Nodes -> Seq(Packet)] /\ inbound[n] \in Seq(Packet)
      /\ inbound[n] # <<>> /\ seen \in [Nodes -> SUBSET Uids]
      /\ adding \in [Senders -> AtMostOne] /\ delivered \in Seq(Packet)
  BY <1>1, <1>2 DEF OrderInv, TypeOK, Accepts
<1>4. inbound'[n] = Tail(inbound[n]) /\ \A k \in Nodes : k # n => inbound'[k] = inbound[k]
  BY <1>1, <1>2, <1>3 DEF Accepts
<1>5. Elements(inbound[n]) = {h} \cup Elements(inbound'[n])
  BY <1>0, <1>3, <1>4, AllElements DEF Oldest
<1>6. h \in At(n) /\ p \in At(a)
  BY <1>1, <1>5 DEF At, Fresh
<1>7. CASE p = h /\ a # n
  <2>1. FALSE
    BY <1>1, <1>6, <1>7, FurtherIsOlder
  <2> QED
    BY <2>1
<1>8. CASE AnswerDuplicate(n)
  <2>1. UNCHANGED <<adding, queue, taken, seen>>
    BY <1>8 DEF AnswerDuplicate
  <2>2. \A k \in Nodes : k # n => At(k)' = At(k)
    BY <1>4, <2>1 DEF At
  <2>3. At(n)' \subseteq At(n) /\ At(n) \subseteq {h} \cup At(n)'
    BY <1>5, <2>1 DEF At
  <2>4. CASE p = h /\ a = n
    <3>1. p.uid \notin seen[n]
      BY <1>1, <1>5, <2>4 DEF Fresh
    <3> QED
      BY <1>0, <1>8, <2>4, <3>1 DEF AnswerDuplicate, IsDuplicate
  <2>5. CASE p # h
    BY <1>0, <1>2, <1>6, <2>1, <2>2, <2>3, <2>5, FreshBehind
  <2> QED
    BY <1>7, <2>4, <2>5
<1>9. CASE n \in Relays /\ StartAdding(n)
  <2>1. /\ UNCHANGED <<queue, taken>> /\ adding[n] = <<>> /\ adding'[n] = <<h>>
        /\ \A k \in Senders : k # n => adding'[k] = adding[k]
        /\ seen' = [seen EXCEPT ![n] = @ \cup {h.uid}]
    BY <1>0, <1>1, <1>3, <1>9 DEF StartAdding, Accepts
  <2>2. \A k \in Nodes : k # n => At(k)' = At(k)
    BY <1>1, <1>4, <2>1 DEF At
  <2>3. At(n)' = At(n)
    BY <1>1, <1>5, <1>9, <2>1, FewElements DEF At
  <2>4. CASE p = h /\ a = n
    <3>1. h \in At(n)'
      BY <1>6, <2>3
    <3>2. h \notin Elements(inbound'[n])
      <4>1. Sorted(inbound[n]) /\ h.msg \in Nat
        BY <1>1, <1>6, FurtherIsOlder DEF OrderInv, Tidy
      <4>2. \A m \in Msgs(inbound'[n]) : h.msg < m
        BY <1>0, <1>3, <1>4, <4>1, TailMsgs DEF Oldest
      <4>3. h.msg \notin Msgs(inbound'[n])
        BY <4>1, <4>2
      <4> QED
        BY <4>3 DEF Elements, Msgs
    <3>3. \A j \in Nodes : j # n => seen'[j] = seen[j]
      BY <1>3, <2>1
    <3>4. ASSUME NEW j \in Nodes, j > n \/ (j = n /\ h \in Elements(inbound'[n]))
          PROVE  p.uid \notin seen'[j]
      <4>1. j > n /\ j # n
        BY <1>1, <3>2, <3>4
      <4> QED
        BY <2>4, <3>3, <4>1 DEF Fresh
    <3>5. InTransit' = InTransit
      BY <2>2, <2>3, AllIsAt
    <3> QED
      BY <1>1, <2>4, <3>1, <3>4, <3>5, FreshStays
  <2>5. CASE p # h
    BY <1>0, <1>2, <1>6, <2>1, <2>2, <2>3, <2>5, FreshBehind
  <2> QED
    BY <1>7, <2>4, <2>5
<1>10. CASE n = Last /\ Deliver /\ NoFault
  <2>1. /\ UNCHANGED <<adding, queue, taken>>
        /\ seen' = [seen EXCEPT ![n] = @ \cup {h.uid}]
    BY <1>0, <1>10 DEF Deliver
  <2>2. delivered' = Append(delivered, h)
    <3>1. ~Fault
      BY <1>10, NumbersAreNumbers DEF Fault, NoFault, OrderInv, TypeOK
    <3> QED
      BY <1>0, <1>10, <3>1 DEF Deliver
  <2>3. \A k \in Nodes : k # n => At(k)' = At(k)
    BY <1>4, <2>1 DEF At
  <2>4. At(n)' \subseteq At(n) /\ At(n) \subseteq {h} \cup At(n)'
    BY <1>5, <2>1 DEF At
  <2>5. CASE p = h /\ a = n
    <3>1. /\ Len(delivered) \in Nat /\ DOMAIN delivered' = 1 .. Len(delivered) + 1
          /\ delivered'[Len(delivered) + 1] = h
      BY <1>3, <2>2
    <3>2. Len(delivered) + 1 \in DOMAIN delivered'
      BY <3>1
    <3> QED
      BY <2>5, <3>1, <3>2 DEF Arrived
  <2>6. CASE p # h
    BY <1>0, <1>2, <1>6, <2>1, <2>3, <2>4, <2>6, FreshBehind
  <2> QED
    BY <1>7, <2>5, <2>6
<1> QED
  BY <1>8, <1>9, <1>10
LEMMA FreshSendPacket ==
  ASSUME OrderInv, NEW n \in Senders, SendPacket(n), NoFault,
         NEW a \in Nodes, NEW p, Fresh(a, p)
  PROVE  StillFresh(p.msg)'
<1>1. /\ n \in Nodes /\ n + 1 \in Nodes /\ n < n + 1 /\ n # n + 1 /\ n # Last
      /\ \A k \in Nodes : k # Last => k \in Senders
      /\ \A k \in Nodes : k >= n + 1 => k > n
  BY NumbersAreNumbers
<1>2. /\ taken \in [Senders -> AtMostOne] /\ taken[n] # <<>>
      /\ inbound \in [Nodes -> Seq(Packet)] /\ inbound[n + 1] \in Seq(Packet)
  BY <1>1 DEF OrderInv, TypeOK, SendPacket
<1>3. PICK h : h = Head(taken[n])
  OBVIOUS
<1>4. taken[n] \in Seq(Packet) /\ Elements(taken[n]) = {h}
  <2>1. taken[n] \in Seq(Packet) /\ Len(taken[n]) <= 1
    BY <1>2 DEF AtMostOne
  <2>2. ASSUME NEW s \in Seq(Packet), Len(s) <= 1, s # <<>>
        PROVE  DOMAIN s = {1} /\ Head(s) = s[1]
    <3>1. Len(s) \in Nat /\ DOMAIN s = 1 .. Len(s) /\ Head(s) = s[1]
      BY <2>2
    <3>2. Len(s) # 0
      BY <2>2
    <3>3. Len(s) = 1
      BY <2>2, <3>1, <3>2
    <3> QED
      BY <3>1, <3>3
  <2> QED
    BY <1>2, <1>3, <2>1, <2>2 DEF Elements
<1>5. ~Fault
  BY NumbersAreNumbers DEF Fault, NoFault, OrderInv, TypeOK
<1>6. /\ taken'[n] = <<>> /\ \A k \in Senders : k # n => taken'[k] = taken[k]
      /\ inbound'[n + 1] = inbound[n + 1] \o taken[n]
      /\ \A k \in Nodes : k # n + 1 => inbound'[k] = inbound[k]
      /\ UNCHANGED <<adding, queue, seen>>
  BY <1>1, <1>2, <1>5 DEF SendPacket
<1>7. Elements(inbound'[n + 1]) = Elements(inbound[n + 1]) \cup {h}
      /\ Elements(taken'[n]) = {}
  BY <1>2, <1>4, <1>6, AllElements, FewElements
<1>8. /\ h \in At(n) /\ h \in At(n + 1)' /\ p \in At(a)
      /\ At(n)' \subseteq At(n) /\ At(n) \subseteq At(n)' \cup {h}
  BY <1>1, <1>4, <1>6, <1>7 DEF At, Fresh
<1>9. \A k \in Nodes : k # n => At(k) \subseteq At(k)' /\ At(k)' \subseteq At(k) \cup {h}
  BY <1>1, <1>6, <1>7 DEF At
<1>10. InTransit' \subseteq InTransit
  BY <1>1, <1>8, <1>9, AllIsAt
<1>11. CASE a = n /\ p = h
  <2>1. \A j \in Nodes : j > n + 1 \/ (j = n + 1 /\ h \in Elements(inbound'[n + 1]))
                           => p.uid \notin seen'[j]
    BY <1>1, <1>6, <1>11 DEF Fresh
  <2> QED
    BY <1>1, <1>8, <1>10, <1>11, <2>1, FreshStays
<1>12. CASE ~(a = n /\ p = h)
  <2>1. p \in At(a)'
    BY <1>8, <1>9, <1>12
  <2>2. p \in Elements(inbound'[a]) => p \in Elements(inbound[a])
    <3>1. CASE a = n + 1
      <4>1. p # h
        BY <1>1, <1>8, <3>1, FurtherIsOlder
      <4> QED
        BY <1>7, <3>1, <4>1
    <3>2. CASE a # n + 1
      BY <1>6, <3>2
    <3> QED
      BY <3>1, <3>2
  <2>3. \A j \in Nodes : j > a \/ (j = a /\ p \in Elements(inbound'[a]))
                           => p.uid \notin seen'[j]
    BY <1>6, <2>2 DEF Fresh
  <2> QED
    BY <1>10, <2>1, <2>3, FreshStays
<1> QED
  BY <1>11, <1>12

\* A verification changes the hop count alone.
LEMMA CountedKeeps ==
  ASSUME NEW s \in Seq(Packet), NEW m
  PROVE  /\ \A r \in Elements(Counted(s, m)) :
              \E x \in Elements(s) : x.msg = r.msg /\ x.uid = r.uid
         /\ \A x \in Elements(s) :
              \E r \in Elements(Counted(s, m)) : r.msg = x.msg /\ r.uid = x.uid
<1>1. DOMAIN Counted(s, m) = DOMAIN s
  BY DEF Counted
<1>2. ASSUME NEW i \in DOMAIN s
      PROVE  Counted(s, m)[i].msg = s[i].msg /\ Counted(s, m)[i].uid = s[i].uid
  <2>1. s[i] \in Packet
    BY <1>2, SeqMsgs
  <2>2. Counted(s, m)[i] = IF s[i].msg = m THEN [s[i] EXCEPT !.hops = @ + 1] ELSE s[i]
    BY <1>2 DEF Counted
  <2>3. [s[i] EXCEPT !.hops = @ + 1].msg = s[i].msg
        /\ [s[i] EXCEPT !.hops = @ + 1].uid = s[i].uid
    BY <2>1 DEF Packet
  <2> QED
    BY <2>2, <2>3
<1> QED
  BY <1>1, <1>2 DEF Elements

LEMMA FreshAccept ==
  ASSUME OrderInv, NEW n \in Relays, Accept(n),
         NEW a \in Nodes, NEW p, Fresh(a, p)
  PROVE  StillFresh(p.msg)'
<1>0. PICK v : v = Verified(n).msg
  OBVIOUS
<1>1. n \in Nodes /\ n \in Senders /\ n # Last
      /\ \A k \in Nodes : k # Last => k \in Senders
  BY NumbersAreNumbers
<1>2. /\ taken \in [Senders -> AtMostOne] /\ queue \in [Senders -> Seq(Packet)]
      /\ inbound[n] \in Seq(Packet)
  BY <1>1 DEF OrderInv, TypeOK
<1>3. taken[n] \in Seq(Packet) /\ queue[n] \in Seq(Packet)
  BY <1>1, <1>2, AtMostOneMsgs
<1>4. /\ taken'[n] = Counted(taken[n], v) /\ queue'[n] = Counted(queue[n], v)
      /\ \A k \in Senders : k # n => taken'[k] = taken[k] /\ queue'[k] = queue[k]
      /\ UNCHANGED <<inbound, adding, seen>>
  BY <1>0, <1>1, <1>2 DEF Accept
<1>5. \A k \in Nodes : k # n => At(k)' = At(k)
  BY <1>1, <1>4 DEF At
<1>6. \A r \in At(n)' : \E s \in At(n) : s.msg = r.msg /\ s.uid = r.uid
  <2> SUFFICES ASSUME NEW r \in At(n)'
               PROVE  \E s \in At(n) : s.msg = r.msg /\ s.uid = r.uid
    OBVIOUS
  <2>1. CASE r \in Elements(inbound[n]) \cup Elements(adding[n])
    BY <1>1, <2>1 DEF At
  <2>2. CASE r \in Elements(Counted(queue[n], v))
    <3>1. PICK s \in Elements(queue[n]) : s.msg = r.msg /\ s.uid = r.uid
      BY <1>3, <2>2, CountedKeeps
    <3> QED
      BY <1>1, <3>1 DEF At
  <2>3. CASE r \in Elements(Counted(taken[n], v))
    <3>1. PICK s \in Elements(taken[n]) : s.msg = r.msg /\ s.uid = r.uid
      BY <1>3, <2>3, CountedKeeps
    <3> QED
      BY <1>1, <3>1 DEF At
  <2> QED
    BY <1>1, <1>4, <2>1, <2>2, <2>3 DEF At
<1>7. \A r \in InTransit' : \E s \in InTransit : s.msg = r.msg /\ s.uid = r.uid
  BY <1>1, <1>5, <1>6, AllIsAt
<1>8. CASE p \in At(a)'
  <2>1. \A j \in Nodes : j > a \/ (j = a /\ p \in Elements(inbound'[a]))
                           => p.uid \notin seen'[j]
    BY <1>4 DEF Fresh
  <2> QED
    BY <1>7, <1>8, <2>1, FreshStays
<1>9. CASE p \notin At(a)'
  <2>1. a = n /\ p \in Elements(queue[n]) \cup Elements(taken[n])
    BY <1>1, <1>4, <1>5, <1>9 DEF At, Fresh
  <2>2. PICK q \in At(n)' : q.msg = p.msg /\ q.uid = p.uid
    <3>1. CASE p \in Elements(queue[n])
      <4>1. PICK q \in Elements(Counted(queue[n], v)) : q.msg = p.msg /\ q.uid = p.uid
        BY <1>3, <3>1, CountedKeeps
      <4> QED
        BY <1>1, <1>4, <4>1 DEF At
    <3>2. CASE p \in Elements(taken[n])
      <4>1. PICK q \in Elements(Counted(taken[n], v)) : q.msg = p.msg /\ q.uid = p.uid
        BY <1>3, <3>2, CountedKeeps
      <4> QED
        BY <1>1, <1>4, <4>1 DEF At
    <3> QED
      BY <2>1, <3>1, <3>2
  <2>3. q \notin Elements(inbound'[n])
    <3>1. p.msg \in Msgs(queue[n]) \cup Msgs(taken[n])
      BY <2>1 DEF Elements, Msgs
    <3>2. \A m \in Msgs(inbound[n]) : p.msg < m /\ m \in Nat
      BY <1>1, <1>2, <3>1, SeqMsgs DEF OrderInv, Tidy, Below
    <3>3. q \in Elements(inbound'[n]) => p.msg \in Msgs(inbound[n])
      BY <1>4, <2>2 DEF Elements, Msgs
    <3> QED
      BY <3>2, <3>3
  <2>4. \A j \in Nodes : j > n \/ (j = n /\ q \in Elements(inbound'[n]))
                           => p.uid \notin seen'[j]
    BY <1>4, <2>1, <2>3 DEF Fresh
  <2> QED
    BY <1>1, <1>7, <2>1, <2>2, <2>4, FreshStays
<1> QED
  BY <1>8, <1>9

LEMMA FreshReceive ==
  ASSUME OrderInv, NEW real \in BOOLEAN, Receive(real),
         NEW a \in Nodes, NEW p, Fresh(a, p)
  PROVE  StillFresh(p.msg)'
<1> DEFINE d == [msg |-> sent', uid |-> nextUid, real |-> real, hops |-> 0]
<1>1. 0 \in Nodes /\ 0 \in Senders /\ 0 # Last
      /\ \A k \in Nodes : (k # Last => k \in Senders) /\ (k # 0 => k > 0) /\ ~(0 > k)
  BY NumbersAreNumbers
<1>2. /\ adding \in [Senders -> AtMostOne] /\ seen \in [Nodes -> SUBSET Uids]
      /\ sent \in Nat /\ inbound[0] = <<>>
  <2>1. adding \in [Senders -> AtMostOne] /\ seen \in [Nodes -> SUBSET Uids]
    BY DEF OrderInv, TypeOK
  <2>2. sent \in Nat
    BY NumbersAreNumbers DEF OrderInv, TypeOK
  <2>3. inbound[0] = <<>>
    BY <1>1 DEF OrderInv, Tidy
  <2> QED
    BY <2>1, <2>2, <2>3
<1>3. adding'[0] = <<d>> /\ adding[0] = <<>>
      /\ \A k \in Senders : k # 0 => adding'[k] = adding[k]
  BY <1>1, <1>2 DEF Receive
<1>4. d.msg = sent + 1
  BY DEF Receive
<1> HIDE DEF d
<1>5. /\ UNCHANGED <<queue, taken, inbound>>
      /\ \A k \in Nodes : k # 0 => seen'[k] = seen[k]
  BY <1>1, <1>2 DEF Receive
<1>6. \A k \in Nodes : k # 0 => At(k)' = At(k)
  BY <1>1, <1>3, <1>5 DEF At
<1>7. At(0)' = At(0) \cup {d}
  BY <1>1, <1>3, <1>5, FewElements DEF At
<1>8. p \in At(a)' /\ p \in At(a)
  BY <1>1, <1>6, <1>7 DEF Fresh
<1>9. p.msg \in Nat /\ p.msg <= sent
  BY <1>8, FurtherIsOlder, AllIsAt DEF OrderInv
<1>10. \A r \in InTransit' : r = d \/ r \in InTransit
  BY <1>1, <1>6, <1>7, AllIsAt
<1>11. \A r \in InTransit' : r.msg < p.msg => r.uid # p.uid
  <2>1. ~(d.msg < p.msg)
    BY <1>2, <1>4, <1>9
  <2> QED
    BY <1>10, <2>1 DEF Fresh
<1>12. ASSUME NEW j \in Nodes, j > a \/ (j = a /\ p \in Elements(inbound'[a]))
       PROVE  p.uid \notin seen'[j]
  <2>1. j # 0
    BY <1>1, <1>2, <1>5, <1>12, FewElements
  <2> QED
    BY <1>5, <1>12, <2>1 DEF Fresh
<1>13. Fresh(a, p)'
  BY <1>8, <1>11, <1>12 DEF Fresh
<1> QED
  BY <1>8, <1>13 DEF StillFresh

LEMMA FreshStep ==
  ASSUME OrderInv, [Next]_vars, UNCHANGED faults,
         NEW a \in Nodes, NEW p, Fresh(a, p)
  PROVE  (Arrived(p.msg) \/ StillFresh(p.msg))'
<1>0. ~Fault /\ NoFault
  BY NumbersAreNumbers DEF Fault, NoFault, OrderInv, TypeOK
<1>1. ASSUME NEW real \in BOOLEAN, Receive(real) PROVE StillFresh(p.msg)'
  BY <1>1, FreshReceive
<1>2. ASSUME NEW n \in Senders, Put(n) PROVE StillFresh(p.msg)'
  <2>1. \A k \in Nodes : k # Last => k \in Senders
    BY NumbersAreNumbers
  <2>2. /\ adding \in [Senders -> AtMostOne] /\ queue \in [Senders -> Seq(Packet)]
        /\ adding[n] \in Seq(Packet) /\ queue[n] \in Seq(Packet)
    BY DEF OrderInv, TypeOK, AtMostOne
  <2>3. /\ adding'[n] = <<>> /\ queue'[n] = queue[n] \o adding[n]
        /\ \A k \in Senders : k # n => adding'[k] = adding[k] /\ queue'[k] = queue[k]
        /\ UNCHANGED <<inbound, taken, seen>>
    BY <1>2, <2>2 DEF Put
  <2>4. Elements(queue'[n]) = Elements(queue[n]) \cup Elements(adding[n])
        /\ Elements(adding'[n]) = {}
    BY <2>2, <2>3, AllElements, FewElements
  <2>5. \A k \in Nodes : At(k)' = At(k)
    BY <2>1, <2>3, <2>4 DEF At
  <2> QED
    BY <2>3, <2>5, FreshQuiet
<1>3. ASSUME NEW n \in 1 .. Last, ReceivingThread(n)
      PROVE  (Arrived(p.msg) \/ StillFresh(p.msg))'
  <2>1. n \in Relays => n \in Senders
    BY NumbersAreNumbers
  <2>2. CASE ReadTorn(n)
    BY <1>0, <2>2 DEF ReadTorn
  <2>3. CASE n \in Relays /\ Reject(n)
    <3>1. UNCHANGED <<inbound, adding, queue, taken, seen>>
      BY <2>3 DEF Reject
    <3>2. \A k \in Nodes : At(k)' = At(k)
      BY <3>1 DEF At
    <3> QED
      BY <3>1, <3>2, FreshQuiet
  <2> QED
    BY <1>0, <1>2, <1>3, <2>1, <2>2, <2>3, FreshAccepts, FreshAccept DEF ReceivingThread
<1>4. ASSUME NEW n \in Senders, TakePacket(n) PROVE StillFresh(p.msg)'
  <2>1. \A k \in Nodes : k # Last => k \in Senders
    BY NumbersAreNumbers
  <2>2. /\ taken \in [Senders -> AtMostOne] /\ queue \in [Senders -> Seq(Packet)]
        /\ queue[n] \in Seq(Packet) /\ queue[n] # <<>> /\ taken[n] = <<>>
    BY <1>4 DEF OrderInv, TypeOK, TakePacket
  <2>3. /\ taken'[n] = <<Head(queue[n])>> /\ queue'[n] = Tail(queue[n])
        /\ \A k \in Senders : k # n => taken'[k] = taken[k] /\ queue'[k] = queue[k]
        /\ UNCHANGED <<inbound, adding, seen>>
    BY <1>4, <2>2 DEF TakePacket
  <2>4. /\ Elements(queue[n]) = Elements(taken'[n]) \cup Elements(queue'[n])
        /\ Elements(taken[n]) = {}
    BY <2>2, <2>3, AllElements, FewElements
  <2>5. \A k \in Nodes : At(k)' = At(k)
    BY <2>1, <2>3, <2>4 DEF At
  <2> QED
    BY <2>3, <2>5, FreshQuiet
<1>5. ASSUME NEW n \in Senders, SendPacket(n) PROVE StillFresh(p.msg)'
  BY <1>0, <1>5, FreshSendPacket
<1>6. ASSUME NEW n \in Nodes, Restart(n) PROVE FALSE
  BY <1>0, <1>6 DEF Restart
<1>7. CASE UNCHANGED vars
  <2>1. UNCHANGED <<inbound, adding, queue, taken, seen>>
    BY <1>7 DEF vars
  <2>2. \A k \in Nodes : At(k)' = At(k)
    BY <2>1 DEF At
  <2> QED
    BY <2>1, <2>2, FreshQuiet
<1>8. CASE Next
  BY <1>1, <1>2, <1>3, <1>4, <1>5, <1>6, <1>8, NumbersAreNumbers DEF Next, ForwardingThread
<1> QED
  BY <1>7, <1>8

(* As long as nothing fails, a packet with a number that is new to the nodes   *)
(* before it is kept by one of them until it is delivered: no repeater's      *)
(* memory of another packet and no full queue loses it.  Nor does a verdict:  *)
(* that a rejected packet is kept too is what RejectedIsDropped refutes.      *)
THEOREM FreshPacketsAreKept == Spec => FreshIsKept
<1> DEFINE Step == \A m \in Messages : StillFresh(m) /\ faults' = faults
                                         => (Arrived(m) \/ StillFresh(m))'
<1>1. OrderInv /\ [Next]_vars => Step
  <2> SUFFICES ASSUME OrderInv, [Next]_vars, NEW m \in Messages, StillFresh(m),
                      faults' = faults
               PROVE  (Arrived(m) \/ StillFresh(m))'
    OBVIOUS
  <2>1. PICK a \in Nodes : \E p \in At(a) : p.msg = m /\ Fresh(a, p)
    BY DEF StillFresh
  <2>2. PICK p \in At(a) : p.msg = m /\ Fresh(a, p)
    BY <2>1
  <2>3. (Arrived(p.msg) \/ StillFresh(p.msg))'
    BY <2>2, FreshStep
  <2> QED
    BY <2>2, <2>3
<1>2. OrderInv /\ [Next]_vars => OrderInv'
  BY OrderStep
<1> HIDE DEF Step
<1>3. Spec => [][Step]_vars
  BY <1>1, <1>2, OrderInit, PTL DEF Spec
<1> QED
  BY <1>3, PTL DEF FreshIsKept, Step
=============================================================================
