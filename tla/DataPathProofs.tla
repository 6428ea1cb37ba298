--------------------------- MODULE DataPathProofs ---------------------------
(* Proofs about DataPath, for a line of any length and any bounds. *)
EXTENDS DataPath, SequenceTheorems, TLAPS

LEMMA Prefixes ==
  ASSUME NEW c \in Chain, NEW k \in 0 .. Len(c)
  PROVE  /\ SubSeq(c, 1, k) \in Chain
         /\ Len(SubSeq(c, 1, k)) = k
         /\ \A i \in 1 .. k : SubSeq(c, 1, k)[i] = c[i]
<1>1. \A i \in 1 .. k : c[i] \in SUBSET Sessions
  BY DEF Chain
<1> QED
  BY <1>1, SubSeqProperties DEF Chain

LEMMA SessionsOfChain ==
  ASSUME NEW c \in Chain
  PROVE  SessionsOf(c) \subseteq Sessions
BY DEF Chain, SessionsOf

THEOREM TypeCorrect == Spec => []TypeOK
<1> USE HopsAssumption, BoundsAssumption DEF Nodes, Sessions, Packet, None, Chain
<1>1. Init => TypeOK
  BY DEF Init, TypeOK
<1>2. TypeOK /\ [Next]_vars => TypeOK'
  <2> SUFFICES ASSUME TypeOK, [Next]_vars PROVE TypeOK'
    OBVIOUS
  <2> USE DEF TypeOK, Fault, NoFault
  <2>1. CASE Choose
    BY <2>1 DEF Choose, Usable
  <2>2. CASE Establish
    <3>1. /\ count' \in 0 .. MaxSessions /\ count' = count + 1
          /\ active' \subseteq 1 .. count'
          /\ using' \in active'
          /\ expired' \subseteq 1 .. count'
      BY <2>2 DEF Establish
    <3>2. CASE Finalised(count')
      <4>1. blocks' = Append(blocks, pending \cup {count'})
        BY <3>2 DEF Finalised
      <4>6. pending \cup {count'} \in SUBSET Sessions
        <5>1. /\ count \in 0 .. MaxSessions /\ pending \subseteq 1 .. count
              /\ count' \in 1 .. MaxSessions
          BY <3>1
        <5>2. 1 .. count \subseteq 1 .. MaxSessions
          BY <5>1
        <5> HIDE DEF TypeOK, Nodes, Chain, Packet
        <5> QED
          BY <5>1, <5>2
      <4>2. blocks' \in Chain
        BY <4>1, <4>6
      <4>3. UNCHANGED <<chain, learned, nextSeq, flying, delivered>>
        BY <2>2 DEF Establish
      <4>4. announced' \subseteq Nodes \X Chain
        <5>1. PICK reached \in SUBSET Nodes :
                announced' = announced \cup (reached \X {blocks'})
          BY <3>2 DEF Finalised
        <5>2. announced \subseteq Nodes \X Chain
          OBVIOUS
        <5> HIDE DEF Nodes, TypeOK, Chain
        <5> QED
          BY <4>2, <5>1, <5>2
      <4>5. pending' \subseteq 1 .. count' /\ faults' \in 0 .. MaxFaults
        BY <3>1, <3>2 DEF Finalised
      <4> QED
        BY <3>1, <4>2, <4>3, <4>4, <4>5
    <3>3. CASE LocalOnly(count')
      <4>1. pending' \subseteq 1 .. count' /\ faults' \in 0 .. MaxFaults
        BY <3>1, <3>3 DEF LocalOnly
      <4>2. UNCHANGED <<blocks, announced, chain, learned, flying, delivered>>
        BY <2>2, <3>3 DEF Establish, LocalOnly
      <4> QED
        BY <2>2, <3>1, <4>1, <4>2 DEF Establish
    <3> QED
      BY <2>2, <3>2, <3>3 DEF Establish
  <2>3. CASE ForwardPacket
    <3>1. using \in Sessions
      <4>1. using \in active
        BY <2>3 DEF ForwardPacket
      <4>2. count \in 0 .. MaxSessions /\ active \subseteq 1 .. count
        BY DEF TypeOK
      <4> HIDE DEF TypeOK
      <4> QED
        BY <4>1, <4>2
    <3>4. nextSeq[using] \in 0 .. MaxPackets - 1
      BY <2>3, <3>1 DEF ForwardPacket
    <3>2. nextSeq' \in [Sessions -> 0 .. MaxPackets]
      BY <2>3, <3>1 DEF ForwardPacket
    <3>3. flying' \subseteq Nodes \X Packet
      <4>1. <<1, <<using, nextSeq[using]>>>> \in Nodes \X Packet
        BY <3>1, <3>4
      <4> HIDE DEF Packet
      <4> QED
        BY <2>3, <4>1 DEF ForwardPacket
    <3>5. faults' \in 0 .. MaxFaults
      BY <2>3 DEF ForwardPacket
    <3>6. /\ using' = None
          /\ UNCHANGED <<count, pending, blocks, active, expired, chain, learned, announced, delivered>>
      BY <2>3 DEF ForwardPacket
    <3> HIDE DEF Packet, Nodes
    <3> QED
      BY <3>2, <3>3, <3>5, <3>6
  <2>4. CASE ProducerRestart
    BY <2>4 DEF ProducerRestart
  <2>12. CASE CrashInSave
    <3>1. /\ count' \in 0 .. MaxSessions /\ count' = count + 1
          /\ pending \cup {count'} \in SUBSET Sessions
      BY <2>12 DEF CrashInSave
    <3>2. Append(blocks, pending \cup {count'}) \in Chain /\ <<>> \in Chain
      BY <3>1
    <3>3. blocks' \in Chain
      BY <2>12, <3>2 DEF CrashInSave
    <3>4. /\ pending' \subseteq 1 .. count' /\ active' \subseteq 1 .. count'
          /\ using' \in {None} \cup active' /\ expired' \subseteq 1 .. count'
          /\ nextSeq' \in [Sessions -> 0 .. MaxPackets] /\ faults' \in 0 .. MaxFaults
      BY <2>12, <3>1 DEF CrashInSave
    <3>5. UNCHANGED <<chain, learned, announced, flying, delivered>>
      BY <2>12 DEF CrashInSave
    <3> QED
      BY <3>1, <3>3, <3>4, <3>5
  <2>5. ASSUME NEW s \in Sessions, Expire(s) PROVE TypeOK'
    BY <2>5 DEF Expire
  <2>6. ASSUME NEW n \in Nodes, NEW a \in announced, LearnBlock(n, a[2])
        PROVE  TypeOK'
    <3>1. a[2] \in Chain
      BY DEF TypeOK
    <3> HIDE DEF Chain, Sessions
    <3>2. chain' \in [Nodes -> Chain]
      BY <2>6, <3>1 DEF LearnBlock
    <3>3. SessionsOf(chain'[n]) \subseteq Sessions
      BY <3>2, SessionsOfChain
    <3>4. learned' \in [Nodes -> SUBSET Sessions]
      BY <2>6, <3>3 DEF LearnBlock
    <3>5. announced' \subseteq Nodes \X Chain
      BY <2>6 DEF LearnBlock
    <3> QED
      BY <2>6, <3>2, <3>4, <3>5 DEF LearnBlock
  <2>7. ASSUME NEW n \in Nodes, NEW p \in Packet, Refuse(n, p) PROVE TypeOK'
    BY <2>7 DEF Refuse
  <2>8. ASSUME NEW n \in Nodes, NEW p \in Packet, Forward(n, p) PROVE TypeOK'
    <3>1. n + 1 \in Nodes
      BY <2>8 DEF Forward
    <3>2. <<n + 1, p>> \in Nodes \X Packet
      BY <3>1
    <3> HIDE DEF Packet, Nodes
    <3>3. flying' \subseteq Nodes \X Packet
      BY <2>8, <3>2 DEF Forward
    <3>4. faults' \in 0 .. MaxFaults
      BY <2>8 DEF Forward
    <3> QED
      BY <2>8, <3>3, <3>4 DEF Forward
  <2>9. ASSUME NEW p \in Packet, Deliver(p) PROVE TypeOK'
    <3> HIDE DEF Packet, Nodes, Sessions
    <3>1. delivered' \in Seq(Packet)
      BY <2>9 DEF Deliver
    <3>2. flying' \subseteq Nodes \X Packet
      BY <2>9 DEF Deliver
    <3> QED
      BY <2>9, <3>1, <3>2 DEF Deliver
  <2>10. ASSUME NEW n \in Nodes, NodeRestart(n) PROVE TypeOK'
    <3>1. PICK k \in 0 .. Len(chain[n]) :
            chain' = [chain EXCEPT ![n] = SubSeq(chain[n], 1, k)]
      BY <2>10 DEF NodeRestart
    <3> HIDE DEF Chain, Sessions
    <3>2. chain[n] \in Chain
      OBVIOUS
    <3>3. SubSeq(chain[n], 1, k) \in Chain
      BY <3>1, <3>2, Prefixes
    <3>4. chain' \in [Nodes -> Chain]
      BY <3>1, <3>3
    <3>5. announced' \subseteq Nodes \X Chain /\ flying' \subseteq Nodes \X Packet
      BY <2>10 DEF NodeRestart
    <3>6. faults' \in 0 .. MaxFaults
      BY <2>10 DEF NodeRestart
    <3> QED
      BY <2>10, <3>4, <3>5, <3>6 DEF NodeRestart
  <2>11. CASE UNCHANGED vars
    BY <2>11 DEF vars
  <2> QED
    BY <2>1, <2>2, <2>3, <2>4, <2>5, <2>6, <2>7, <2>8, <2>9, <2>10, <2>11, <2>12
       DEF Next, Handle
<1> QED
  BY <1>1, <1>2, PTL DEF Spec
-----------------------------------------------------------------------------
\* The conjuncts of TypeOK these proofs use most.
LEMMA ChainTypes ==
  ASSUME TypeOK, NEW n \in Nodes
  PROVE  chain[n] \in Chain /\ learned[n] \subseteq Sessions
BY DEF TypeOK

(* Without a fault a node forgets nothing: its chain is extended or stays.   *)
LEMMA KnowledgeGrows ==
  ASSUME TypeOK, [Next]_vars, faults' = faults, NEW n \in Nodes, NEW s, Knows(n, s)
  PROVE  Knows(n, s)'
<1>1. CASE UNCHANGED chain
  BY <1>1 DEF Knows
<1>2. ASSUME NEW m \in Nodes, NEW a \in announced, LearnBlock(m, a[2])
      PROVE  Knows(n, s)'
  <2> DEFINE c == a[2]
  <2>1. CASE chain[m] = SubSeq(c, 1, Len(c) - 1) /\ m = n
    <3>1. chain'[n] = c /\ c \in Chain
      BY <1>2, <2>1 DEF LearnBlock, TypeOK
    <3> HIDE DEF c
    <3>2. PICK k \in 1 .. Len(chain[n]) : s \in chain[n][k]
      BY DEF Knows, SessionsOf
    <3>3. Len(c) \in Nat
      BY <3>1 DEF Chain
    <3>4. k \in 1 .. Len(c) /\ chain[n][k] = c[k]
      <4>1. chain[n] = SubSeq(c, 1, Len(c) - 1)
        BY <2>1
      <4>2. CASE Len(c) = 0
        <5>1. Len(SubSeq(c, 1, Len(c) - 1)) = 0
          BY <3>1, <4>2, SubSeqProperties DEF Chain
        <5> QED
          BY <3>2, <4>1, <5>1
      <4>3. CASE Len(c) # 0
        <5>1. Len(c) - 1 \in 0 .. Len(c)
          BY <3>3, <4>3
        <5>2. /\ Len(SubSeq(c, 1, Len(c) - 1)) = Len(c) - 1
              /\ \A i \in 1 .. Len(c) - 1 : SubSeq(c, 1, Len(c) - 1)[i] = c[i]
          BY <3>1, <5>1, Prefixes
        <5>3. k \in 1 .. Len(c) - 1
          BY <3>2, <4>1, <5>2
        <5> QED
          BY <3>3, <4>1, <5>2, <5>3
      <4> QED
        BY <4>2, <4>3
    <3> QED
      BY <3>1, <3>2, <3>4 DEF Knows, SessionsOf
  <2>2. CASE ~(chain[m] = SubSeq(c, 1, Len(c) - 1) /\ m = n)
    <3>1. chain'[n] = chain[n]
      BY <1>2, <2>2 DEF LearnBlock, TypeOK
    <3> QED
      BY <3>1 DEF Knows
  <2> QED
    BY <2>1, <2>2
<1>3. CASE Choose \/ Establish \/ ForwardPacket \/ ProducerRestart \/ CrashInSave
           \/ UNCHANGED vars
  BY <1>1, <1>3
  DEF Choose, Establish, ForwardPacket, ProducerRestart, CrashInSave, vars
<1>4. CASE \E t \in Sessions : Expire(t)
  BY <1>1, <1>4 DEF Expire
<1>5. CASE \E m \in Nodes, p \in Packet : Refuse(m, p) \/ Forward(m, p) \/ Deliver(p)
  BY <1>1, <1>5 DEF Refuse, Forward, Deliver
<1>6. ~ \E m \in Nodes : NodeRestart(m)
  BY BoundsAssumption DEF NodeRestart, Fault, TypeOK
<1> QED
  BY <1>2, <1>3, <1>4, <1>5, <1>6 DEF Next, Handle

(* What a node knows it has learned, and what it has learned once stays in    *)
(* the history when a restart takes it from the chain.                       *)
LearnedInv == \A n \in Nodes : SessionsOf(chain[n]) \subseteq learned[n]

LEMMA PrefixSessions ==
  ASSUME NEW c \in Chain, NEW k \in 0 .. Len(c)
  PROVE  SessionsOf(SubSeq(c, 1, k)) \subseteq SessionsOf(c)
<1>1. 1 .. k \subseteq 1 .. Len(c)
  BY DEF Chain
<1> QED
  BY <1>1, Prefixes DEF SessionsOf

LEMMA LearnedStep ==
  ASSUME TypeOK, LearnedInv, [Next]_vars
  PROVE  LearnedInv' /\ \A n \in Nodes : learned[n] \subseteq learned'[n]
<1> USE DEF LearnedInv
<1>1. CASE UNCHANGED <<chain, learned>>
  BY <1>1
<1>2. ASSUME NEW m \in Nodes, NEW a \in announced, LearnBlock(m, a[2])
      PROVE  LearnedInv' /\ \A n \in Nodes : learned[n] \subseteq learned'[n]
  <2>1. \A n \in Nodes \ {m} : chain'[n] = chain[n] /\ learned'[n] = learned[n]
    BY <1>2 DEF LearnBlock, TypeOK
  <2>2. learned'[m] = learned[m] \cup SessionsOf(chain'[m])
    BY <1>2 DEF LearnBlock, TypeOK
  <2> QED
    BY <2>1, <2>2
<1>3. ASSUME NEW m \in Nodes, NodeRestart(m)
      PROVE  LearnedInv' /\ \A n \in Nodes : learned[n] \subseteq learned'[n]
  <2>1. PICK k \in 0 .. Len(chain[m]) :
          chain' = [chain EXCEPT ![m] = SubSeq(chain[m], 1, k)]
    BY <1>3 DEF NodeRestart
  <2>2. SessionsOf(SubSeq(chain[m], 1, k)) \subseteq SessionsOf(chain[m])
    BY <2>1, ChainTypes, PrefixSessions
  <2>3. learned' = learned
    BY <1>3 DEF NodeRestart
  <2>4. chain'[m] = SubSeq(chain[m], 1, k) /\ \A n \in Nodes \ {m} : chain'[n] = chain[n]
    BY <2>1 DEF TypeOK
  <2> QED
    BY <2>2, <2>3, <2>4
<1>4. CASE Choose \/ Establish \/ ForwardPacket \/ ProducerRestart \/ CrashInSave
           \/ UNCHANGED vars
  BY <1>1, <1>4
  DEF Choose, Establish, ForwardPacket, ProducerRestart, CrashInSave, vars
<1>5. CASE \E t \in Sessions : Expire(t)
  BY <1>1, <1>5 DEF Expire
<1>6. CASE \E m \in Nodes, p \in Packet : Refuse(m, p) \/ Forward(m, p) \/ Deliver(p)
  BY <1>1, <1>6 DEF Refuse, Forward, Deliver
<1> QED
  BY <1>2, <1>3, <1>4, <1>5, <1>6 DEF Next, Handle
-----------------------------------------------------------------------------
(* Every node before n has learned the session of what is in the hands of n. *)
LearnedBefore ==
  /\ \A n \in Nodes, p \in Packet : Arrived(n, p) =>
       \A m \in Nodes : m < n => p[1] \in learned[m]
  /\ \A p \in Packet : p \in Delivered => \A m \in Nodes : p[1] \in learned[m]

KnownInv == LearnedInv /\ LearnedBefore

(* What a step does to the packets: none, a new one at node 1, one less, one *)
(* further on, or one delivered.                                             *)
LEMMA PacketSteps ==
  ASSUME TypeOK, [Next]_vars
  PROVE  \/ UNCHANGED <<flying, delivered>>
         \/ /\ using # None /\ nextSeq[using] < MaxPackets
            /\ flying' = flying \cup {<<1, <<using, nextSeq[using]>>>>}
            /\ delivered' = delivered /\ ForwardPacket
         \/ flying' \subseteq flying /\ delivered' = delivered
         \/ \E n \in Nodes, p \in Packet :
              /\ n + 1 \in Nodes /\ Arrived(n, p) /\ Knows(n, p[1])
              /\ flying' = (flying \ {<<n, p>>}) \cup {<<n + 1, p>>}
              /\ delivered' = delivered /\ UNCHANGED <<count, active, nextSeq>>
         \/ \E p \in Packet :
              /\ Arrived(Hops, p) /\ Knows(Hops, p[1])
              /\ flying' = flying \ {<<Hops, p>>}
              /\ delivered' = Append(delivered, p)
              /\ UNCHANGED <<count, active, nextSeq>>
<1>1. CASE Choose \/ Establish \/ ProducerRestart \/ CrashInSave \/ UNCHANGED vars
  BY <1>1 DEF Choose, Establish, ProducerRestart, CrashInSave, vars
<1>2. CASE ForwardPacket
  BY <1>2 DEF ForwardPacket
<1>3. CASE \/ \E s \in Sessions : Expire(s)
           \/ \E n \in Nodes : \E a \in announced : LearnBlock(n, a[2])
  BY <1>3 DEF Expire, LearnBlock
<1>4. CASE \E n \in Nodes : NodeRestart(n)
  BY <1>4 DEF NodeRestart
<1>5. ASSUME NEW n \in Nodes, NEW p \in Packet, Refuse(n, p)
      PROVE  flying' \subseteq flying /\ delivered' = delivered
  BY <1>5 DEF Refuse
<1>6. ASSUME NEW n \in Nodes, NEW p \in Packet, Forward(n, p)
      PROVE  \/ flying' \subseteq flying /\ delivered' = delivered
             \/ /\ n + 1 \in Nodes /\ Arrived(n, p) /\ Knows(n, p[1])
                /\ flying' = (flying \ {<<n, p>>}) \cup {<<n + 1, p>>}
                /\ delivered' = delivered /\ UNCHANGED <<count, active, nextSeq>>
  <2>1. n + 1 \in Nodes
    BY <1>6, HopsAssumption DEF Forward, Nodes
  <2> QED
    BY <1>6, <2>1 DEF Forward, Refused
<1>7. ASSUME NEW p \in Packet, Deliver(p)
      PROVE  /\ Arrived(Hops, p) /\ Knows(Hops, p[1])
             /\ flying' = flying \ {<<Hops, p>>}
             /\ delivered' = Append(delivered, p)
             /\ UNCHANGED <<count, active, nextSeq>>
  BY <1>7 DEF Deliver, Refused
<1> QED
  BY <1>1, <1>2, <1>3, <1>4, <1>5, <1>6, <1>7 DEF Next, Handle

LEMMA DeliveredAppend ==
  ASSUME TypeOK, NEW p \in Packet, delivered' = Append(delivered, p)
  PROVE  Delivered' = Delivered \cup {p}
BY DEF Delivered, TypeOK

LEMMA KnownStep == TypeOK /\ KnownInv /\ [Next]_vars => KnownInv'
<1> SUFFICES ASSUME TypeOK, LearnedInv, LearnedBefore, [Next]_vars
             PROVE  LearnedInv' /\ LearnedBefore'
  BY DEF KnownInv
<1> SUFFICES LearnedBefore'
  BY LearnedStep
<1>1. \A m \in Nodes : learned[m] \subseteq learned'[m]
  BY LearnedStep
<1>2. \A m \in Nodes, p \in Packet : Knows(m, p[1]) => p[1] \in learned[m]
  BY DEF LearnedInv, Knows
<1> USE DEF LearnedBefore, Arrived
<1>3. ASSUME flying' \subseteq flying, delivered' = delivered PROVE LearnedBefore'
  BY <1>1, <1>3 DEF Delivered
<1>4. CASE /\ flying' = flying \cup {<<1, <<using, nextSeq[using]>>>>}
           /\ delivered' = delivered
  <2>1. \A m \in Nodes : ~(m < 1)
    BY DEF Nodes
  <2> QED
    BY <1>1, <1>4, <2>1 DEF Delivered
<1>5. ASSUME NEW n \in Nodes, NEW p \in Packet, n + 1 \in Nodes,
             Arrived(n, p), Knows(n, p[1]), delivered' = delivered,
             flying' = (flying \ {<<n, p>>}) \cup {<<n + 1, p>>}
      PROVE  LearnedBefore'
  <2>1. \A m \in Nodes : m < n + 1 => p[1] \in learned'[m]
    <3>1. \A m \in Nodes : m < n + 1 => m < n \/ m = n
      BY DEF Nodes
    <3> QED
      BY <1>1, <1>2, <1>5, <3>1
  <2> QED
    BY <1>1, <1>5, <2>1 DEF Delivered
<1>6. ASSUME NEW p \in Packet, Arrived(Hops, p), Knows(Hops, p[1]),
             flying' = flying \ {<<Hops, p>>}, delivered' = Append(delivered, p)
      PROVE  LearnedBefore'
  <2>1. \A m \in Nodes : p[1] \in learned'[m]
    <3>1. Hops \in Nodes /\ \A m \in Nodes : m < Hops \/ m = Hops
      BY HopsAssumption DEF Nodes
    <3> QED
      BY <1>1, <1>2, <1>6, <3>1
  <2>2. Delivered' = Delivered \cup {p}
    BY <1>6, DeliveredAppend
  <2> QED
    BY <1>1, <1>6, <2>1, <2>2
<1> QED
  BY <1>3, <1>4, <1>5, <1>6, PacketSteps

(* RadioB is sent nothing that some hop has never had on its chain.          *)
THEOREM DeliveryIsVerifiedEverywhere == Spec => []DeliveredIsKnown
<1>1. Init => KnownInv
  BY DEF Init, KnownInv, LearnedInv, LearnedBefore, SessionsOf, Arrived, Delivered
<1>2. TypeOK /\ KnownInv => DeliveredIsKnown
  <2>1. TypeOK => \A p \in Delivered : p \in Packet
    BY DEF Delivered, TypeOK
  <2> QED
    BY <2>1 DEF KnownInv, LearnedBefore, DeliveredIsKnown
<1> QED
  BY <1>1, <1>2, KnownStep, TypeCorrect, PTL DEF Spec
-----------------------------------------------------------------------------
(* Every packet is in one place, and the numbers a session will still use    *)
(* are larger than those of its packets.                                     *)
Numbered(p) == p[1] <= count /\ (p[1] \in active => p[2] < nextSeq[p[1]])

OnceInv ==
  /\ \A n \in Nodes, p \in Packet : Arrived(n, p) => Numbered(p) /\ p \notin Delivered
  /\ \A m, n \in Nodes, p \in Packet : Arrived(m, p) /\ Arrived(n, p) => m = n
  /\ \A p \in Packet : p \in Delivered => Numbered(p)
  /\ DeliveredOnce

LEMMA NumberedStep ==
  ASSUME TypeOK, [Next]_vars, NEW p \in Packet, Numbered(p)
  PROVE  Numbered(p)'
<1> USE DEF Numbered, TypeOK
<1>1. p[1] \in Sessions /\ p[2] \in Nat
  BY BoundsAssumption DEF Packet
<1>2. CASE UNCHANGED <<count, active, nextSeq>>
  BY <1>2
<1>3. CASE Establish
  BY <1>1, <1>3, BoundsAssumption DEF Establish, Sessions
<1>4. CASE ProducerRestart \/ CrashInSave
  BY <1>1, <1>4, BoundsAssumption DEF ProducerRestart, CrashInSave, Sessions
<1>5. CASE ForwardPacket
  <2>1. using \in Sessions
    BY <1>5, BoundsAssumption DEF ForwardPacket, None, Sessions
  <2>2. nextSeq'[p[1]] \in Nat /\ nextSeq'[p[1]] >= nextSeq[p[1]]
        /\ nextSeq[p[1]] \in Nat
    BY <1>1, <1>5, <2>1, BoundsAssumption DEF ForwardPacket
  <2> QED
    BY <1>1, <1>5, <2>2 DEF ForwardPacket
<1>6. CASE \E s \in Sessions : Expire(s)
  BY <1>2, <1>6 DEF Expire
<1>7. CASE \E n \in Nodes : \/ NodeRestart(n)
                            \/ \E a \in announced : LearnBlock(n, a[2])
  BY <1>2, <1>7 DEF NodeRestart, LearnBlock
<1>8. CASE \E n \in Nodes, q \in Packet : Refuse(n, q) \/ Forward(n, q) \/ Deliver(q)
  BY <1>2, <1>8 DEF Refuse, Forward, Deliver
<1>9. CASE Choose \/ UNCHANGED vars
  BY <1>2, <1>9 DEF Choose, vars
<1> QED
  BY <1>3, <1>4, <1>5, <1>6, <1>7, <1>8, <1>9 DEF Next, Handle

LEMMA OnceStep == TypeOK /\ OnceInv /\ [Next]_vars => OnceInv'
<1> SUFFICES ASSUME TypeOK, OnceInv, [Next]_vars PROVE OnceInv'
  OBVIOUS
<1> USE DEF OnceInv, Arrived
<1>1. \A p \in Packet : Numbered(p) => Numbered(p)'
  BY NumberedStep
<1>2. ASSUME flying' \subseteq flying, delivered' = delivered PROVE OnceInv'
  BY <1>1, <1>2 DEF Delivered, DeliveredOnce
<1>3. ASSUME ForwardPacket, delivered' = delivered, using # None,
             flying' = flying \cup {<<1, <<using, nextSeq[using]>>>>}
      PROVE  OnceInv'
  <2>1. using \in Sessions /\ using \in active
    BY <1>3, BoundsAssumption DEF None, Sessions, TypeOK
  <2>2. nextSeq[using] \in Nat /\ nextSeq[using] < MaxPackets
    BY <1>3, <2>1, BoundsAssumption DEF ForwardPacket, TypeOK
  <2>3. PICK new \in Packet : new = <<using, nextSeq[using]>>
    <3>1. nextSeq[using] \in 0 .. MaxPackets - 1
      BY <2>2, BoundsAssumption
    <3>2. <<using, nextSeq[using]>> \in Packet
      BY <2>1, <3>1 DEF Packet
    <3> QED
      BY <3>2, Zenon
  <2>4. new[1] = using /\ new[2] = nextSeq[using]
    BY <2>3
  <2>5. ~Numbered(new)
    BY <2>1, <2>2, <2>4 DEF Numbered
  <2>6. Numbered(new)'
    <3>1. nextSeq'[using] = nextSeq[using] + 1
      BY <1>3, <2>1 DEF ForwardPacket, TypeOK
    <3>2. using <= count' /\ active' = active
      BY <1>3, <2>1 DEF ForwardPacket, TypeOK
    <3> QED
      BY <2>2, <2>4, <3>1, <3>2 DEF Numbered
  <2>7. \A n \in Nodes : ~Arrived(n, new)
    BY <2>5
  <2>8. new \notin Delivered
    BY <2>5
  <2>9. flying' = flying \cup {<<1, new>>}
    BY <1>3, <2>3
  <2> QED
    BY <1>1, <1>3, <2>6, <2>7, <2>8, <2>9 DEF Delivered, DeliveredOnce
<1>4. ASSUME NEW n \in Nodes, NEW p \in Packet, n + 1 \in Nodes,
             Arrived(n, p), delivered' = delivered,
             flying' = (flying \ {<<n, p>>}) \cup {<<n + 1, p>>}
      PROVE  OnceInv'
  BY <1>1, <1>4 DEF Delivered, DeliveredOnce
<1>5. ASSUME NEW p \in Packet, Arrived(Hops, p),
             flying' = flying \ {<<Hops, p>>}, delivered' = Append(delivered, p)
      PROVE  OnceInv'
  <2>1. Delivered' = Delivered \cup {p}
    BY <1>5, DeliveredAppend
  <2>2. Hops \in Nodes
    BY HopsAssumption DEF Nodes
  <2>3. p \notin Delivered
    BY <1>5, <2>2
  <2>4. DeliveredOnce'
    <3>1. delivered \in Seq(Packet)
      BY DEF TypeOK
    <3>2. /\ Len(delivered') = Len(delivered) + 1
          /\ delivered'[Len(delivered) + 1] = p
          /\ \A i \in 1 .. Len(delivered) : delivered'[i] = delivered[i]
      BY <1>5, <3>1
    <3>3. \A i \in 1 .. Len(delivered) : delivered[i] # p
      BY <2>3 DEF Delivered
    <3>4. \A i \in 1 .. Len(delivered') :
            i \in 1 .. Len(delivered) \/ i = Len(delivered) + 1
      BY <3>1, <3>2
    <3> QED
      BY <3>2, <3>3, <3>4 DEF DeliveredOnce
  <2> QED
    BY <1>1, <1>5, <2>1, <2>2, <2>4
<1> QED
  BY <1>2, <1>3, <1>4, <1>5, PacketSteps

(* No message reaches RadioB twice.                                          *)
THEOREM DeliveryHappensOnce == Spec => []DeliveredOnce
<1>1. Init => OnceInv
  BY DEF Init, OnceInv, Arrived, Delivered, DeliveredOnce
<1>2. OnceInv => DeliveredOnce
  BY DEF OnceInv
<1> QED
  BY <1>1, <1>2, OnceStep, TypeCorrect, PTL DEF Spec
-----------------------------------------------------------------------------
(* Without a fault, a packet whose session every hop knows is delivered or   *)
(* still on its way, and every hop still knows the session: no other packet  *)
(* and no block loses it.  Of an expired session this is also true, against  *)
(* what is_valid_session says (ExpiredIsRefused).  KnownDelivered adds that   *)
(* the threads run.                                                          *)
OnItsWay(p) == (\E n \in Nodes : Arrived(n, p)) /\ \A n \in Nodes : Knows(n, p[1])

KnownIsKept ==
  [][\A p \in Packet : OnItsWay(p) /\ faults' = faults =>
       p \in Delivered' \/ OnItsWay(p)']_vars

LEMMA KnownIsNotRefused ==
  ASSUME TypeOK, [Next]_vars, faults' = faults,
         NEW n \in Nodes, NEW p \in Packet, Arrived(n, p), Knows(n, p[1])
  PROVE  \/ Arrived(n, p)'
         \/ n + 1 \in Nodes /\ Arrived(n + 1, p)'
         \/ p \in Delivered'
<1> USE DEF Arrived, Fault, TypeOK
<1>1. CASE UNCHANGED flying
  BY <1>1
<1>2. CASE Choose \/ Establish \/ ProducerRestart \/ CrashInSave \/ UNCHANGED vars
  BY <1>1, <1>2 DEF Choose, Establish, ProducerRestart, CrashInSave, vars
<1>3. CASE ForwardPacket
  BY <1>3 DEF ForwardPacket
<1>4. CASE \/ \E s \in Sessions : Expire(s)
           \/ \E m \in Nodes : \E a \in announced : LearnBlock(m, a[2])
  BY <1>1, <1>4 DEF Expire, LearnBlock
<1>5. ~ \E m \in Nodes : NodeRestart(m)
  BY BoundsAssumption DEF NodeRestart
<1>6. ASSUME NEW m \in Nodes, NEW q \in Packet, Refuse(m, q)
      PROVE  Arrived(n, p)'
  <2>1. <<n, p>> # <<m, q>>
    BY <1>6 DEF Refuse, Refused
  <2> QED
    BY <1>6, <2>1 DEF Refuse
<1>7. ASSUME NEW m \in Nodes, NEW q \in Packet, Forward(m, q)
      PROVE  Arrived(n, p)' \/ (n + 1 \in Nodes /\ Arrived(n + 1, p)')
  <2>1. flying' = (flying \ {<<m, q>>}) \cup {<<m + 1, q>>}
    BY <1>7, BoundsAssumption DEF Forward
  <2>2. m + 1 \in Nodes
    BY <1>7, HopsAssumption DEF Forward, Nodes
  <2> QED
    BY <2>1, <2>2
<1>8. ASSUME NEW q \in Packet, Deliver(q)
      PROVE  Arrived(n, p)' \/ p \in Delivered'
  <2>1. CASE q = p
    BY <1>8, <2>1, DeliveredAppend DEF Deliver
  <2>2. CASE q # p
    BY <1>8, <2>2 DEF Deliver
  <2> QED
    BY <2>1, <2>2
<1> QED
  BY <1>2, <1>3, <1>4, <1>5, <1>6, <1>7, <1>8 DEF Next, Handle

(* The safety half of KnownDelivered: a packet that every hop knows is not     *)
(* lost without a fault.                                                     *)
THEOREM KnownPacketsAreKept == Spec => KnownIsKept
<1>1. TypeOK /\ [Next]_vars =>
        \A p \in Packet : OnItsWay(p) /\ faults' = faults =>
          p \in Delivered' \/ OnItsWay(p)'
  <2> SUFFICES ASSUME TypeOK, [Next]_vars, faults' = faults,
                      NEW p \in Packet, OnItsWay(p), p \notin Delivered'
               PROVE  OnItsWay(p)'
    OBVIOUS
  <2>1. \A n \in Nodes : Knows(n, p[1])'
    BY KnowledgeGrows DEF OnItsWay
  <2>2. PICK n \in Nodes : Arrived(n, p)
    BY DEF OnItsWay
  <2>3. \E m \in Nodes : Arrived(m, p)'
    BY <2>2, KnownIsNotRefused DEF OnItsWay
  <2> QED
    BY <2>1, <2>3 DEF OnItsWay
<1> QED
  BY <1>1, TypeCorrect, PTL DEF Spec, KnownIsKept
=============================================================================
