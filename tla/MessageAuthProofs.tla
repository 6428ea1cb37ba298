-------------------------- MODULE MessageAuthProofs --------------------------
(* Proofs about MessageAuth, for any limits on age and skew and any bounds.  *)
EXTENDS MessageAuth, TLAPS

\* Created before, in the numbering the receiver sees.
Precedes(m, w) ==
  \/ m.session < w.session
  \/ m.session = w.session /\ m.seq < w.seq

(* What is on its way was numbered by the sender: not beyond its counters,   *)
(* and in one order, by session and sequence number as by creation.          *)
WireInv ==
  /\ sActive => sSession \in Sessions
  /\ \A m \in wire :
       /\ m.no <= sent /\ m.seq <= sent
       /\ m.session <= sSession
       /\ m.session = sSession => m.seq <= sendSeq
  /\ \A m, w \in wire : m.no < w.no <=> Precedes(m, w)

Inv == TypeOK /\ WireInv

USE ClocksAssumption, BoundsAssumption

LEMMA MessageTypes ==
  ASSUME NEW m \in Message
  PROVE  m.no \in Nat /\ m.session \in Int /\ m.seq \in Nat
<1>1. m.no \in 1 .. MaxMessages /\ m.session \in Sessions /\ m.seq \in 1 .. MaxMessages
  BY DEF Message
<1> QED
  BY <1>1 DEF Sessions

LEMMA InitInv == Init => Inv
<1> SUFFICES ASSUME Init PROVE Inv
  OBVIOUS
<1>1. accepted \in Seq([msg: Message, at: 0 .. MaxTime])
  BY DEF Init
<1>2. WireInv
  BY DEF Init, WireInv
<1>3. /\ now \in 0 .. MaxTime
      /\ sSession \in {None} \cup Sessions /\ rSession \in {None} \cup Sessions
  BY DEF Init
<1>4. skew \in -MaxSkew .. MaxSkew /\ sActive \in BOOLEAN /\ rActive \in BOOLEAN
  BY Zenon DEF Init
<1>5. /\ sent \in 0 .. MaxMessages
      /\ sendSeq \in 0 .. sent /\ recvSeq \in 0 .. sent
      /\ wire \subseteq Message /\ faults \in 0 .. MaxFaults
  BY DEF Init
<1> QED
  BY <1>1, <1>2, <1>3, <1>4, <1>5, Zenon DEF Inv, TypeOK

LEMMA CreatedIsMessage ==
  ASSUME Inv, CreateMessage
  PROVE  Tagged(sendSeq') \in Message
<1>1. /\ sent' = sent + 1 /\ sendSeq' = sendSeq + 1 /\ sSession \in Sessions
      /\ now \in 0 .. MaxTime /\ sent \in 0 .. MaxMessages /\ sendSeq \in 0 .. sent
      /\ sent < MaxMessages
  BY DEF CreateMessage, Inv, TypeOK, WireInv
<1>2. sent' \in 1 .. MaxMessages /\ sendSeq' \in 1 .. MaxMessages
  BY <1>1
<1> QED
  BY <1>1, <1>2 DEF Message, Tagged

LEMMA TypeStep == Inv /\ [Next]_vars => TypeOK'
<1> SUFFICES ASSUME Inv, [Next]_vars PROVE TypeOK'
  OBVIOUS
<1> USE DEF TypeOK
<1>0. TypeOK /\ WireInv
  BY DEF Inv
<1>1. CASE EstablishSender
  BY <1>0, <1>1 DEF EstablishSender, clocks, receiver
<1>2. CASE EstablishReceiver
  BY <1>0, <1>2 DEF EstablishReceiver, clocks, sender
<1>3. CASE CloseSender \/ CloseReceiver
  BY <1>0, <1>3 DEF CloseSender, CloseReceiver, clocks, receiver, sender
<1>4. CASE CreateMessage
  <2>1. wire' \subseteq Message
    BY <1>0, <1>4, CreatedIsMessage DEF CreateMessage
  <2>2. sent' \in 0 .. MaxMessages /\ sendSeq' \in 0 .. sent' /\ recvSeq' \in 0 .. sent'
    BY <1>0, <1>4 DEF CreateMessage, receiver
  <2> QED
    BY <1>0, <1>4, <2>1, <2>2 DEF CreateMessage, clocks, receiver
<1>5. ASSUME NEW m \in wire, Receive(m) PROVE TypeOK'
  <2>1. wire' \subseteq Message /\ faults' \in 0 .. MaxFaults
    BY <1>0, <1>5 DEF Receive, NoFault, Fault
  <2>2. m \in Message /\ m.seq \in 1 .. MaxMessages /\ m.seq <= sent
    BY <1>0, <1>5 DEF Message, WireInv
  <2>3. recvSeq' \in 0 .. sent'
    BY <1>0, <1>5, <2>2 DEF Receive, VerifyMessage
  <2>4. accepted' \in Seq([msg: Message, at: 0 .. MaxTime])
    <3> DEFINE e == [msg |-> m, at |-> now]
               E == [msg: Message, at: 0 .. MaxTime]
    <3>1. e \in E
      BY <1>0, <2>2
    <3>2. accepted \in Seq(E)
      BY <1>0
    <3>3. accepted' = Append(accepted, e) \/ accepted' = accepted
      BY <1>5 DEF Receive, VerifyMessage
    <3> HIDE DEF e, E
    <3>4. accepted' \in Seq(E)
      BY <3>1, <3>2, <3>3
    <3> QED
      BY <3>4 DEF E
  <2> QED
    BY <1>0, <1>5, <2>1, <2>3, <2>4 DEF Receive, VerifyMessage, clocks, sender
<1>6. ASSUME NEW m \in wire, Lose(m) PROVE TypeOK'
  BY <1>0, <1>6 DEF Lose, Fault, clocks, receiver, sender
<1>7. CASE Tick
  BY <1>0, <1>7 DEF Tick, receiver, sender
<1>8. CASE SetClock
  BY <1>0, <1>8 DEF SetClock, receiver, sender
<1>9. CASE UNCHANGED vars
  BY <1>0, <1>9 DEF vars, clocks, receiver, sender
<1> QED
  BY <1>1, <1>2, <1>3, <1>4, <1>5, <1>6, <1>7, <1>8, <1>9 DEF Next

LEMMA WireShrinks ==
  ASSUME Inv, wire' \subseteq wire, sent' = sent, sendSeq' = sendSeq,
         sSession' = sSession, sActive' => sActive
  PROVE  WireInv'
BY DEF Inv, WireInv, Precedes

LEMMA WireStep == Inv /\ [Next]_vars => WireInv'
<1> SUFFICES ASSUME Inv, [Next]_vars PROVE WireInv'
  OBVIOUS
<1>0. /\ TypeOK /\ WireInv /\ wire \subseteq Message
      /\ sent \in Nat /\ sendSeq \in Nat /\ sendSeq <= sent
      /\ sSession \in Int /\ Sessions \subseteq Int
  BY DEF Inv, TypeOK, None, Sessions
<1>1. \A m \in wire : m.no \in Nat /\ m.session \in Int /\ m.seq \in Nat
  BY <1>0, MessageTypes
<1>2. CASE EstablishSender
  <2>1. PICK s \in Sessions : s > sSession /\ sSession' = s
    BY <1>2 DEF EstablishSender
  <2>2. wire' = wire /\ sent' = sent
    BY <1>2 DEF EstablishSender
  <2>3. \A m \in wire' : m.session <= sSession' /\ m.session # sSession'
    BY <1>0, <1>1, <2>1, <2>2 DEF WireInv
  <2> QED
    BY <1>0, <2>1, <2>2, <2>3 DEF WireInv, Precedes
<1>3. CASE EstablishReceiver
  BY <1>3, WireShrinks DEF EstablishReceiver, sender
<1>4. CASE CloseSender \/ CloseReceiver
  BY <1>4, WireShrinks DEF CloseSender, CloseReceiver, sender
<1>5. CASE CreateMessage
  <2> DEFINE new == Tagged(sendSeq')
  <2>1. /\ sent' = sent + 1 /\ sendSeq' = sendSeq + 1 /\ wire' = wire \cup {new}
        /\ sSession' = sSession /\ sActive' = sActive
    BY <1>5 DEF CreateMessage
  <2>2. /\ new.no = sent + 1 /\ new.session = sSession /\ new.seq = sendSeq + 1
    BY <2>1 DEF Tagged
  <2> HIDE DEF new
  <2>3. \A m \in wire : m.no < new.no /\ Precedes(m, new) /\ ~Precedes(new, m)
    BY <1>0, <1>1, <2>2 DEF WireInv, Precedes
  <2>4. ~Precedes(new, new)
    BY <1>0, <2>2 DEF Precedes
  <2>5. \A m, w \in wire' : m.no < w.no <=> Precedes(m, w)
    BY <1>0, <1>1, <2>1, <2>2, <2>3, <2>4 DEF WireInv
  <2>6. \A m \in wire' :
          /\ m.no <= sent' /\ m.seq <= sent'
          /\ m.session <= sSession'
          /\ m.session = sSession' => m.seq <= sendSeq'
    BY <1>0, <1>1, <2>1, <2>2 DEF WireInv
  <2> QED
    BY <1>0, <2>1, <2>5, <2>6 DEF WireInv
<1>6. ASSUME NEW m \in wire, Receive(m) \/ Lose(m) PROVE WireInv'
  BY <1>6, WireShrinks DEF Receive, VerifyMessage, Lose, sender
<1>7. CASE Tick \/ SetClock \/ UNCHANGED vars
  BY <1>7, WireShrinks DEF Tick, SetClock, vars, sender
<1> QED
  BY <1>2, <1>3, <1>4, <1>5, <1>6, <1>7 DEF Next

LEMMA Invariant == Spec => []Inv
<1>1. Inv /\ [Next]_vars => Inv'
  BY TypeStep, WireStep DEF Inv
<1> QED
  BY <1>1, InitInv, PTL DEF Spec

(* Both ends, the wire and what was accepted keep their types. *)
THEOREM TypeCorrect == Spec => []TypeOK
<1>1. Inv => TypeOK
  BY DEF Inv
<1> QED
  BY <1>1, Invariant, PTL
-----------------------------------------------------------------------------
(* What was accepted was no older than the limit and the clocks' difference. *)
THEOREM AcceptedIsFresh == Spec => []AcceptedFresh
<1>1. Init => AcceptedFresh
  BY DEF Init, AcceptedFresh
<1>2. Inv /\ AcceptedFresh /\ [Next]_vars => AcceptedFresh'
  <2> SUFFICES ASSUME Inv, AcceptedFresh, [Next]_vars PROVE AcceptedFresh'
    OBVIOUS
  <2>1. CASE UNCHANGED accepted
    BY <2>1 DEF AcceptedFresh
  <2>2. ASSUME NEW m \in wire, Receive(m), ~UNCHANGED accepted PROVE AcceptedFresh'
    <3> DEFINE e == [msg |-> m, at |-> now]
    <3>1. accepted' = Append(accepted, e) /\ Age(m) <= MaxAge
      BY <2>2 DEF Receive, VerifyMessage, Valid, Timely
    <3>2. now \in Int /\ skew \in Int /\ -MaxSkew <= skew /\ m.ts \in Int
      BY DEF Inv, TypeOK, Message
    <3>3. e.at - e.msg.ts <= MaxAge + MaxSkew
      BY <3>1, <3>2 DEF Age
    <3>4. accepted \in Seq([msg: Message, at: 0 .. MaxTime])
      BY DEF Inv, TypeOK
    <3> HIDE DEF e
    <3>5. \A i \in DOMAIN accepted' :
            (i \in DOMAIN accepted /\ accepted'[i] = accepted[i]) \/ accepted'[i] = e
      BY <3>1, <3>4
    <3> QED
      BY <3>3, <3>5 DEF AcceptedFresh
  <2>3. CASE Next /\ \A m \in wire : ~Receive(m)
    BY <2>1, <2>3 DEF Next, EstablishSender, EstablishReceiver, CloseSender,
       CloseReceiver, CreateMessage, Tick, SetClock, Lose
  <2> QED
    BY <2>1, <2>2, <2>3 DEF vars
<1> QED
  BY <1>1, <1>2, Invariant, PTL DEF Spec
-----------------------------------------------------------------------------
Transit == {m.no : m \in {w \in wire : Awaited(w)}}
Taken == [i \in DOMAIN accepted |-> accepted[i].msg.no]

LEMMA AppendTaken ==
  ASSUME NEW E, NEW s \in Seq(E), NEW e
  PROVE  [i \in DOMAIN Append(s, e) |-> Append(s, e)[i].msg.no]
         = Append([i \in DOMAIN s |-> s[i].msg.no], e.msg.no)
OBVIOUS

(* The sequence numbers make the network a line that delivers each message   *)
(* once at most and in order, across sessions.                               *)
THEOREM MessageAuthImplementsLine == Spec => ImplementsLine
<1>1. Init => Line!Init
  BY DEF Init, Line!Init
<1>2. Inv /\ [Next]_vars => [Line!Next]_Line!vars
  <2> SUFFICES ASSUME Inv, [Next]_vars PROVE [Line!Next]_Line!vars
    OBVIOUS
  <2>0. /\ WireInv /\ wire \subseteq Message
        /\ rSession \in Int /\ recvSeq \in Int /\ Sessions \subseteq Int
        /\ accepted \in Seq([msg: Message, at: 0 .. MaxTime])
    BY DEF Inv, TypeOK, None, Sessions
  <2>1. \A m \in wire : m.no \in Nat /\ m.session \in Int /\ m.seq \in Nat
    BY <2>0, MessageTypes
  <2>2. ASSUME wire' \subseteq wire, UNCHANGED <<sent, accepted>>,
               \A m \in wire' : Awaited(m)' => Awaited(m)
        PROVE  Line!Lose
    BY <2>2 DEF Line!Lose
  <2>3. ASSUME wire' \subseteq wire, UNCHANGED <<sent, accepted, rSession, recvSeq>>
        PROVE  Line!Lose
    BY <2>2, <2>3 DEF Awaited
  <2>4. CASE EstablishReceiver
    <3>1. \A m \in wire' : Awaited(m)' => Awaited(m)
      BY <2>0, <2>1, <2>4 DEF EstablishReceiver, Awaited
    <3> QED
      BY <2>2, <2>4, <3>1 DEF EstablishReceiver, Line!Next
  <2>5. CASE EstablishSender \/ CloseSender \/ CloseReceiver \/ Tick \/ SetClock
    BY <2>3, <2>5 DEF EstablishSender, CloseSender, CloseReceiver, Tick, SetClock,
       receiver, Line!Next
  <2>6. ASSUME NEW m \in wire, Lose(m) PROVE Line!Next
    BY <2>3, <2>6 DEF Lose, receiver, Line!Next
  <2>7. CASE CreateMessage
    <3> DEFINE new == Tagged(sendSeq')
    <3>1. /\ wire' = wire \cup {new} /\ sent' = sent + 1 /\ accepted' = accepted
          /\ rSession' = rSession /\ recvSeq' = recvSeq
      BY <2>7 DEF CreateMessage, receiver
    <3>2. new.no = sent'
      BY DEF Tagged
    <3> HIDE DEF new
    <3>3. Transit' \in {Transit, Transit \cup {sent'}}
      <4>1. CASE Awaited(new)
        BY <3>1, <3>2, <4>1 DEF Transit, Awaited
      <4>2. CASE ~Awaited(new)
        BY <3>1, <4>2 DEF Transit, Awaited
      <4> QED
        BY <4>1, <4>2
    <3> QED
      BY <3>1, <3>3 DEF Transit, Line!Send, Line!Next
  <2>8. ASSUME NEW m \in wire, Receive(m) PROVE Line!Next
    <3>1. wire' \in {wire, wire \ {m}} /\ sent' = sent /\ rSession' = rSession
      BY <2>8 DEF Receive, VerifyMessage
    <3>2. CASE ~Valid(m)
      BY <2>3, <2>8, <3>1, <3>2 DEF Receive, VerifyMessage, Line!Next
    <3>3. CASE Valid(m)
      <4>1. /\ m.session = rSession /\ m.seq > recvSeq /\ recvSeq' = m.seq
            /\ accepted' = Append(accepted, [msg |-> m, at |-> now])
        BY <2>8, <3>3 DEF Receive, VerifyMessage, Valid, TagMatches
      <4>2. m.no \in Transit
        BY <4>1 DEF Transit, Awaited
      <4>3. \A w \in wire : Awaited(w)' <=> Precedes(m, w)
        BY <3>1, <4>1 DEF Awaited, Precedes
      <4>4. \A w \in wire : Precedes(m, w) => Awaited(w)
        BY <2>0, <2>1, <4>1 DEF Awaited, Precedes
      <4>5. \A w \in wire : Precedes(m, w) <=> m.no < w.no
        BY <2>0 DEF WireInv
      <4>6. ~(m.no < m.no)
        BY <2>1
      <4>7. Transit' = {k \in Transit : m.no < k}
        BY <3>1, <4>3, <4>4, <4>5, <4>6 DEF Transit
      <4>8. Taken' = Append(Taken, m.no)
        BY <2>0, <4>1, AppendTaken DEF Taken
      <4> QED
        BY <3>1, <4>2, <4>7, <4>8 DEF Transit, Taken, Line!Deliver, Line!Next
    <3> QED
      BY <3>2, <3>3
  <2>9. CASE UNCHANGED vars
    BY <2>9 DEF vars, receiver, Awaited, Line!vars
  <2> QED
    BY <2>4, <2>5, <2>6, <2>7, <2>8, <2>9 DEF Next, Line!Next
<1> QED
  BY <1>1, <1>2, Invariant, PTL DEF Spec, ImplementsLine, Line!Spec
-----------------------------------------------------------------------------
(* The slack of verify_tag is enough for clocks that differ by no more: then *)
(* a message that is neither overtaken nor too old, of a session both ends   *)
(* are in, is never refused.  It stays on its way until it is accepted or    *)
(* lost, however far the receiver's clock is behind the sender's.            *)
OpenIsAccepted ==
  [][\A m \in wire : Open(m) /\ faults' = faults =>
       m \in wire' \/ \E i \in DOMAIN accepted' : accepted'[i].msg = m]_vars

\* No stamp is from the sender's future.
StampInv == \A m \in wire : m.ts <= now

LEMMA StampStep == Inv /\ StampInv /\ [Next]_vars => StampInv'
<1> SUFFICES ASSUME Inv, StampInv, [Next]_vars PROVE StampInv'
  OBVIOUS
<1> USE DEF StampInv
<1>0. /\ now \in Nat
      /\ \A m \in wire : m.ts \in Nat
  BY DEF Inv, TypeOK, Message
<1>1. CASE wire' \subseteq wire /\ now' = now
  BY <1>1
<1>2. CASE CreateMessage
  <2>1. PICK e : e = Tagged(sendSeq')
    OBVIOUS
  <2>2. e.ts = now
    BY <2>1 DEF Tagged
  <2>3. wire' = wire \cup {e} /\ now' = now
    BY <1>2, <2>1 DEF CreateMessage, clocks
  <2> QED
    BY <1>0, <2>2, <2>3
<1>3. CASE Tick
  BY <1>0, <1>3 DEF Tick
<1>4. CASE EstablishSender \/ EstablishReceiver \/ CloseSender \/ CloseReceiver
  BY <1>1, <1>4 DEF EstablishSender, EstablishReceiver, CloseSender,
     CloseReceiver, clocks
<1>5. CASE SetClock \/ UNCHANGED vars
  BY <1>1, <1>5 DEF SetClock, vars, clocks
<1>6. CASE \E m \in wire : Receive(m) \/ Lose(m)
  BY <1>1, <1>6 DEF Receive, VerifyMessage, Lose, clocks
<1> QED
  BY <1>2, <1>3, <1>4, <1>5, <1>6 DEF Next

LEMMA OpenIsValid ==
  ASSUME MaxSkew <= MaxAhead, Inv, StampInv, NEW m \in wire, Open(m)
  PROVE  Valid(m)
<1>1. /\ now \in Int /\ skew \in Int /\ -MaxSkew <= skew
      /\ m.ts \in Int /\ m.ts <= now
  BY DEF Inv, TypeOK, Message, StampInv
<1>2. Age(m) >= -MaxAhead
  BY <1>1, ClocksAssumption DEF Age
<1> QED
  BY <1>2 DEF Valid, Timely, Open

LEMMA OpenStep ==
  ASSUME MaxSkew <= MaxAhead, Inv, StampInv, [Next]_vars, faults' = faults,
         NEW m \in wire, Open(m)
  PROVE  m \in wire' \/ \E i \in DOMAIN accepted' : accepted'[i].msg = m
<1>0. faults \in Nat /\ accepted \in Seq([msg: Message, at: 0 .. MaxTime])
  BY DEF Inv, TypeOK
<1>1. ~Fault
  BY <1>0 DEF Fault
<1>2. ASSUME NEW w \in wire, Receive(w)
      PROVE  m \in wire' \/ \E i \in DOMAIN accepted' : accepted'[i].msg = m
  <2>1. CASE w # m
    BY <1>1, <1>2, <2>1 DEF Receive
  <2>2. CASE w = m
    <3>1. Valid(m)
      BY OpenIsValid
    <3>2. PICK e : e = [msg |-> m, at |-> now]
      OBVIOUS
    <3>3. accepted' = Append(accepted, e)
      BY <1>2, <2>2, <3>1, <3>2 DEF Receive, VerifyMessage
    <3>4. e.msg = m
      BY <3>2
    <3>5. Len(accepted) + 1 \in DOMAIN accepted' /\ accepted'[Len(accepted) + 1] = e
      BY <1>0, <3>3
    <3> QED
      BY <3>4, <3>5
  <2> QED
    BY <2>1, <2>2
<1>3. CASE CreateMessage
  BY <1>3 DEF CreateMessage
<1>4. CASE EstablishSender \/ EstablishReceiver \/ CloseSender \/ CloseReceiver
  BY <1>4 DEF EstablishSender, EstablishReceiver, CloseSender, CloseReceiver
<1>5. CASE Tick \/ SetClock \/ UNCHANGED vars
  BY <1>5 DEF Tick, SetClock, vars
<1>6. CASE \E w \in wire : Lose(w)
  BY <1>1, <1>6 DEF Lose
<1> QED
  BY <1>2, <1>3, <1>4, <1>5, <1>6 DEF Next

(* The safety half of TimelyPasses: an open message leaves the wire by being  *)
(* accepted, or lost, and is never refused.                                  *)
THEOREM OpenMessagesPass ==
  ASSUME MaxSkew <= MaxAhead PROVE Spec => OpenIsAccepted
<1>1. Init => StampInv
  BY DEF Init, StampInv
<1>2. Inv /\ StampInv /\ [Next]_vars =>
        \A m \in wire : Open(m) /\ faults' = faults =>
          m \in wire' \/ \E i \in DOMAIN accepted' : accepted'[i].msg = m
  BY OpenStep
<1> QED
  BY <1>1, <1>2, StampStep, Invariant, PTL DEF Spec, OpenIsAccepted
=============================================================================
