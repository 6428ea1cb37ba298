--------------------------- MODULE LossyLineProofs ---------------------------
(* What every implementation of LossyLine keeps.                             *)
EXTENDS LossyLine, TLAPS

(* RadioB is sent the messages in the order of their numbers, and so each of *)
(* them at most once.                                                        *)
DeliveredInOrder ==
  \A i, j \in 1 .. Len(delivered) : i < j => delivered[i] < delivered[j]

LineInv ==
  /\ sent \in Nat
  /\ transit \subseteq 1 .. sent
  /\ delivered \in Seq(1 .. sent)
  /\ \A i \in 1 .. Len(delivered), m \in transit : delivered[i] < m
  /\ DeliveredInOrder

(* What is delivered is older than anything on its way: nothing returns.     *)
LEMMA LineInvInductive == LineInv /\ [Next]_vars => LineInv'
<1> SUFFICES ASSUME LineInv, [Next]_vars PROVE LineInv'
  OBVIOUS
<1>1. CASE Send
  <2>1. sent' \in Nat /\ 1 .. sent \subseteq 1 .. sent'
    BY <1>1 DEF Send, LineInv
  <2>2. transit' \subseteq 1 .. sent'
    BY <1>1, <2>1 DEF Send, LineInv
  <2>3. delivered' \in Seq(1 .. sent')
    BY <1>1, <2>1 DEF Send, LineInv
  <2>4. \A i \in 1 .. Len(delivered) : delivered[i] \in 1 .. sent
    BY DEF LineInv
  <2>5. \A i \in 1 .. Len(delivered'), m \in transit' : delivered'[i] < m
    BY <1>1, <2>4 DEF Send, LineInv
  <2>6. QED
    BY <1>1, <2>1, <2>2, <2>3, <2>5 DEF Send, LineInv, DeliveredInOrder
<1>2. CASE Lose
  BY <1>2 DEF Lose, LineInv, DeliveredInOrder
<1>3. CASE Deliver
  <2>1. PICK m \in transit : /\ transit' = {k \in transit : m < k}
                             /\ delivered' = Append(delivered, m)
                             /\ UNCHANGED sent
    BY <1>3 DEF Deliver
  <2>2. m \in 1 .. sent
    BY <2>1 DEF LineInv
  <2>3. delivered' \in Seq(1 .. sent') /\ sent' \in Nat
    BY <2>1, <2>2 DEF LineInv
  <2>4. /\ Len(delivered') = Len(delivered) + 1 /\ Len(delivered) \in Nat
        /\ \A i \in 1 .. Len(delivered) : delivered'[i] = delivered[i]
        /\ delivered'[Len(delivered) + 1] = m
    BY <2>1, <2>2 DEF LineInv
  <2>5. \A i \in 1 .. Len(delivered) : delivered[i] \in 1 .. sent
    BY DEF LineInv
  <2>6. \A k \in transit' : k \in 1 .. sent /\ m < k
    BY <2>1, <2>2 DEF LineInv
  <2>7. \A i \in 1 .. Len(delivered'), k \in transit' : delivered'[i] < k
    BY <2>1, <2>4, <2>6 DEF LineInv
  <2>8. DeliveredInOrder'
    <3> SUFFICES ASSUME NEW i \in 1 .. Len(delivered'),
                        NEW j \in 1 .. Len(delivered'), i < j
                 PROVE  delivered'[i] < delivered'[j]
      BY DEF DeliveredInOrder
    <3>1. i \in 1 .. Len(delivered) /\ delivered'[i] = delivered[i]
      BY <2>4
    <3>2. CASE j = Len(delivered) + 1
      BY <3>1, <3>2, <2>4 DEF LineInv
    <3>3. CASE j # Len(delivered) + 1
      <4>1. j \in 1 .. Len(delivered) /\ delivered'[j] = delivered[j]
        BY <3>3, <2>4
      <4>2. QED
        BY <3>1, <4>1 DEF LineInv, DeliveredInOrder
    <3>4. QED
      BY <3>2, <3>3
  <2>9. QED
    BY <2>1, <2>3, <2>6, <2>7, <2>8 DEF LineInv
<1>4. CASE UNCHANGED vars
  BY <1>4 DEF vars, LineInv, DeliveredInOrder
<1>5. QED
  BY <1>1, <1>2, <1>3, <1>4 DEF Next

(* The line never reorders or duplicates messages.                           *)
THEOREM LineKeepsOrder == Spec => []DeliveredInOrder
<1>1. Init => LineInv
  BY DEF Init, LineInv, DeliveredInOrder
<1>2. LineInv => DeliveredInOrder
  BY DEF LineInv
<1>3. QED
  BY <1>1, <1>2, LineInvInductive, PTL DEF Spec
=============================================================================
