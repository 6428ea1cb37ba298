--------------------------- MODULE HandshakeProofs ---------------------------
(***************************************************************************)
(* What holds of module Handshake for any number of attempts and faults.    *)
(***************************************************************************)
EXTENDS Handshake, TLAPS

(* What a message of each type carries.                                      *)
LEMMA MessageTypes ==
  ASSUME NEW m \in Message
  PROVE  /\ m.type = "HELLO" => m.node \in Node /\ m.nonce \in Attempt
         /\ m.type = "CHALLENGE" => m.challenge \in Attempt
         /\ m.type = "PROOF" => m.commitment \in Attempt /\ m.challenge \in Attempt
         /\ m.type = "RESULT" => m.valid \in BOOLEAN
<1>1. CASE m \in Hello     BY <1>1 DEF Hello
<1>2. CASE m \in Challenge BY <1>2 DEF Challenge
<1>3. CASE m \in Proof     BY <1>3 DEF Proof
<1>4. CASE m \in Result    BY <1>4 DEF Result
<1> QED BY <1>1, <1>2, <1>3, <1>4 DEF Message

(* An initiator that is to prove itself has a challenge; create_proof does   *)
(* not look whether it is None.                                              *)
Challenged == iState = "CHALLENGE_RECEIVED" => iChallenge # None

TypeInv == TypeOK /\ Challenged

LEMMA TypeInit == Init => TypeInv
  BY BoundsAssumption DEF Init, TypeInv, TypeOK, Challenged, Attempt, IStates, RStates, None

LEMMA TypeStep == TypeInv /\ [Next]_vars => TypeInv'
<1> SUFFICES ASSUME TypeInv, [Next]_vars PROVE TypeInv'
  OBVIOUS
<1> USE BoundsAssumption DEF TypeInv, TypeOK, Challenged
<1>0. CASE UNCHANGED vars
  BY <1>0 DEF vars, iVars, rVars
<1>1. CASE CreateHello
  <2>1. [type |-> "HELLO", node |-> Initiator, nonce |-> iNo] \in Message
    BY DEF Message, Hello, Node
  <2> QED BY <1>1, <2>1 DEF CreateHello, rVars, IStates
<1>2. CASE CreateProof
  <2>1. iChallenge \in Attempt
    BY <1>2 DEF CreateProof
  <2>2. \A kind \in {"simulated", "real"} :
          [type |-> "PROOF", kind |-> kind, commitment |-> iNo,
           challenge |-> iChallenge] \in Message
    BY <2>1 DEF Message, Proof
  <2>3. msgs' \subseteq Message
    BY <1>2, <2>2 DEF CreateProof
  <2>4. proved' \subseteq Attempt \X Attempt
    BY <1>2, <2>1 DEF CreateProof
  <2> QED BY <1>2, <2>3, <2>4 DEF CreateProof, rVars, IStates
<1>3. CASE CreateChallenge
  <2>1. [type |-> "CHALLENGE", challenge |-> rNo] \in Message
    BY DEF Message, Challenge
  <2> QED BY <1>3, <2>1 DEF CreateChallenge, iVars, RStates
<1>4. CASE CreateResult
  <2>1. \A valid \in BOOLEAN : [type |-> "RESULT", responder |-> rNo, valid |-> valid] \in Message
    BY DEF Message, Result
  <2>2. msgs' \subseteq Message /\ rState' \in RStates
    BY <1>4, <2>1 DEF CreateResult, RStates
  <2> QED BY <1>4, <2>2 DEF CreateResult, iVars
<1>5. CASE NewInitiator
  BY <1>5 DEF NewInitiator, rVars, Attempt, IStates
<1>6. CASE NewResponder
  BY <1>6 DEF NewResponder, iVars, Attempt, RStates
<1>7. CASE OtherHello
  <2>1. \A n \in Attempt : [type |-> "HELLO", node |-> "other", nonce |-> n] \in Message
    BY DEF Message, Hello, Node
  <2>2. msgs' \subseteq Message
    BY <1>7, <2>1 DEF OtherHello
  <2> QED BY <1>7, <2>2 DEF OtherHello, iVars, rVars, Fault
<1>8. ASSUME NEW m \in msgs, Receive(m) PROVE TypeInv'
  <2>1. m \in Message /\ msgs' \subseteq Message /\ UNCHANGED faults
    BY <1>8 DEF Receive, NoFault
  <2>2. CASE m.type = "HELLO" /\ ReceiveHello(m)
    BY <2>1, <2>2, MessageTypes DEF ReceiveHello, iVars, RStates
  <2>3. CASE m.type = "CHALLENGE" /\ ReceiveChallenge(m)
    <3>1. m.challenge \in Attempt
      BY <2>1, <2>3, MessageTypes
    <3> QED BY <2>1, <2>3, <3>1 DEF ReceiveChallenge, rVars, IStates, Attempt, None
  <2>4. CASE m.type = "PROOF" /\ VerifyProof(m)
    <3>1. m.commitment \in Attempt
      BY <2>1, <2>4, MessageTypes
    <3>2. PICK valid \in BOOLEAN :
            /\ rState' = IF valid THEN "VERIFIED" ELSE "FAILED"
            /\ answer' = {valid}
            /\ verified' = IF valid THEN verified \cup {<<m.commitment, rNo>>}
                                    ELSE verified
      BY <2>4 DEF VerifyProof, Verdicts, SignatureOK
    <3>3. rState' \in RStates /\ answer' \in SUBSET BOOLEAN
      BY <3>2 DEF RStates
    <3>4. verified' \in SUBSET (Attempt \X Attempt)
      BY <3>1, <3>2
    <3> QED BY <2>1, <2>4, <3>1, <3>3, <3>4 DEF VerifyProof, iVars
  <2>5. CASE m.type = "RESULT" /\ ReceiveResult(m)
    BY <2>1, <2>5 DEF ReceiveResult, rVars, IStates
  <2>6. CASE Unexpected(m)
    BY <2>1, <2>6 DEF Unexpected, iVars, rVars
  <2> QED BY <1>8, <2>2, <2>3, <2>4, <2>5, <2>6 DEF Receive
<1>9. ASSUME NEW m \in msgs, Lose(m) PROVE TypeInv'
  BY <1>9 DEF Lose, iVars, rVars, Fault
<1> QED BY <1>0, <1>1, <1>2, <1>3, <1>4, <1>5, <1>6, <1>7, <1>8, <1>9 DEF Next, Work

(* Both objects, the messages and the histories have the types of the code.  *)
THEOREM TypeCorrect == Spec => []TypeOK
<1>1. TypeInv => TypeOK
  BY DEF TypeInv
<1> QED BY TypeInit, TypeStep, <1>1, PTL DEF Spec

-----------------------------------------------------------------------------
(* The inductive invariant: proofs on their way are in the history, which    *)
(* knows objects of the past and the present only, and a positive result,    *)
(* whether returned, on its way or received, has a verified proof behind it. *)

ProofsMade ==
  \A m \in msgs : m.type = "PROOF" => <<m.commitment, m.challenge>> \in proved

ProofsOfPast == \A p \in proved : p[1] <= iNo

Answering == answer # {} => rState # "INIT"

PositiveIn(S) == \E m \in S : m.type = "RESULT" /\ m.valid = TRUE

Positive == TRUE \in answer \/ iState = "CONFIRMED" \/ PositiveIn(msgs)

\* receive_hello stores what any sender says before it looks who it is.
PeerIsExpected == rState # "INIT" => rPeer = Initiator /\ rNonce # None

PositiveIsVerified == Positive => verified # {}

HInv == /\ TypeInv
        /\ ProofsMade /\ ProofIsFresh /\ ProofsOfPast
        /\ Answering /\ PositiveIsVerified /\ PeerIsExpected

(* Sending any message but a positive result adds no positive result.        *)
LEMMA NotPositive ==
  ASSUME NEW S, NEW x, x.type # "RESULT" \/ x.valid # TRUE
  PROVE  PositiveIn(S \cup {x}) => PositiveIn(S)
  BY Zenon DEF PositiveIn

LEMMA HInvInit == Init => HInv
  BY TypeInit DEF Init, HInv, ProofsMade, ProofIsFresh, ProofsOfPast, Answering,
                  Positive, PositiveIn, PositiveIsVerified, PeerIsExpected

LEMMA HInvStep == HInv /\ [Next]_vars => HInv'
<1> SUFFICES ASSUME HInv, [Next]_vars PROVE HInv'
  OBVIOUS
<1>t. TypeInv /\ TypeInv'
  BY TypeStep DEF HInv
<1>a. /\ iNo \in Nat /\ rNo \in Attempt /\ msgs \subseteq Message
      /\ verified \subseteq Attempt \X Attempt /\ answer \subseteq BOOLEAN
  BY <1>t DEF TypeInv, TypeOK, Attempt
<1>b. /\ ProofsMade /\ ProofIsFresh /\ ProofsOfPast
      /\ Answering /\ PositiveIsVerified /\ PeerIsExpected
  BY DEF HInv
<1>c. SUFFICES /\ ProofsMade' /\ ProofIsFresh' /\ ProofsOfPast'
               /\ Answering' /\ PositiveIsVerified' /\ PeerIsExpected'
  BY <1>t DEF HInv
<1>0. CASE UNCHANGED vars
  BY <1>0, <1>b DEF vars, iVars, rVars, ProofsMade, ProofIsFresh, ProofsOfPast,
       Answering, Positive, PositiveIn, PositiveIsVerified, PeerIsExpected
<1>1. CASE CreateHello
  <2>1. /\ msgs' = msgs \cup {[type |-> "HELLO", node |-> Initiator, nonce |-> iNo]}
        /\ iState' = "HELLO_SENT" /\ UNCHANGED <<iNo, rState, rPeer, rNonce, answer, proved, verified>>
    BY <1>1 DEF CreateHello, rVars
  <2>2. ProofsMade'
    BY <2>1, <1>b DEF ProofsMade
  <2>3. PositiveIn(msgs') => PositiveIn(msgs)
    BY <2>1, NotPositive, [type |-> "HELLO", node |-> Initiator, nonce |-> iNo].type = "HELLO"
  <2>4. PositiveIsVerified'
    BY <2>1, <2>3, <1>b DEF Positive, PositiveIsVerified
  <2> QED BY <2>1, <2>2, <2>4, <1>b DEF ProofIsFresh, ProofsOfPast, Answering, PeerIsExpected
<1>2. CASE CreateProof
  <2>1. PICK kind \in {"simulated", "real"} :
          msgs' = msgs \cup {[type |-> "PROOF", kind |-> kind,
                              commitment |-> iNo, challenge |-> iChallenge]}
    BY <1>2 DEF CreateProof
  <2>2. /\ proved' = proved \cup {<<iNo, iChallenge>>} /\ iState' = "PROOF_SENT"
        /\ UNCHANGED <<iNo, rState, rPeer, rNonce, answer, verified>>
    BY <1>2 DEF CreateProof, rVars
  <2>3. ProofsMade'
    BY <2>1, <2>2, <1>b DEF ProofsMade
  <2>4. PositiveIsVerified'
    <3>1. PositiveIn(msgs') => PositiveIn(msgs)
      BY <2>1, NotPositive, [type |-> "PROOF", kind |-> kind, commitment |-> iNo,
                             challenge |-> iChallenge].type = "PROOF"
    <3> QED BY <2>2, <3>1, <1>b DEF Positive, PositiveIsVerified
  <2>5. ProofsOfPast'
    BY <2>2, <1>a, <1>b DEF ProofsOfPast
  <2> QED BY <2>2, <2>3, <2>4, <2>5, <1>b DEF ProofIsFresh, Answering, PeerIsExpected
<1>3. CASE CreateChallenge
  <2>1. /\ msgs' = msgs \cup {[type |-> "CHALLENGE", challenge |-> rNo]}
        /\ rState = "HELLO_RECEIVED" /\ rState' = "CHALLENGE_SENT"
        /\ UNCHANGED <<iNo, iState, rPeer, rNonce, answer, proved, verified>>
    BY <1>3 DEF CreateChallenge, iVars
  <2>2. ProofsMade'
    BY <2>1, <1>b DEF ProofsMade
  <2>3. PositiveIsVerified'
    <3>1. PositiveIn(msgs') => PositiveIn(msgs)
      BY <2>1, NotPositive, [type |-> "CHALLENGE", challenge |-> rNo].type = "CHALLENGE"
    <3> QED BY <2>1, <3>1, <1>b DEF Positive, PositiveIsVerified
  <2> QED BY <2>1, <2>2, <2>3, <1>b DEF ProofIsFresh, ProofsOfPast, Answering, PeerIsExpected
<1>4. CASE CreateResult
  <2>1. PICK valid \in answer :
          /\ rState' = IF valid THEN "CONFIRMED" ELSE "FAILED"
          /\ msgs' = msgs \cup {[type |-> "RESULT", responder |-> rNo, valid |-> valid]}
    BY <1>4 DEF CreateResult
  <2>2. valid \in BOOLEAN /\ rState # "INIT"
    BY <2>1, <1>a, <1>b DEF Answering
  <2>3. answer' = {} /\ UNCHANGED <<iNo, iState, rPeer, rNonce, proved, verified>>
    BY <1>4 DEF CreateResult, iVars
  <2>4. ProofsMade'
    BY <2>1, <2>3, <1>b DEF ProofsMade
  <2>5. PositiveIsVerified'
    <3>1. CASE valid
      BY <2>1, <2>3, <3>1, <1>b DEF Positive, PositiveIsVerified
    <3>2. CASE ~valid
      <4>1. PositiveIn(msgs') => PositiveIn(msgs)
        BY <2>1, <3>2, NotPositive, [type |-> "RESULT", responder |-> rNo, valid |-> valid].valid = valid
      <4> QED BY <2>1, <2>3, <4>1, <1>b DEF Positive, PositiveIsVerified
    <3> QED BY <3>1, <3>2
  <2> QED BY <2>2, <2>3, <2>4, <2>5, <1>b DEF ProofIsFresh, ProofsOfPast, Answering, PeerIsExpected
<1>5. CASE NewInitiator
  <2>1. iNo' = iNo + 1 /\ iState' = "INIT"
        /\ UNCHANGED <<rState, rPeer, rNonce, answer, msgs, proved, verified>>
    BY <1>5 DEF NewInitiator, rVars
  <2>2. ProofsOfPast'
    <3>1. \A p \in proved : p[1] \in Nat
      BY <1>t DEF TypeInv, TypeOK, Attempt
    <3> QED BY <2>1, <3>1, <1>a, <1>b DEF ProofsOfPast
  <2> QED BY <2>1, <2>2, <1>b DEF ProofsMade, ProofIsFresh, Answering, Positive, PositiveIn,
               PositiveIsVerified, PeerIsExpected
<1>6. CASE NewResponder
  BY <1>6, <1>b DEF NewResponder, iVars, ProofsMade, ProofIsFresh, ProofsOfPast,
       Answering, Positive, PositiveIn, PositiveIsVerified, PeerIsExpected
<1>7. CASE OtherHello
  <2>1. PICK n \in Attempt :
          msgs' = msgs \cup {[type |-> "HELLO", node |-> "other", nonce |-> n]}
    BY <1>7 DEF OtherHello
  <2>2. UNCHANGED <<iNo, iState, rState, rPeer, rNonce, answer, proved, verified>>
    BY <1>7 DEF OtherHello, iVars, rVars
  <2>3. ProofsMade'
    BY <2>1, <2>2, <1>b DEF ProofsMade
  <2>4. PositiveIsVerified'
    <3>1. PositiveIn(msgs') => PositiveIn(msgs)
      BY <2>1, NotPositive, [type |-> "HELLO", node |-> "other", nonce |-> n].type = "HELLO"
    <3> QED BY <2>2, <3>1, <1>b DEF Positive, PositiveIsVerified
  <2> QED BY <2>2, <2>3, <2>4, <1>b DEF ProofIsFresh, ProofsOfPast, Answering, PeerIsExpected
<1>8. ASSUME NEW m \in msgs, Receive(m)
      PROVE  /\ ProofsMade' /\ ProofIsFresh' /\ ProofsOfPast'
             /\ Answering' /\ PositiveIsVerified' /\ PeerIsExpected'
  <2>1. m \in Message /\ msgs' \subseteq msgs
    BY <1>8, <1>a DEF Receive
  <2>2. CASE m.type = "HELLO" /\ ReceiveHello(m)
    <3>1. m.nonce # None
      BY <2>1, <2>2, MessageTypes, BoundsAssumption DEF Attempt, None
    <3> QED BY <2>1, <2>2, <3>1, <1>b DEF ReceiveHello, iVars, ProofsMade, ProofIsFresh,
                 ProofsOfPast, Answering, Positive, PositiveIn, PositiveIsVerified, PeerIsExpected
  <2>3. CASE m.type = "CHALLENGE" /\ ReceiveChallenge(m)
    BY <2>1, <2>3, <1>b DEF ReceiveChallenge, rVars, ProofsMade, ProofIsFresh,
         ProofsOfPast, Answering, Positive, PositiveIn, PositiveIsVerified, PeerIsExpected
  <2>4. CASE m.type = "PROOF" /\ VerifyProof(m)
    <3>1. PICK valid \in IF SignatureOK(m) THEN Verdicts(m) ELSE {FALSE} :
            /\ rState' = IF valid THEN "VERIFIED" ELSE "FAILED"
            /\ answer' = {valid}
            /\ verified' = IF valid THEN verified \cup {<<m.commitment, rNo>>}
                                    ELSE verified
      BY <2>4 DEF VerifyProof
    <3>2. /\ rState = "CHALLENGE_SENT"
          /\ UNCHANGED <<iNo, iState, rPeer, rNonce, proved>>
      BY <2>4 DEF VerifyProof, iVars
    <3>3. valid \in BOOLEAN /\ (valid => m.challenge = rNo)
      BY <3>1 DEF SignatureOK, Verdicts
    <3>4. ProofIsFresh'
      BY <2>4, <3>1, <3>2, <3>3, <1>b DEF ProofsMade, ProofIsFresh
    <3>5. PositiveIsVerified'
      BY <2>1, <3>1, <3>2, <3>3, <1>b DEF Positive, PositiveIn, PositiveIsVerified
    <3>6. rState' # "INIT"
      BY <3>1
    <3> QED BY <2>1, <3>2, <3>4, <3>5, <3>6, <1>b DEF ProofsMade, ProofsOfPast,
                 Answering, PeerIsExpected
  <2>5. CASE m.type = "RESULT" /\ ReceiveResult(m)
    <3>1. m.valid \in BOOLEAN
      BY <2>1, <2>5, MessageTypes
    <3> QED BY <2>1, <2>5, <3>1, <1>b DEF ReceiveResult, rVars, ProofsMade, ProofIsFresh,
                 ProofsOfPast, Answering, Positive, PositiveIn, PositiveIsVerified, PeerIsExpected
  <2>6. CASE Unexpected(m)
    BY <2>1, <2>6, <1>b DEF Unexpected, iVars, rVars, ProofsMade, ProofIsFresh,
         ProofsOfPast, Answering, Positive, PositiveIn, PositiveIsVerified, PeerIsExpected
  <2> QED BY <1>8, <2>2, <2>3, <2>4, <2>5, <2>6 DEF Receive
<1>9. ASSUME NEW m \in msgs, Lose(m)
      PROVE  /\ ProofsMade' /\ ProofIsFresh' /\ ProofsOfPast'
             /\ Answering' /\ PositiveIsVerified' /\ PeerIsExpected'
  BY <1>9, <1>b DEF Lose, iVars, rVars, ProofsMade, ProofIsFresh, ProofsOfPast,
       Answering, Positive, PositiveIn, PositiveIsVerified, PeerIsExpected
<1> QED BY <1>0, <1>1, <1>2, <1>3, <1>4, <1>5, <1>6, <1>7, <1>8, <1>9 DEF Next, Work

(* No proof of an earlier attempt, and none made for another challenge, is   *)
(* ever accepted by verify_proof.                                            *)
THEOREM LateProofsFail == Spec => []ProofIsFresh
<1>1. HInv => ProofIsFresh
  BY DEF HInv
<1> QED BY HInvInit, HInvStep, <1>1, PTL DEF Spec

(* A responder past INIT has the expected peer's data, although receive_hello *)
(* stores what any sender says.                                              *)
LEMMA ExpectedPeer == Spec => []PeerIsExpected
<1>1. HInv => PeerIsExpected
  BY DEF HInv
<1> QED BY HInvInit, HInvStep, <1>1, PTL DEF Spec

(* A confirmed initiator has had a proof of its own verified, by an object   *)
(* no later than the one in use.                                             *)
THEOREM ConfirmedWasVerified == Spec => []ConfirmedMeansVerified
<1>1. HInv => ConfirmedMeansVerified
  <2> SUFFICES ASSUME HInv, iState = "CONFIRMED"
               PROVE  \E v \in verified : v[1] <= iNo
    BY DEF ConfirmedMeansVerified
  <2>1. PICK v \in verified : TRUE
    BY DEF HInv, PositiveIsVerified, Positive
  <2>2. v[1] <= iNo
    BY <2>1 DEF HInv, ProofIsFresh, ProofsOfPast
  <2> QED BY <2>1, <2>2
<1> QED BY HInvInit, HInvStep, <1>1, PTL DEF Spec
-----------------------------------------------------------------------------
(* What the two ends of one handshake agree on.  A proof of the object in use *)
(* was made for the challenge that object still has; a proof verified by the  *)
(* object in use is the one whose commitment it still has.                    *)

Proved == iState \in {"PROOF_SENT", "CONFIRMED", "FAILED"}
Judged == rState \in {"VERIFIED", "CONFIRMED", "FAILED"}

OwnProof == \A p \in proved : p[1] = iNo => iChallenge = p[2] /\ Proved
OwnVerdict ==
  \A v \in verified : v[2] <= rNo /\ (v[2] = rNo => rProof = v[1] /\ Judged)
Answered == answer # {} => Judged

Agreed == OwnProof /\ OwnVerdict /\ Answered

LEMMA AgreedInit == Init => Agreed
  BY DEF Init, Agreed, OwnProof, OwnVerdict, Answered

LEMMA AgreedStep == HInv /\ Agreed /\ [Next]_vars => Agreed'
<1> SUFFICES ASSUME HInv, Agreed, [Next]_vars PROVE Agreed'
  OBVIOUS
<1>a. /\ iNo \in Nat /\ rNo \in Nat
      /\ \A p \in proved : p[1] \in Nat /\ p[1] <= iNo
      /\ \A v \in verified : v[2] \in Nat
  BY DEF HInv, TypeInv, TypeOK, Attempt, ProofsOfPast
<1>b. OwnProof /\ OwnVerdict /\ Answered
  BY DEF Agreed
<1>c. SUFFICES OwnProof' /\ OwnVerdict' /\ Answered'
  BY DEF Agreed
<1>i. ASSUME UNCHANGED <<iNo, iChallenge, proved>>, Proved => Proved'
      PROVE  OwnProof'
  BY <1>b, <1>i DEF OwnProof
<1>r. ASSUME UNCHANGED <<rNo, rProof, rState, answer, verified>>
      PROVE  OwnVerdict' /\ Answered'
  BY <1>b, <1>r DEF OwnVerdict, Answered, Judged
<1>0. CASE UNCHANGED vars
  BY <1>0, <1>i, <1>r DEF vars, iVars, rVars, Proved
<1>1. CASE CreateHello
  BY <1>1, <1>i, <1>r DEF CreateHello, rVars, Proved
<1>2. CASE CreateProof
  <2>1. /\ proved' = proved \cup {<<iNo, iChallenge>>} /\ iState' = "PROOF_SENT"
        /\ iState = "CHALLENGE_RECEIVED" /\ UNCHANGED <<iNo, iChallenge>>
    BY <1>2 DEF CreateProof
  <2>2. OwnProof'
    BY <2>1, <1>b DEF OwnProof, Proved
  <2> QED BY <1>2, <2>2, <1>r DEF CreateProof, rVars
<1>3. CASE CreateChallenge
  <2>1. /\ rState = "HELLO_RECEIVED" /\ rState' = "CHALLENGE_SENT"
        /\ UNCHANGED <<iNo, iState, iChallenge, rNo, rProof, answer, proved, verified>>
    BY <1>3 DEF CreateChallenge, iVars
  <2>2. OwnVerdict' /\ Answered'
    BY <2>1, <1>b DEF OwnVerdict, Answered, Judged
  <2> QED BY <2>1, <2>2, <1>i DEF Proved
<1>4. CASE CreateResult
  <2>1. /\ answer # {} /\ answer' = {} /\ rState' \in {"CONFIRMED", "FAILED"}
        /\ UNCHANGED <<iNo, iState, iChallenge, rNo, rProof, proved, verified>>
    BY <1>4 DEF CreateResult, iVars
  <2>2. OwnVerdict' /\ Answered'
    BY <2>1, <1>b DEF OwnVerdict, Answered, Judged
  <2> QED BY <2>1, <2>2, <1>i DEF Proved
<1>5. CASE NewInitiator
  <2>1. iNo' = iNo + 1 /\ UNCHANGED <<rVars, proved, verified>>
    BY <1>5 DEF NewInitiator
  <2>2. OwnProof'
    BY <2>1, <1>a DEF OwnProof
  <2> QED BY <2>1, <2>2, <1>r DEF rVars
<1>6. CASE NewResponder
  <2>1. /\ rNo' = rNo + 1 /\ answer' = {}
        /\ UNCHANGED <<iNo, iState, iChallenge, proved, verified>>
    BY <1>6 DEF NewResponder, iVars
  <2>2. OwnVerdict'
    BY <2>1, <1>a, <1>b DEF OwnVerdict
  <2> QED BY <2>1, <2>2, <1>i DEF Proved, Answered
<1>7. CASE OtherHello
  BY <1>7, <1>i, <1>r DEF OtherHello, iVars, rVars, Proved
<1>8. ASSUME NEW m \in msgs, Receive(m) PROVE OwnProof' /\ OwnVerdict' /\ Answered'
  <2>2. CASE m.type = "HELLO" /\ ReceiveHello(m)
    <3>1. /\ rState = "INIT"
          /\ UNCHANGED <<iNo, iState, iChallenge, rNo, rProof, answer, proved, verified>>
      BY <2>2 DEF ReceiveHello, iVars
    <3>2. OwnVerdict' /\ Answered'
      BY <3>1, <1>b DEF OwnVerdict, Answered, Judged
    <3> QED BY <3>1, <3>2, <1>i DEF Proved
  <2>3. CASE m.type = "CHALLENGE" /\ ReceiveChallenge(m)
    <3>1. iState = "HELLO_SENT" /\ UNCHANGED <<iNo, rVars, proved, verified>>
      BY <2>3 DEF ReceiveChallenge
    <3>2. OwnProof'
      BY <3>1, <1>b DEF OwnProof, Proved
    <3> QED BY <3>1, <3>2, <1>r DEF rVars
  <2>4. CASE m.type = "PROOF" /\ VerifyProof(m)
    <3>1. /\ rState = "CHALLENGE_SENT" /\ rState' \in {"VERIFIED", "FAILED"}
          /\ rProof' = m.commitment
          /\ verified' \in {verified, verified \cup {<<m.commitment, rNo>>}}
          /\ UNCHANGED <<iNo, iState, iChallenge, rNo, proved>>
      BY <2>4 DEF VerifyProof, iVars
    <3>2. \A v \in verified : v[2] # rNo
      BY <3>1, <1>b DEF OwnVerdict, Judged
    <3>3. OwnVerdict'
      BY <3>1, <3>2, <1>a, <1>b DEF OwnVerdict, Judged
    <3> QED BY <3>1, <3>3, <1>i DEF Proved, Judged, Answered
  <2>5. CASE m.type = "RESULT" /\ ReceiveResult(m)
    BY <2>5, <1>i, <1>r DEF ReceiveResult, rVars, Proved
  <2>6. CASE Unexpected(m)
    BY <2>6, <1>i, <1>r DEF Unexpected, iVars, rVars, Proved
  <2> QED BY <1>8, <2>2, <2>3, <2>4, <2>5, <2>6 DEF Receive
<1>9. ASSUME NEW m \in msgs, Lose(m) PROVE OwnProof' /\ OwnVerdict' /\ Answered'
  BY <1>9, <1>i, <1>r DEF Lose, iVars, rVars, Proved
<1> QED BY <1>0, <1>1, <1>2, <1>3, <1>4, <1>5, <1>6, <1>7, <1>8, <1>9 DEF Next, Work

(* Both ends of one confirmed handshake agree on the peer, the commitment and *)
(* the challenge, and their keys differ, whatever else has reached them.      *)
THEOREM SameHandshakeOtherKey == Spec => []OneHandshakeTwoKeys
<1>1. HInv /\ Agreed => OneHandshakeTwoKeys
  <2> SUFFICES ASSUME HInv, Agreed, iState = "CONFIRMED", rState = "CONFIRMED",
                      <<iNo, rNo>> \in verified
               PROVE  /\ rPeer = Initiator /\ rProof = iNo /\ iChallenge = rNo
                      /\ InitiatorKey # ResponderKey
    BY DEF OneHandshakeTwoKeys
  <2>1. iChallenge = rNo
    BY DEF HInv, ProofIsFresh, Agreed, OwnProof
  <2>2. rProof = iNo /\ rPeer = Initiator
    BY DEF HInv, PeerIsExpected, Agreed, OwnVerdict
  <2>3. InitiatorKey.nonce[1][1] # ResponderKey.nonce[1][1]
    BY DEF InitiatorKey, ResponderKey, Initiator
  <2> QED BY <2>1, <2>2, <2>3
<1> QED BY HInvInit, HInvStep, AgreedInit, AgreedStep, <1>1, PTL DEF Spec
-----------------------------------------------------------------------------
(* A first handshake that nothing disturbs goes through its phases in order. *)
TheHello == [type |-> "HELLO", node |-> Initiator, nonce |-> 1]
TheChallenge == [type |-> "CHALLENGE", challenge |-> 1]
TheProof(kind) == [type |-> "PROOF", kind |-> kind, commitment |-> 1, challenge |-> 1]
TheResult(valid) == [type |-> "RESULT", responder |-> 1, valid |-> valid]

Verdict(valid) == IF valid THEN "VERIFIED" ELSE "FAILED"
Outcome(valid) == IF valid THEN "CONFIRMED" ELSE "FAILED"

Phase(i, r, held, sent) ==
  iState = i /\ rState = r /\ answer = held /\ msgs = sent

InOrder ==
  \/ Phase("INIT", "INIT", {}, {})
  \/ Phase("HELLO_SENT", "INIT", {}, {TheHello})
  \/ Phase("HELLO_SENT", "HELLO_RECEIVED", {}, {})
  \/ Phase("HELLO_SENT", "CHALLENGE_SENT", {}, {TheChallenge})
  \/ Phase("CHALLENGE_RECEIVED", "CHALLENGE_SENT", {}, {}) /\ iChallenge = 1
  \/ \E kind \in {"simulated", "real"} :
       Phase("PROOF_SENT", "CHALLENGE_SENT", {}, {TheProof(kind)})
  \/ \E valid \in BOOLEAN :
       \/ Phase("PROOF_SENT", Verdict(valid), {valid}, {})
       \/ Phase("PROOF_SENT", Outcome(valid), {}, {TheResult(valid)})
       \/ Phase(Outcome(valid), Outcome(valid), {}, {})

FirstInv == Undisturbed => InOrder

LEMMA DisturbanceStays ==
  ASSUME TypeInv, [Next]_vars, Undisturbed'
  PROVE  Undisturbed /\ UNCHANGED <<iNo, rNo, faults>>
<1> USE BoundsAssumption DEF Undisturbed, TypeInv, TypeOK, Attempt
<1>1. CASE CreateHello \/ CreateProof
  BY <1>1 DEF CreateHello, CreateProof, rVars
<1>2. CASE CreateChallenge \/ CreateResult
  BY <1>2 DEF CreateChallenge, CreateResult, iVars
<1>3. ~NewInitiator /\ ~NewResponder /\ ~OtherHello /\ \A m \in msgs : ~Lose(m)
  BY DEF NewInitiator, NewResponder, OtherHello, Lose, Fault
<1>4. CASE \E m \in msgs : Receive(m)
  BY <1>4 DEF Receive, NoFault, ReceiveHello, ReceiveChallenge, VerifyProof,
     ReceiveResult, Unexpected, iVars, rVars
<1>5. CASE UNCHANGED vars
  BY <1>5 DEF vars, iVars, rVars
<1> QED
  BY <1>1, <1>2, <1>3, <1>4, <1>5 DEF Next, Work

(* Whichever message arrives then, it is the one its reader waits for.       *)
LEMMA ReceiveInOrder ==
  ASSUME TypeInv, PeerIsExpected, Undisturbed, InOrder, NEW m \in msgs, Receive(m)
  PROVE  /\ InOrder'
         /\ m.type = "PROOF" /\ m.kind = "simulated" => rState' = "VERIFIED"
<1> USE DEF Receive, Unexpected
<1>0. rNo = 1
  BY DEF Undisturbed
<1>1. CASE Phase("HELLO_SENT", "INIT", {}, {TheHello})
  <2>1. m = TheHello /\ m.type = "HELLO" /\ m.node = Initiator
    BY <1>1 DEF Phase, TheHello
  <2>2. rState' = "HELLO_RECEIVED" /\ UNCHANGED <<iState, answer>> /\ msgs' = {}
    BY <1>1, <2>1 DEF Phase, ReceiveHello, iVars
  <2> QED
    BY <1>1, <2>1, <2>2 DEF InOrder, Phase
<1>2. CASE Phase("HELLO_SENT", "CHALLENGE_SENT", {}, {TheChallenge})
  <2>1. m = TheChallenge /\ m.type = "CHALLENGE" /\ m.challenge = 1
    BY <1>2 DEF Phase, TheChallenge
  <2>2. iState' = "CHALLENGE_RECEIVED" /\ iChallenge' = 1
        /\ UNCHANGED <<rState, answer>> /\ msgs' = {}
    BY <1>2, <2>1 DEF Phase, ReceiveChallenge, rVars
  <2> QED
    BY <1>2, <2>1, <2>2 DEF InOrder, Phase
<1>3. ASSUME NEW kind \in {"simulated", "real"},
             Phase("PROOF_SENT", "CHALLENGE_SENT", {}, {TheProof(kind)})
      PROVE  /\ InOrder'
             /\ m.type = "PROOF" /\ m.kind = "simulated" => rState' = "VERIFIED"
  <2>1. m = TheProof(kind) /\ m.type = "PROOF" /\ m.kind = kind /\ m.challenge = 1
    BY <1>3 DEF Phase, TheProof
  <2>2. VerifyProof(m) /\ msgs' = {}
    BY <1>3, <2>1 DEF Phase
  <2>3. SignatureOK(m)
    BY <1>0, <1>3, <2>1 DEF SignatureOK, Phase, PeerIsExpected
  <2>4. PICK valid \in Verdicts(m) : rState' = Verdict(valid) /\ answer' = {valid}
    BY <2>2, <2>3 DEF VerifyProof, Verdict
  <2>5. valid \in BOOLEAN /\ (m.kind = "simulated" => valid)
    BY <1>0, <2>1, <2>4 DEF Verdicts
  <2>6. iState' = "PROOF_SENT"
    BY <1>3, <2>2 DEF Phase, VerifyProof, iVars
  <2>7. Phase("PROOF_SENT", Verdict(valid), {valid}, {})'
    BY <2>2, <2>4, <2>6 DEF Phase
  <2>8. InOrder'
    BY <2>5, <2>7 DEF InOrder, Phase
  <2> QED
    BY <2>4, <2>5, <2>8 DEF Verdict
<1>4. ASSUME NEW valid \in BOOLEAN,
             Phase("PROOF_SENT", Outcome(valid), {}, {TheResult(valid)})
      PROVE  /\ InOrder'
             /\ m.type # "PROOF"
  <2>1. m = TheResult(valid) /\ m.type = "RESULT" /\ m.valid = valid
    BY <1>4 DEF Phase, TheResult
  <2>2. ReceiveResult(m) /\ msgs' = {}
    BY <1>4, <2>1 DEF Phase
  <2>3. iState' = Outcome(valid) /\ UNCHANGED <<rState, answer>>
    BY <2>1, <2>2 DEF ReceiveResult, rVars, Outcome
  <2>4. Phase(Outcome(valid), Outcome(valid), {}, {})'
    BY <1>4, <2>2, <2>3 DEF Phase
  <2> QED
    BY <2>1, <2>4 DEF InOrder, Phase
<1> QED
  BY <1>1, <1>2, <1>3, <1>4 DEF InOrder, Phase

LEMMA FirstStep == TypeInv /\ PeerIsExpected /\ FirstInv /\ [Next]_vars => FirstInv'
<1> SUFFICES ASSUME TypeInv, PeerIsExpected, FirstInv, [Next]_vars, Undisturbed'
             PROVE  InOrder'
  BY DEF FirstInv
<1>0. Undisturbed /\ InOrder /\ iNo = 1 /\ rNo = 1
      /\ UNCHANGED <<iNo, rNo, faults>>
  BY DisturbanceStays DEF FirstInv, Undisturbed
<1>1. CASE CreateHello
  <2>1. msgs = {} /\ rState = "INIT" /\ answer = {}
    BY <1>0, <1>1 DEF CreateHello, InOrder, Phase, Outcome
  <2>2. Phase("HELLO_SENT", "INIT", {}, {TheHello})'
    BY <1>0, <1>1, <2>1 DEF CreateHello, Phase, TheHello, rVars
  <2> QED
    BY <2>2 DEF InOrder, Phase
<1>2. CASE CreateChallenge
  <2>1. Phase("HELLO_SENT", "HELLO_RECEIVED", {}, {})
    BY <1>0, <1>2 DEF CreateChallenge, InOrder, Phase, Verdict, Outcome
  <2>2. Phase("HELLO_SENT", "CHALLENGE_SENT", {}, {TheChallenge})'
    BY <1>0, <1>2, <2>1 DEF CreateChallenge, Phase, TheChallenge, iVars
  <2> QED
    BY <2>2 DEF InOrder, Phase
<1>3. CASE CreateProof
  <2>1. Phase("CHALLENGE_RECEIVED", "CHALLENGE_SENT", {}, {}) /\ iChallenge = 1
    BY <1>0, <1>3 DEF CreateProof, InOrder, Phase, Outcome
  <2>2. PICK kind \in {"simulated", "real"} : msgs' = msgs \cup {TheProof(kind)}
    BY <1>0, <1>3, <2>1 DEF CreateProof, TheProof
  <2>3. Phase("PROOF_SENT", "CHALLENGE_SENT", {}, {TheProof(kind)})'
    BY <1>3, <2>1, <2>2 DEF CreateProof, Phase, rVars, TheProof
  <2> QED
    BY <2>3 DEF InOrder, Phase
<1>4. CASE CreateResult
  <2>1. PICK valid \in BOOLEAN : Phase("PROOF_SENT", Verdict(valid), {valid}, {})
    BY <1>0, <1>4 DEF CreateResult, InOrder, Phase
  <2>2. rState' = Outcome(valid) /\ msgs' = {TheResult(valid)} /\ answer' = {}
    BY <1>0, <1>4, <2>1 DEF CreateResult, Phase, Outcome, TheResult
  <2>3. Phase("PROOF_SENT", Outcome(valid), {}, {TheResult(valid)})'
    BY <1>4, <2>1, <2>2 DEF CreateResult, Phase, iVars
  <2> QED
    BY <2>3 DEF InOrder, Phase
<1>5. ~NewInitiator /\ ~NewResponder /\ ~OtherHello /\ \A m \in msgs : ~Lose(m)
  BY <1>0, BoundsAssumption
     DEF NewInitiator, NewResponder, OtherHello, Lose, Fault, TypeInv, TypeOK
<1>6. CASE \E m \in msgs : Receive(m)
  BY <1>0, <1>6, ReceiveInOrder
<1>7. CASE UNCHANGED vars
  BY <1>0, <1>7 DEF vars, iVars, rVars, InOrder, Phase
<1> QED
  BY <1>1, <1>2, <1>3, <1>4, <1>5, <1>6, <1>7 DEF Next, Work

(* Until a first handshake that nothing disturbs is over, one party has      *)
(* something to do or a message is on its way that its reader waits for; no  *)
(* message comes too early or too late, and when the initiator is done both  *)
(* agree.  HandshakeEnds adds that the parties go on.                        *)
NextExpected(m) ==
  \/ m.type = "HELLO" /\ rState = "INIT"
  \/ m.type = "CHALLENGE" /\ iState = "HELLO_SENT"
  \/ m.type = "PROOF" /\ rState = "CHALLENGE_SENT"
  \/ m.type = "RESULT" /\ iState = "PROOF_SENT"

SomethingToDo ==
  \/ iState \in {"INIT", "CHALLENGE_RECEIVED"}
  \/ rState = "HELLO_RECEIVED"
  \/ answer # {}

FirstGoesOn ==
  Undisturbed =>
    /\ \A m \in msgs : NextExpected(m)
    /\ \/ iState = rState /\ iState \in {"CONFIRMED", "FAILED"}
       \/ SomethingToDo
       \/ msgs # {}
    /\ iState \in {"CONFIRMED", "FAILED"} => rState = iState

LEMMA FirstInvariant == Spec => [](TypeInv /\ PeerIsExpected /\ FirstInv)
<1>1. Init => FirstInv
  BY DEF Init, FirstInv, InOrder, Phase
<1>2. Spec => []TypeInv
  BY TypeInit, TypeStep, PTL DEF Spec
<1> QED
  BY <1>1, <1>2, FirstStep, ExpectedPeer, PTL DEF Spec

(* The safety half of HandshakeEnds: until it has ended on both sides, a      *)
(* first handshake that nothing disturbs has a step to take or a message on    *)
(* its way, which the object it is for expects.                              *)
THEOREM FirstHandshakeGoesOn == Spec => []FirstGoesOn
<1>1. FirstInv => FirstGoesOn
  <2> SUFFICES ASSUME Undisturbed, InOrder PROVE FirstGoesOn
    BY DEF FirstInv, FirstGoesOn
  <2>1. TheHello.type = "HELLO" /\ TheChallenge.type = "CHALLENGE"
        /\ (\A kind : TheProof(kind).type = "PROOF")
        /\ (\A valid : TheResult(valid).type = "RESULT")
    BY DEF TheHello, TheChallenge, TheProof, TheResult
  <2> QED
    BY <2>1 DEF InOrder, Phase, Outcome, FirstGoesOn, NextExpected, SomethingToDo
<1> QED
  BY <1>1, FirstInvariant, PTL

(* The responder finds valid the simulated proof of a first handshake that   *)
(* nothing disturbs: the two sides compute its content from the same data.    *)
HonestProofPasses ==
  [][\A m \in msgs :
       Undisturbed' /\ m.type = "PROOF" /\ m.kind = "simulated" /\ m \notin msgs'
         => rState' = "VERIFIED"]_vars

(* In such a handshake, a simulated proof that the responder reads verifies.  *)
THEOREM HonestProofsPass == Spec => HonestProofPasses
<1>1. TypeInv /\ PeerIsExpected /\ FirstInv /\ [Next]_vars =>
        \A m \in msgs :
          Undisturbed' /\ m.type = "PROOF" /\ m.kind = "simulated" /\ m \notin msgs'
            => rState' = "VERIFIED"
  <2> SUFFICES ASSUME TypeInv, PeerIsExpected, FirstInv, [Next]_vars, Undisturbed',
                      NEW m \in msgs, m \notin msgs',
                      m.type = "PROOF", m.kind = "simulated"
               PROVE  rState' = "VERIFIED"
    OBVIOUS
  <2>1. Undisturbed /\ InOrder /\ UNCHANGED <<iNo, rNo, faults>>
    BY DisturbanceStays DEF FirstInv
  <2>2. ~Work /\ ~UNCHANGED vars
    BY DEF Work, CreateHello, CreateProof, CreateChallenge, CreateResult, vars
  <2>3. ~NewInitiator /\ ~NewResponder /\ ~OtherHello /\ \A w \in msgs : ~Lose(w)
    BY <2>1, BoundsAssumption
       DEF NewInitiator, NewResponder, OtherHello, Lose, Fault, TypeInv, TypeOK
  <2>4. PICK w \in msgs : Receive(w)
    BY <2>2, <2>3 DEF Next
  <2>5. w = m
    BY <2>4 DEF Receive
  <2> QED
    BY <2>1, <2>4, <2>5, ReceiveInOrder
<1> QED
  BY <1>1, FirstInvariant, PTL DEF Spec, HonestProofPasses
=============================================================================
