------------------------------ MODULE Handshake ------------------------------
(***************************************************************************)
(* session/handshake.py: SessionHandshake, by which a node proves itself to *)
(* a peer in five messages and both derive a session key.                   *)
(*                                                                          *)
(* A SessionHandshake serves one attempt; a party that gives up or crashes  *)
(* goes on with a new one.  Messages of earlier attempts may still be on    *)
(* their way, and reach the object in use: no method looks at session_id,   *)
(* sender_id or timestamp.  Objects are numbered on each side; the number   *)
(* of an initiator's object stands for its nonce, its session id and its    *)
(* commitment, the number of a responder's for its nonce and its challenge. *)
(***************************************************************************)
EXTENDS Naturals

CONSTANTS MaxAttempts,  \* bound: objects of each party
          MaxFaults     \* bound: lost messages and HELLOs of other nodes

ASSUME BoundsAssumption == MaxAttempts \in Nat \ {0} /\ MaxFaults \in Nat

Attempt == 1 .. MaxAttempts
Initiator == "initiator"    \* the responder's peer_node_id, and its public key
Node == {Initiator, "other"}

Hello     == [type: {"HELLO"}, node: Node, nonce: Attempt]
Challenge == [type: {"CHALLENGE"}, challenge: Attempt]
Proof     == [type: {"PROOF"}, kind: {"simulated", "real"},
              commitment: Attempt, challenge: Attempt]
Result    == [type: {"RESULT"}, responder: Attempt, valid: BOOLEAN]
Message   == Hello \cup Challenge \cup Proof \cup Result

None == 0

VARIABLES
  iNo,        \* the initiator's object in use
  iState,     \* its state
  iChallenge, \* challenge and peer_nonce
  rNo,        \* the responder's object in use
  rState,     \* its state
  rPeer,      \* peer_public_key, of whom
  rNonce,     \* peer_nonce and session_id
  rProof,     \* commitment
  answer,     \* what verify_proof has returned and create_result not yet sent
  msgs,       \* messages on their way
  proved,     \* history: <<commitment, challenge>> of every proof made
  verified,   \* history: the same of every proof found valid, by whose challenge
  faults

iVars == <<iNo, iState, iChallenge>>
rVars == <<rNo, rState, rPeer, rNonce, rProof, answer>>
vars  == <<iVars, rVars, msgs, proved, verified, faults>>

IStates == {"INIT", "HELLO_SENT", "CHALLENGE_RECEIVED", "PROOF_SENT",
            "CONFIRMED", "FAILED"}
RStates == {"INIT", "HELLO_RECEIVED", "CHALLENGE_SENT", "VERIFIED",
            "CONFIRMED", "FAILED"}

TypeOK ==
  /\ iNo \in Attempt /\ iState \in IStates
  /\ iChallenge \in Attempt \cup {None}
  /\ rNo \in Attempt /\ rState \in RStates
  /\ rPeer \in Node \cup {"unknown"}
  /\ rNonce \in Attempt \cup {None} /\ rProof \in Attempt \cup {None}
  /\ answer \in SUBSET BOOLEAN
  /\ msgs \in SUBSET Message
  /\ proved \in SUBSET (Attempt \X Attempt)
  /\ verified \in SUBSET (Attempt \X Attempt)
  /\ faults \in 0 .. MaxFaults

Init ==
  /\ iNo = 1 /\ iState = "INIT" /\ iChallenge = None
  /\ rNo = 1 /\ rState = "INIT" /\ rPeer = "unknown"
  /\ rNonce = None /\ rProof = None /\ answer = {}
  /\ msgs = {} /\ proved = {} /\ verified = {}
  /\ faults = 0

NoFault == UNCHANGED faults
Fault == faults < MaxFaults /\ faults' = faults + 1
-----------------------------------------------------------------------------
(* The initiator.  Its proof takes up to three minutes in a subprocess and   *)
(* is a simulated one if that fails; PROOF_GENERATING is seen by nobody.     *)

\* A bug: the peer's nonce instead of the local one.
CreateHello_PeerNonce ==
  /\ iState = "INIT"
  /\ iState' = "HELLO_SENT"
  /\ msgs' = msgs \cup {[type |-> "HELLO", node |-> Initiator, nonce |-> iChallenge]}
  /\ UNCHANGED <<iNo, iChallenge, rVars, proved, verified, faults>>

CreateHello ==
  /\ iState = "INIT"
  /\ iState' = "HELLO_SENT"
  /\ msgs' = msgs \cup {[type |-> "HELLO", node |-> Initiator, nonce |-> iNo]}
  /\ UNCHANGED <<iNo, iChallenge, rVars, proved, verified, faults>>

ReceiveChallenge(m) ==
  /\ iState = "HELLO_SENT"
  /\ iState' = "CHALLENGE_RECEIVED"
  /\ iChallenge' = m.challenge
  /\ UNCHANGED <<iNo, rVars, proved, verified>>

CreateProof ==
  /\ iState = "CHALLENGE_RECEIVED"
  /\ iState' = "PROOF_SENT"
  /\ \E kind \in {"simulated", "real"} :
       msgs' = msgs \cup {[type |-> "PROOF", kind |-> kind,
                           commitment |-> iNo, challenge |-> iChallenge]}
  /\ proved' = proved \cup {<<iNo, iChallenge>>}
  /\ UNCHANGED <<iNo, iChallenge, rVars, verified, faults>>

ReceiveResult(m) ==
  /\ iState = "PROOF_SENT"
  /\ iState' = IF m.valid THEN "CONFIRMED" ELSE "FAILED"
  /\ UNCHANGED <<iNo, iChallenge, rVars, proved, verified>>

NewInitiator ==
  /\ iNo < MaxAttempts
  /\ iNo' = iNo + 1 /\ iState' = "INIT" /\ iChallenge' = None
  /\ UNCHANGED <<rVars, msgs, proved, verified, faults>>
-----------------------------------------------------------------------------
(* The responder.                                                            *)

\* A bug: no look at the state.
ReceiveHello_Late(m) ==
  /\ rPeer' = m.node /\ rNonce' = m.nonce
  /\ rState' = IF m.node = Initiator THEN "HELLO_RECEIVED" ELSE rState
  /\ UNCHANGED <<iVars, rNo, rProof, answer, proved, verified>>

\* The peer's data are stored before its identity is compared, which raises.
ReceiveHello(m) ==
  /\ rState = "INIT"
  /\ rPeer' = m.node /\ rNonce' = m.nonce
  /\ rState' = IF m.node = Initiator THEN "HELLO_RECEIVED" ELSE rState
  /\ UNCHANGED <<iVars, rNo, rProof, answer, proved, verified>>

\* A bug: create_challenge does not advance the state.
CreateChallenge_Stay ==
  /\ rState = "HELLO_RECEIVED"
  /\ msgs' = msgs \cup {[type |-> "CHALLENGE", challenge |-> rNo]}
  /\ UNCHANGED <<iVars, rVars, proved, verified, faults>>

CreateChallenge ==
  /\ rState = "HELLO_RECEIVED"
  /\ rState' = "CHALLENGE_SENT"
  /\ msgs' = msgs \cup {[type |-> "CHALLENGE", challenge |-> rNo]}
  /\ UNCHANGED <<iVars, rNo, rPeer, rNonce, rProof, answer, proved, verified, faults>>

\* A bug: the signature is checked over the proof alone.
SignatureOK_ProofOnly(m) == rPeer = Initiator

\* The initiator signed the proof together with its challenge; the responder
\* tries its own public key, then the peer's.
SignatureOK(m) == rPeer = Initiator /\ m.challenge = rNo

\* Answers the verification may give.  A simulated proof names the node and
\* the challenge; what the external verifier makes of a real one is open.
Verdicts(m) ==
  IF m.kind = "simulated" THEN {m.challenge = rNo} ELSE BOOLEAN

VerifyProof(m) ==
  /\ rState = "CHALLENGE_SENT"
  /\ rProof' = m.commitment
  /\ \E valid \in IF SignatureOK(m) THEN Verdicts(m) ELSE {FALSE} :
       /\ rState' = IF valid THEN "VERIFIED" ELSE "FAILED"
       /\ answer' = {valid}
       /\ verified' = IF valid THEN verified \cup {<<m.commitment, rNo>>} ELSE verified
  /\ UNCHANGED <<iVars, rNo, rPeer, rNonce, proved>>

\* A bug: the result is always positive.
CreateResult_True ==
  /\ answer # {}
  /\ rState' = "CONFIRMED"
  /\ msgs' = msgs \cup {[type |-> "RESULT", responder |-> rNo, valid |-> TRUE]}
  /\ answer' = {}
  /\ UNCHANGED <<iVars, rNo, rPeer, rNonce, rProof, proved, verified, faults>>

\* create_result, called with what verify_proof returned.
CreateResult ==
  /\ \E valid \in answer :
       /\ rState' = IF valid THEN "CONFIRMED" ELSE "FAILED"
       /\ msgs' = msgs \cup {[type |-> "RESULT", responder |-> rNo, valid |-> valid]}
  /\ answer' = {}
  /\ UNCHANGED <<iVars, rNo, rPeer, rNonce, rProof, proved, verified, faults>>

NewResponder ==
  /\ rNo < MaxAttempts
  /\ rNo' = rNo + 1 /\ rState' = "INIT" /\ rPeer' = "unknown"
  /\ rNonce' = None /\ rProof' = None /\ answer' = {}
  /\ UNCHANGED <<iVars, msgs, proved, verified, faults>>
-----------------------------------------------------------------------------
(* The network, in no order.                                                 *)

\* Called in another state, a method raises and the message is gone.
Unexpected(m) ==
  /\ \/ m.type = "HELLO" /\ rState # "INIT"
     \/ m.type = "CHALLENGE" /\ iState # "HELLO_SENT"
     \/ m.type = "PROOF" /\ rState # "CHALLENGE_SENT"
     \/ m.type = "RESULT" /\ iState # "PROOF_SENT"
  /\ UNCHANGED <<iVars, rVars, proved, verified>>

Receive(m) ==
  /\ m \in msgs
  /\ msgs' = msgs \ {m}
  /\ NoFault
  /\ \/ m.type = "HELLO" /\ ReceiveHello(m)
     \/ m.type = "CHALLENGE" /\ ReceiveChallenge(m)
     \/ m.type = "PROOF" /\ VerifyProof(m)
     \/ m.type = "RESULT" /\ ReceiveResult(m)
     \/ Unexpected(m)

Lose(m) ==
  /\ m \in msgs /\ Fault
  /\ msgs' = msgs \ {m}
  /\ UNCHANGED <<iVars, rVars, proved, verified>>

\* Another node takes the responder's object for the one it is to talk to.
OtherHello ==
  /\ Fault
  /\ \E n \in Attempt :
       msgs' = msgs \cup {[type |-> "HELLO", node |-> "other", nonce |-> n]}
  /\ UNCHANGED <<iVars, rVars, proved, verified>>
-----------------------------------------------------------------------------
Work == CreateHello \/ CreateProof \/ CreateChallenge \/ CreateResult

Next ==
  \/ Work \/ NewInitiator \/ NewResponder \/ OtherHello
  \/ \E m \in msgs : Receive(m) \/ Lose(m)

Spec == Init /\ [][Next]_vars

\* Both parties go on as long as they have something to do or to read.
FairSpec == Spec /\ WF_vars(Work) /\ WF_vars(\E m \in msgs : Receive(m))
-----------------------------------------------------------------------------
(* A proof found valid was made, by the object whose commitment it carries,  *)
(* for the challenge of the very object that verified it: a proof of an      *)
(* earlier attempt that arrives late never counts.                           *)
ProofIsFresh == verified \subseteq proved

(* An initiator is told that its handshake succeeded only after a responder  *)
(* has verified a proof of this initiator: of this handshake, if it is its   *)
(* first.  (A late RESULT of an earlier attempt confirms a later one.)       *)
ConfirmedMeansVerified ==
  iState = "CONFIRMED" => \E v \in verified : v[1] <= iNo

(* No message goes unanswered: a first handshake that nothing disturbs ends, *)
(* and both parties agree about its outcome.                                 *)
Undisturbed == iNo = 1 /\ rNo = 1 /\ faults = 0
HandshakeEnds ==
  (Undisturbed /\ iState = "INIT")
    ~> (~Undisturbed \/ (iState = rState /\ iState \in {"CONFIRMED", "FAILED"}))

(* The keys.  The initiator passes its own public key and its own nonce      *)
(* followed by the responder's; the responder does the same from its side.   *)
InitiatorKey == [commitment |-> iNo, publicKey |-> Initiator,
                 nonce |-> << <<Initiator, iNo>>, <<"responder", iChallenge>> >>]
ResponderKey == [commitment |-> rProof, publicKey |-> rPeer,
                 nonce |-> << <<"responder", rNo>>, <<rPeer, rNonce>> >>]

(* When both ends have confirmed one and the same handshake, they agree on    *)
(* who the peer is, on the commitment and on the challenge, whatever HELLOs,  *)
(* CHALLENGEs and PROOFs of other attempts or nodes have reached them: the    *)
(* methods store what such a message says, some before they reject it.        *)
(* Their keys differ all the same, for the order of the nonces, although the  *)
(* code calls receive_result's derivation the "same derivation as responder". *)
OneHandshakeTwoKeys ==
  (/\ iState = "CONFIRMED" /\ rState = "CONFIRMED"
   /\ <<iNo, rNo>> \in verified)
    => /\ rPeer = Initiator /\ rProof = iNo /\ iChallenge = rNo
       /\ InitiatorKey # ResponderKey
=============================================================================
