---------------------------- MODULE MessageAuth ----------------------------
(***************************************************************************)
(* Authenticated messages of an established session: one end's Session and *)
(* HMACAuth number, stamp and tag them, the other end's verify them.  The   *)
(* network delays, reorders, duplicates and loses messages, the clocks of   *)
(* the two ends differ, and either end may close its session or go on to a  *)
(* new one before the other does.                                           *)
(*                                                                          *)
(* The tag covers the session id, the proof's hash, the number, the stamp   *)
(* and the payload under the session's key: it verifies when the message is *)
(* of the session the receiver is in.  Sessions are numbered in the order   *)
(* the handshakes establish them.                                           *)
(***************************************************************************)
EXTENDS Integers, Sequences

CONSTANTS MaxAge,       \* max_age_seconds
          MaxAhead,     \* the clock skew verify_tag allows
          MaxSkew,      \* by how much the clocks really differ
          MaxSessions,  \* bound: sessions
          MaxMessages,  \* bound: messages of all sessions
          MaxTime,      \* bound: the sender's clock
          MaxFaults     \* bound: duplicated and lost messages

ASSUME ClocksAssumption == MaxAge \in Nat /\ MaxAhead \in Nat /\ MaxSkew \in Nat
ASSUME BoundsAssumption ==
  /\ MaxSessions \in Nat /\ MaxMessages \in Nat
  /\ MaxTime \in Nat /\ MaxFaults \in Nat

None == 0
Sessions == 1 .. MaxSessions

\* no tells messages apart for the properties; the receiver does not see it.
Message == [no: 1 .. MaxMessages, session: Sessions, seq: 1 .. MaxMessages,
            ts: 0 .. MaxTime]

VARIABLES
  now,        \* time, which the sender's clock shows
  skew,       \* the receiver's clock less the sender's
  \* the sender's Session
  sSession, sActive,
  sendSeq,    \* hmac_auth.sequence_number
  \* the receiver's Session
  rSession, rActive,
  recvSeq,    \* recv_seq
  \* between them
  sent,       \* messages created so far, in all sessions
  wire,       \* messages on their way
  accepted,   \* history: messages found valid, each with the time
  faults

clocks   == <<now, skew>>
sender   == <<sSession, sActive, sendSeq>>
receiver == <<rSession, rActive, recvSeq>>
vars     == <<clocks, sender, receiver, sent, wire, accepted, faults>>

TypeOK ==
  /\ now \in 0 .. MaxTime /\ skew \in -MaxSkew .. MaxSkew
  /\ sSession \in {None} \cup Sessions /\ sActive \in BOOLEAN
  /\ rSession \in {None} \cup Sessions /\ rActive \in BOOLEAN
  /\ sent \in 0 .. MaxMessages
  /\ sendSeq \in 0 .. sent /\ recvSeq \in 0 .. sent
  /\ wire \subseteq Message
  /\ accepted \in Seq([msg: Message, at: 0 .. MaxTime])
  /\ faults \in 0 .. MaxFaults

Init ==
  /\ now = 0 /\ skew \in -MaxSkew .. MaxSkew
  /\ sSession = None /\ sActive = FALSE /\ sendSeq = 0
  /\ rSession = None /\ rActive = FALSE /\ recvSeq = 0
  /\ sent = 0 /\ wire = {} /\ accepted = <<>>
  /\ faults = 0

NoFault == UNCHANGED faults
Fault == faults < MaxFaults /\ faults' = faults + 1
-----------------------------------------------------------------------------
(* The two ends.  A handshake may end on one side only, or later there.      *)

EstablishSender ==
  /\ sSession' \in {s \in Sessions : s > sSession}
  /\ sActive' = TRUE /\ sendSeq' = 0
  /\ UNCHANGED <<clocks, receiver, sent, wire, accepted, faults>>

EstablishReceiver ==
  /\ rSession' \in {s \in Sessions : s > rSession}
  /\ rActive' = TRUE /\ recvSeq' = 0
  /\ UNCHANGED <<clocks, sender, sent, wire, accepted, faults>>

\* close or expire
CloseSender ==
  /\ sActive /\ sActive' = FALSE
  /\ UNCHANGED <<clocks, sSession, sendSeq, receiver, sent, wire, accepted, faults>>

CloseReceiver ==
  /\ rActive /\ rActive' = FALSE
  /\ UNCHANGED <<clocks, rSession, recvSeq, sender, sent, wire, accepted, faults>>

\* create_tag
Tagged(seq) == [no |-> sent', session |-> sSession, seq |-> seq, ts |-> now]

\* A bug: the number is taken before it is increased.
CreateMessage_OldSeq ==
  /\ sActive /\ sent < MaxMessages
  /\ sent' = sent + 1 /\ sendSeq' = sendSeq + 1
  /\ wire' = wire \cup {Tagged(sendSeq)}
  /\ UNCHANGED <<clocks, sSession, sActive, receiver, accepted, faults>>

\* create_authenticated_message
CreateMessage ==
  /\ sActive /\ sent < MaxMessages
  /\ sent' = sent + 1 /\ sendSeq' = sendSeq + 1
  /\ wire' = wire \cup {Tagged(sendSeq')}
  /\ UNCHANGED <<clocks, sSession, sActive, receiver, accepted, faults>>
-----------------------------------------------------------------------------
Age(m) == now + skew - m.ts

\* A bug: no message may come from the future.
Timely_NoSlack(m) == Age(m) <= MaxAge /\ Age(m) >= 0

\* A bug: a difference of the clocks is allowed for, old age is not looked at.
Timely_AnyAge(m) == Age(m) >= -MaxAhead

Timely(m) == Age(m) <= MaxAge /\ Age(m) >= -MaxAhead

\* Taken for granted here: both ends of a session have one key and one session
\* id.  The handshake of this repository does not see to it: its two ends derive
\* different keys (Handshake!OneHandshakeTwoKeys), and each end's Session draws
\* an id of its own.
TagMatches(m) == m.session = rSession

\* verify_tag, with min_seq = recv_seq
Valid(m) == rActive /\ Timely(m) /\ m.seq > recvSeq /\ TagMatches(m)

\* A bug: the number of a valid message is not recorded.
VerifyMessage_Forget(m) ==
  /\ accepted' = IF Valid(m)
                 THEN Append(accepted, [msg |-> m, at |-> now]) ELSE accepted
  /\ UNCHANGED <<clocks, sender, receiver, sent>>

\* verify_authenticated_message.  One step: recv_seq is tested and set without a
\* lock, but no two threads of the repository verify for one session.
VerifyMessage(m) ==
  /\ IF Valid(m)
     THEN /\ recvSeq' = m.seq
          /\ accepted' = Append(accepted, [msg |-> m, at |-> now])
     ELSE UNCHANGED <<recvSeq, accepted>>
  /\ UNCHANGED <<clocks, sender, rSession, rActive, sent>>

\* The message arrives, and perhaps will again.
Receive(m) ==
  /\ m \in wire
  /\ \/ NoFault /\ wire' = wire \ {m}
     \/ Fault /\ UNCHANGED wire
  /\ VerifyMessage(m)

Lose(m) ==
  /\ m \in wire /\ Fault
  /\ wire' = wire \ {m}
  /\ UNCHANGED <<clocks, sender, receiver, sent, accepted>>

Tick ==
  /\ now < MaxTime /\ now' = now + 1
  /\ UNCHANGED <<skew, sender, receiver, sent, wire, accepted, faults>>

\* The receiver's clock is set.
SetClock ==
  /\ skew' \in -MaxSkew .. MaxSkew
  /\ UNCHANGED <<now, sender, receiver, sent, wire, accepted, faults>>
-----------------------------------------------------------------------------
Next ==
  \/ EstablishSender \/ EstablishReceiver \/ CloseSender \/ CloseReceiver
  \/ CreateMessage \/ Tick \/ SetClock
  \/ \E m \in wire : Receive(m) \/ Lose(m)

Spec == Init /\ [][Next]_vars

\* What is on its way arrives, unless it is lost.
FairSpec ==
  Spec /\ \A n \in 1 .. MaxMessages :
            WF_vars(\E m \in wire : m.no = n /\ Receive(m))
-----------------------------------------------------------------------------
\* A message no later one of which has been accepted.
Awaited(m) ==
  \/ m.session > rSession
  \/ m.session = rSession /\ m.seq > recvSeq

(* "Replay Protection: Sequence numbers + timestamps" (README.md:196).  Of a *)
(* network that reorders and duplicates, and of ends that close, expire and  *)
(* start sessions at different times, the numbers make a line that delivers  *)
(* each message once at most, in the order the messages were created, also   *)
(* across sessions; a message that is overtaken is lost.                     *)
Line == INSTANCE LossyLine WITH
  transit <- {m.no : m \in {w \in wire : Awaited(w)}},
  delivered <- [i \in DOMAIN accepted |-> accepted[i].msg.no]
ImplementsLine == Line!Spec

(* However the receiver's clock is set while messages are on their way, none *)
(* is accepted that is older than the limit and the clocks' difference.      *)
AcceptedFresh ==
  \A i \in DOMAIN accepted :
    accepted[i].at - accepted[i].msg.ts <= MaxAge + MaxSkew

\* The receiver may still accept m.
Open(m) == rActive /\ TagMatches(m) /\ m.seq > recvSeq /\ Age(m) <= MaxAge

(* The slack of verify_tag is enough for clocks that differ by no more: a    *)
(* message that is neither overtaken nor too late, of a session both ends    *)
(* are in, is accepted when it arrives, however far the clocks run ahead.    *)
TimelyPasses ==
  \A n \in 1 .. MaxMessages, f \in 0 .. MaxFaults :
    ((\E m \in wire : m.no = n /\ Open(m)) /\ faults = f)
      ~> ((\E i \in DOMAIN accepted : accepted[i].msg.no = n)
          \/ (\E m \in wire : m.no = n /\ ~Open(m))
          \/ faults # f)
=============================================================================
