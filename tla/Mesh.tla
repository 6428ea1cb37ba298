-------------------------------- MODULE Mesh --------------------------------
(***************************************************************************)
(* The mesh of BlockchainRadioV3: a line of nodes 0 .. Repeaters + 1.  The   *)
(* producer (0) numbers RadioA's messages, attaches a proof to each and      *)
(* queues it; a repeater queues what it receives and verifies it; the last   *)
(* node delivers to RadioB.  Every node but the last has a receiving and a   *)
(* forwarding thread, with a bounded PacketQueue between them.               *)
(*                                                                          *)
(* A forwarder sends a packet once, over a new connection, and then waits    *)
(* for an answer without a time-out; ACK, FAIL and DUP are only logged.       *)
(* Proofs are made and verified by scripts outside src/BlockchainRadioV3/    *)
(* network: the outcome of a real proof's verification is left open, a       *)
(* simulated one always verifies.  Nothing alters a packet's data.           *)
(***************************************************************************)
EXTENDS Naturals, Sequences, FiniteSets

CONSTANTS Repeaters,     \* number of repeaters
          QueueSize,     \* maxsize of a PacketQueue
          MaxMessages,   \* bound: messages of RadioA
          MaxFaults      \* bound: restarts, failed connections, torn reads

ASSUME RepeatersAssumption == Repeaters \in Nat
ASSUME QueueAssumption == QueueSize \in Nat \ {0}
ASSUME BoundsAssumption == MaxMessages \in Nat /\ MaxFaults \in Nat

Last == Repeaters + 1
Nodes == 0 .. Last
Senders == 0 .. Repeaters
Relays == 1 .. Repeaters
Messages == 1 .. MaxMessages
Uids == 1 .. MaxMessages
None == 0

\* msg tells the messages apart for the properties; the nodes see only uid.
Packet == [msg : Messages, uid : Uids, real : BOOLEAN, hops : Nat]
AtMostOne == {s \in Seq(Packet) : Len(s) <= 1}

VARIABLES
  sent,       \* messages received from RadioA
  nextUid,    \* the producer's uid_counter
  adding,     \* the packet a receiving thread is putting into its queue
  queue,      \* PacketQueue.queue
  seen,       \* PacketQueue.seen_uids; received_packets at the last node
  verifying,  \* the packet verify_zk_proof is at, already queued
  taken,      \* the packet a forwarding thread has taken from its queue
  waiting,    \* the message whose answer a forwarding thread waits for
  inbound,    \* packets on connections a node has not accepted yet
  delivered,  \* packets RadioB was sent, in order
  accepted,   \* history: <<node, message>> verified by a repeater
  rejected,   \* history: <<node, message>> refused by a repeater
  torn,       \* history: messages whose packet was not read as a whole
  faults

vars == <<sent, nextUid, adding, queue, seen, verifying, taken, waiting,
          inbound, delivered, accepted, rejected, torn, faults>>

TypeOK ==
  /\ sent \in 0 .. MaxMessages
  /\ nextUid \in 1 .. sent + 1
  /\ adding \in [Senders -> AtMostOne]
  /\ queue \in [Senders -> Seq(Packet)]
  /\ \A n \in Senders : Len(queue[n]) <= QueueSize
  /\ seen \in [Nodes -> SUBSET Uids]
  /\ verifying \in [Senders -> AtMostOne]
  /\ taken \in [Senders -> AtMostOne]
  /\ waiting \in [Senders -> {None} \cup Messages]
  /\ inbound \in [Nodes -> Seq(Packet)]
  /\ delivered \in Seq(Packet)
  /\ accepted \subseteq Relays \X Messages
  /\ rejected \subseteq Relays \X Messages
  /\ torn \subseteq Messages
  /\ faults \in 0 .. MaxFaults

Init ==
  /\ sent = 0 /\ nextUid = 1
  /\ adding = [n \in Senders |-> <<>>]
  /\ queue = [n \in Senders |-> <<>>]
  /\ seen = [n \in Nodes |-> {}]
  /\ verifying = [n \in Senders |-> <<>>]
  /\ taken = [n \in Senders |-> <<>>]
  /\ waiting = [n \in Senders |-> None]
  /\ inbound = [n \in Nodes |-> <<>>]
  /\ delivered = <<>> /\ accepted = {} /\ rejected = {} /\ torn = {}
  /\ faults = 0

Fault == faults < MaxFaults /\ faults' = faults + 1
NoFault == UNCHANGED faults
-----------------------------------------------------------------------------
(* Receiving threads.                                                        *)

\* generate_zk_proof falls back to a simulated proof when the script fails.
\* The uid is new to the producer's own queue.
Receive(real) ==
  /\ adding[0] = <<>> /\ sent < MaxMessages
  /\ sent' = sent + 1
  /\ nextUid' = nextUid + 1
  /\ adding' = [adding EXCEPT ![0] =
       <<[msg |-> sent', uid |-> nextUid, real |-> real, hops |-> 0]>>]
  /\ seen' = [seen EXCEPT ![0] = @ \cup {nextUid}]
  /\ UNCHANGED <<queue, verifying, taken, waiting, inbound,
                 delivered, accepted, rejected, torn, faults>>

\* The thread is back at accept() and takes the oldest connection.
Accepts(n) ==
  /\ n \in Relays => adding[n] = <<>> /\ verifying[n] = <<>>
  /\ inbound[n] # <<>>
  /\ inbound' = [inbound EXCEPT ![n] = Tail(@)]

Oldest(n) == Head(inbound[n])

\* The sender reads an answer, unless it has restarted meanwhile.
Answer(n, p) ==
  waiting' = IF waiting[n - 1] = p.msg
             THEN [waiting EXCEPT ![n - 1] = None] ELSE waiting

\* recv(8192) returns a part of the packet, from_bytes raises, and the
\* connection stays open until the next accept() returns.
ReadTorn(n) ==
  /\ Accepts(n) /\ Fault
  /\ torn' = torn \cup {Oldest(n).msg}
  /\ UNCHANGED <<sent, nextUid, adding, queue, seen, verifying, taken, waiting,
                 delivered, accepted, rejected>>

\* A bug: the highest uid is remembered in place of the set.
IsDuplicate_Watermark(n, p) == \E u \in seen[n] : p.uid <= u

IsDuplicate(n, p) == p.uid \in seen[n]

\* A bug: the connection is neither answered nor closed.
AnswerDuplicate_Silent(n) ==
  /\ Accepts(n) /\ IsDuplicate(n, Oldest(n))
  /\ UNCHANGED <<sent, nextUid, adding, queue, seen, verifying, taken, waiting,
                 delivered, accepted, rejected, torn, faults>>

AnswerDuplicate(n) ==
  /\ Accepts(n) /\ IsDuplicate(n, Oldest(n))
  /\ Answer(n, Oldest(n))
  /\ UNCHANGED <<sent, nextUid, adding, queue, seen, verifying, taken,
                 delivered, accepted, rejected, torn, faults>>

\* PacketQueue.add marks the packet as seen ...
StartAdding(n) ==
  /\ Accepts(n) /\ ~IsDuplicate(n, Oldest(n))
  /\ seen' = [seen EXCEPT ![n] = @ \cup {Oldest(n).uid}]
  /\ adding' = [adding EXCEPT ![n] = <<Oldest(n)>>]
  /\ UNCHANGED <<sent, nextUid, queue, verifying, taken, waiting,
                 delivered, accepted, rejected, torn, faults>>

\* A bug: one packet too many.
Put_Overfull(n) ==
  /\ adding[n] # <<>> /\ Len(queue[n]) <= QueueSize
  /\ queue' = [queue EXCEPT ![n] = @ \o adding[n]]
  /\ adding' = [adding EXCEPT ![n] = <<>>]
  /\ verifying' = IF n = 0 THEN verifying
                  ELSE [verifying EXCEPT ![n] = adding[n]]
  /\ UNCHANGED <<sent, nextUid, seen, taken, waiting, inbound,
                 delivered, accepted, rejected, torn, faults>>

\* ... and blocks until there is room.  A repeater verifies the packet after
\* that, while it may already be forwarded.
Put(n) ==
  /\ adding[n] # <<>> /\ Len(queue[n]) < QueueSize
  /\ queue' = [queue EXCEPT ![n] = @ \o adding[n]]
  /\ adding' = [adding EXCEPT ![n] = <<>>]
  /\ verifying' = IF n = 0 THEN verifying
                  ELSE [verifying EXCEPT ![n] = adding[n]]
  /\ UNCHANGED <<sent, nextUid, seen, taken, waiting, inbound,
                 delivered, accepted, rejected, torn, faults>>

Counted(s, m) ==
  [i \in DOMAIN s |->
     IF s[i].msg = m THEN [s[i] EXCEPT !.hops = @ + 1] ELSE s[i]]

IsVerifying(n) == verifying[n] # <<>>
Verified(n) == Head(verifying[n])

\* update_repeater changes the object the queue holds, and the forwarding
\* thread if it has taken it, but not what has been sent.
Accept(n) ==
  /\ IsVerifying(n)
  /\ queue' = [queue EXCEPT ![n] = Counted(@, Verified(n).msg)]
  /\ taken' = [taken EXCEPT ![n] = Counted(@, Verified(n).msg)]
  /\ accepted' = accepted \cup {<<n, Verified(n).msg>>}
  /\ Answer(n, Verified(n))
  /\ verifying' = [verifying EXCEPT ![n] = <<>>]
  /\ UNCHANGED <<sent, nextUid, adding, seen, inbound,
                 delivered, rejected, torn, faults>>

\* A bug: update_repeater is called before the verification.
Reject_Counted(n) ==
  /\ IsVerifying(n) /\ Verified(n).real
  /\ rejected' = rejected \cup {<<n, Verified(n).msg>>}
  /\ queue' = [queue EXCEPT ![n] = Counted(@, Verified(n).msg)]
  /\ taken' = [taken EXCEPT ![n] = Counted(@, Verified(n).msg)]
  /\ Answer(n, Verified(n))
  /\ verifying' = [verifying EXCEPT ![n] = <<>>]
  /\ UNCHANGED <<sent, nextUid, adding, seen, inbound,
                 delivered, accepted, torn, faults>>

\* The script refuses the proof, fails or takes more than 30 seconds.  The
\* packet stays in the queue and in seen_uids.
Reject(n) ==
  /\ IsVerifying(n) /\ Verified(n).real
  /\ rejected' = rejected \cup {<<n, Verified(n).msg>>}
  /\ Answer(n, Verified(n))
  /\ verifying' = [verifying EXCEPT ![n] = <<>>]
  /\ UNCHANGED <<sent, nextUid, adding, queue, seen, taken, inbound,
                 delivered, accepted, torn, faults>>
-----------------------------------------------------------------------------
(* Forwarding threads.                                                       *)

TakePacket(n) ==
  /\ taken[n] = <<>> /\ waiting[n] = None /\ queue[n] # <<>>
  /\ taken' = [taken EXCEPT ![n] = <<Head(queue[n])>>]
  /\ queue' = [queue EXCEPT ![n] = Tail(@)]
  /\ UNCHANGED <<sent, nextUid, adding, seen, verifying, waiting, inbound,
                 delivered, accepted, rejected, torn, faults>>

\* A bug: a packet whose connection breaks is sent again.
SendPacket_Retry(n) ==
  /\ taken[n] # <<>>
  /\ inbound' = [inbound EXCEPT ![n + 1] = @ \o taken[n]]
  /\ \/ /\ NoFault /\ taken' = [taken EXCEPT ![n] = <<>>]
        /\ waiting' = [waiting EXCEPT ![n] = Head(taken[n]).msg]
     \/ Fault /\ UNCHANGED <<taken, waiting>>
  /\ UNCHANGED <<sent, nextUid, adding, queue, seen, verifying,
                 delivered, accepted, rejected, torn>>

\* to_bytes reads the packet's fields now.  A packet that cannot be sent is
\* logged and gone.
SendPacket(n) ==
  /\ taken[n] # <<>>
  /\ taken' = [taken EXCEPT ![n] = <<>>]
  /\ \/ /\ NoFault
        /\ inbound' = [inbound EXCEPT ![n + 1] = @ \o taken[n]]
        /\ waiting' = [waiting EXCEPT ![n] = Head(taken[n]).msg]
     \/ Fault /\ UNCHANGED <<inbound, waiting>>
  /\ UNCHANGED <<sent, nextUid, adding, queue, seen, verifying,
                 delivered, accepted, rejected, torn>>
-----------------------------------------------------------------------------
(* The receiver node, and restarts.                                          *)

\* The packet is stored before it is delivered: when sendto raises, it counts
\* as received.
Deliver ==
  /\ Accepts(Last) /\ ~IsDuplicate(Last, Oldest(Last))
  /\ seen' = [seen EXCEPT ![Last] = @ \cup {Oldest(Last).uid}]
  /\ \/ NoFault /\ delivered' = Append(delivered, Oldest(Last))
     \/ Fault /\ UNCHANGED delivered
  /\ Answer(Last, Oldest(Last))
  /\ UNCHANGED <<sent, nextUid, adding, queue, verifying, taken,
                 accepted, rejected, torn>>

\* A container restarts: all it knows is gone, the thread before it sees the
\* connection end, and what it has sent can still be read.
Restart(n) ==
  /\ Fault
  /\ nextUid' = IF n = 0 THEN 1 ELSE nextUid
  /\ adding' = [s \in Senders |-> IF s = n THEN <<>> ELSE adding[s]]
  /\ queue' = [s \in Senders |-> IF s = n THEN <<>> ELSE queue[s]]
  /\ verifying' = [s \in Senders |-> IF s = n THEN <<>> ELSE verifying[s]]
  /\ taken' = [s \in Senders |-> IF s = n THEN <<>> ELSE taken[s]]
  /\ waiting' = [s \in Senders |-> IF s \in {n, n - 1} THEN None ELSE waiting[s]]
  /\ seen' = [seen EXCEPT ![n] = {}]
  /\ inbound' = [inbound EXCEPT ![n] = <<>>]
  /\ UNCHANGED <<sent, delivered, accepted, rejected, torn>>
-----------------------------------------------------------------------------
ReceivingThread(n) ==
  \/ ReadTorn(n) \/ AnswerDuplicate(n)
  \/ n \in Relays /\ (StartAdding(n) \/ Put(n) \/ Accept(n) \/ Reject(n))
  \/ n = Last /\ Deliver

ForwardingThread(n) == TakePacket(n) \/ SendPacket(n)

Next ==
  \/ \E real \in BOOLEAN : Receive(real)
  \/ Put(0)
  \/ \E n \in 1 .. Last : ReceivingThread(n)
  \/ \E n \in Senders : ForwardingThread(n)
  \/ \E n \in Nodes : Restart(n)

Spec == Init /\ [][Next]_vars

\* The threads run; RadioA need not send.
FairSpec ==
  /\ Spec
  /\ WF_vars(Put(0))
  /\ \A n \in 1 .. Last : WF_vars(ReceivingThread(n))
  /\ \A n \in Senders : WF_vars(ForwardingThread(n))
-----------------------------------------------------------------------------
Elements(s) == {s[i] : i \in DOMAIN s}
At(n) == Elements(inbound[n]) \cup
         IF n = Last THEN {}
         ELSE Elements(adding[n]) \cup Elements(queue[n]) \cup Elements(taken[n])
InTransit == UNION {At(n) : n \in Nodes}

Line == INSTANCE LossyLine WITH
  transit <- {p.msg : p \in InTransit},
  delivered <- [i \in DOMAIN delivered |-> delivered[i].msg]

(* Two threads per node, connections, bounded queues and memories that a     *)
(* restart erases make a line that loses messages but never duplicates or    *)
(* reorders them: a message is sent once by each forwarder, which waits for   *)
(* the next node before it sends another.                                    *)
ImplementsLine == Line!Spec

(* The hop count RadioB's packet carries never exceeds the number of         *)
(* repeaters that have verified it, although update_repeater changes an      *)
(* object another thread may be sending.                                     *)
HopsAreVerified ==
  \A i \in DOMAIN delivered :
    delivered[i].hops <=
      Cardinality({n \in Relays : <<n, delivered[i].msg>> \in accepted})

(* A forwarder, which has no time-out, always gets an answer or the end of   *)
(* the connection, through restarts on both sides and full queues further    *)
(* down; only a packet that was not read as a whole may stop the line.       *)
SenderGoesOn ==
  \A n \in Senders, m \in Messages :
    waiting[n] = m ~> (waiting[n] # m \/ torn # {})

\* No later node has seen the packet's uid, or is about to.
Fresh(n, p) ==
  /\ p \in At(n)
  /\ \A k \in Nodes : k > n \/ (k = n /\ p \in Elements(inbound[n])) =>
                        p.uid \notin seen[k]
  /\ \A q \in InTransit : q.msg < p.msg => q.uid # p.uid

(* A packet with a number that is new to the nodes before it is delivered    *)
(* unless something fails or a repeater rejects its proof.                   *)
FreshArrives ==
  \A m \in Messages, f \in 0 .. MaxFaults :
    (/\ \E n \in Nodes, p \in InTransit : p.msg = m /\ Fresh(n, p)
     /\ torn = {} /\ faults = f)
    ~> \/ \E i \in DOMAIN delivered : delivered[i].msg = m
       \/ \E n \in Relays : <<n, m>> \in rejected
       \/ faults # f

(* repeater.py of version 3 says "Proof verification failed - DROP THE       *)
(* PACKET" and "Forward verified packets to next hop": a repeater does not   *)
(* send a packet it has rejected.  The packet is in the queue before it is   *)
(* verified, and stays there.                                                *)
RejectedIsDropped ==
  [][\A n \in Relays :
       taken[n] # <<>> /\ inbound'[n + 1] = inbound[n + 1] \o taken[n]
         => <<n, Head(taken[n]).msg>> \notin rejected]_vars
=============================================================================
