------------------------------ MODULE DataPath ------------------------------
(***************************************************************************)
(* The real-time path of BlockchainRadioV4: ProducerV2 sends each radio      *)
(* message as a packet of a session, RepeaterV2 verifies and forwards it,    *)
(* ReceiverV2 verifies it and delivers it to RadioB.                         *)
(*                                                                          *)
(* The nodes 1 .. Hops form a line, the last one is the receiver.  Each     *)
(* packet and each finalised block is handled by a thread of its own, so    *)
(* they overtake each other.  Establishing a session, which module          *)
(* Consensus details, is one step here.  A packet's hash and tag verify      *)
(* when the node knows its session, from the cache or reloaded from the      *)
(* chain: no packet here is corrupted.                                       *)
(*                                                                          *)
(* A chain is the sequence of the blocks after genesis, each the set of its  *)
(* sessions.  A finalised block on its way is the chain that ends with it:   *)
(* its number and previous_hash fit exactly the chain before it.  A session  *)
(* id is generated once, so no two blocks are equal.                         *)
(***************************************************************************)
EXTENDS Naturals, Sequences, FiniteSets

CONSTANTS Hops,
          MaxSessions,  \* bound: sessions generated
          MaxPackets,   \* bound: packets of one session
          MaxFaults     \* bound: crashes and failed connections

ASSUME HopsAssumption == Hops \in Nat \ {0}
ASSUME BoundsAssumption ==
  MaxSessions \in Nat /\ MaxPackets \in Nat /\ MaxFaults \in Nat

Nodes == 1 .. Hops
Sessions == 1 .. MaxSessions
None == 0
Packet == Sessions \X (0 .. MaxPackets - 1)   \* session_id, seq
Chain == Seq(SUBSET Sessions)

VARIABLES
  \* the producer
  count,      \* sessions generated so far
  pending,    \* producer_node.pending_sessions
  blocks,     \* the producer's chain
  active,     \* keys of active_sessions
  nextSeq,    \* sequence_numbers
  using,      \* the session of the message handle_radio_message is at
  expired,    \* sessions past expires_at
  \* the nodes
  chain,      \* the chain of each node
  learned,    \* history: the sessions each node has ever had on its chain
  announced,  \* <<node, chain>>: MSG_FINALIZED not handled yet
  flying,     \* <<node, packet>>: packets not handled yet by that node
  delivered,  \* packets RadioB was sent, in order
  faults

vars == <<count, pending, blocks, active, nextSeq, using, expired,
          chain, learned, announced, flying, delivered, faults>>

TypeOK ==
  /\ count \in 0 .. MaxSessions
  /\ pending \subseteq 1 .. count
  /\ blocks \in Chain
  /\ active \subseteq 1 .. count
  /\ nextSeq \in [Sessions -> 0 .. MaxPackets]
  /\ using \in {None} \cup active
  /\ expired \subseteq 1 .. count
  /\ chain \in [Nodes -> Chain]
  /\ learned \in [Nodes -> SUBSET Sessions]
  /\ announced \subseteq Nodes \X Chain
  /\ flying \subseteq Nodes \X Packet
  /\ delivered \in Seq(Packet)
  /\ faults \in 0 .. MaxFaults

Init ==
  /\ count = 0 /\ pending = {} /\ blocks = <<>>
  /\ active = {} /\ using = None /\ expired = {}
  /\ nextSeq = [s \in Sessions |-> 0]
  /\ chain = [n \in Nodes |-> <<>>]
  /\ learned = [n \in Nodes |-> {}]
  /\ announced = {} /\ flying = {}
  /\ delivered = <<>>
  /\ faults = 0

Fault == faults < MaxFaults /\ faults' = faults + 1
NoFault == UNCHANGED faults

SessionsOf(c) == UNION {c[k] : k \in 1 .. Len(c)}

\* A bug: only the newest block's sessions are known, without the storage.
Knows_Newest(n, s) == chain[n] # <<>> /\ s \in chain[n][Len(chain[n])]

Knows(n, s) == s \in SessionsOf(chain[n])

\* Nodes that would sign the next proposal, and those that must.
UpToDate == {n \in Nodes : chain[n] = blocks}
MinSignatures == Hops \div 2 + 1

\* Sessions get_or_create_session may return without establishing one.
Usable == {s \in active : s \in SessionsOf(blocks) /\ s \notin expired}
-----------------------------------------------------------------------------
(* The producer, one radio message at a time.                                *)

Choose ==
  /\ using = None
  /\ using' \in Usable
  /\ \A s \in Usable : using' <= s
  /\ UNCHANGED <<count, pending, blocks, active, nextSeq, expired,
                 chain, learned, announced, flying, delivered, faults>>

\* establish_session: the block is finalised and announced, to some nodes
\* without success, or the session stays local and pending.
Finalised(s) ==
  /\ Cardinality(UpToDate) >= MinSignatures
  /\ blocks' = Append(blocks, pending \cup {s})
  /\ pending' = {}
  /\ \/ NoFault /\ announced' = announced \cup (Nodes \X {blocks'})
     \/ Fault /\ \E reached \in SUBSET Nodes :
                   announced' = announced \cup (reached \X {blocks'})

LocalOnly(s) ==
  /\ pending' = pending \cup {s}
  /\ IF Cardinality(UpToDate) >= MinSignatures THEN Fault ELSE NoFault
  /\ UNCHANGED <<blocks, announced>>

Establish ==
  /\ using = None /\ Usable = {} /\ count < MaxSessions
  /\ count' = count + 1
  /\ Finalised(count') \/ LocalOnly(count')
  /\ active' = active \cup {count'}
  /\ using' = count'
  /\ UNCHANGED <<nextSeq, expired, chain, learned, flying, delivered>>

\* The sequence number is used up even when the connection fails.
ForwardPacket ==
  /\ using # None /\ nextSeq[using] < MaxPackets
  /\ nextSeq' = [nextSeq EXCEPT ![using] = @ + 1]
  /\ using' = None
  /\ \/ NoFault /\ flying' = flying \cup {<<1, <<using, nextSeq[using]>>>>}
     \/ Fault /\ UNCHANGED flying
  /\ UNCHANGED <<count, pending, blocks, active, expired,
                 chain, learned, announced, delivered>>

Expire(s) ==
  /\ s \in 1 .. count /\ s \notin expired
  /\ expired' = expired \cup {s}
  /\ UNCHANGED <<count, pending, blocks, active, nextSeq, using,
                 chain, learned, announced, flying, delivered, faults>>

\* A bug: active_sessions is read back after a restart, sequence_numbers not.
ProducerRestart_KeepActive ==
  /\ Fault
  /\ pending' = {} /\ using' = None
  /\ nextSeq' = [s \in Sessions |-> 0]
  /\ UNCHANGED <<active, count, blocks, expired,
                 chain, learned, announced, flying, delivered>>

\* Only the chain is read back; messages on open connections may still arrive.
ProducerRestart ==
  /\ Fault
  /\ pending' = {} /\ active' = {} /\ using' = None
  /\ nextSeq' = [s \in Sessions |-> 0]
  /\ UNCHANGED <<count, blocks, expired,
                 chain, learned, announced, flying, delivered>>

\* The same while finalize_block saves: _load finds a truncated file, which it
\* answers with genesis, or the whole one with a block that was never sent.
CrashInSave ==
  /\ using = None /\ Usable = {} /\ count < MaxSessions
  /\ Cardinality(UpToDate) >= MinSignatures
  /\ Fault
  /\ count' = count + 1
  /\ blocks' \in {<<>>, Append(blocks, pending \cup {count'})}
  /\ pending' = {} /\ active' = {} /\ using' = None
  /\ nextSeq' = [s \in Sessions |-> 0]
  /\ UNCHANGED <<expired, chain, learned, announced, flying, delivered>>
-----------------------------------------------------------------------------
(* The nodes.                                                                *)

\* add_block takes the next block only, and remembers nothing of others.
LearnBlock(n, c) ==
  /\ <<n, c>> \in announced
  /\ announced' = announced \ {<<n, c>>}
  /\ chain' = IF chain[n] = SubSeq(c, 1, Len(c) - 1)
                THEN [chain EXCEPT ![n] = c] ELSE chain
  /\ learned' = [learned EXCEPT ![n] = @ \cup SessionsOf(chain'[n])]
  /\ UNCHANGED <<count, pending, blocks, active, nextSeq, using, expired,
                 flying, delivered, faults>>

\* A bug: only the receiver verifies.
Refused_AtEnd(n, p) == n = Hops /\ ~Knows(n, p[1])

Refused(n, p) == ~Knows(n, p[1])

Arrived(n, p) == <<n, p>> \in flying

\* verify_and_forward_packet drops a packet it cannot verify ...
Refuse(n, p) ==
  /\ Arrived(n, p) /\ Refused(n, p)
  /\ flying' = flying \ {<<n, p>>}
  /\ UNCHANGED <<count, pending, blocks, active, nextSeq, using, expired,
                 chain, learned, announced, delivered, faults>>

\* A bug: the receiver has a next hop too.
Forward_PastEnd(n, p) ==
  /\ Arrived(n, p) /\ ~Refused(n, p)
  /\ NoFault /\ flying' = (flying \ {<<n, p>>}) \cup {<<n + 1, p>>}
  /\ UNCHANGED <<count, pending, blocks, active, nextSeq, using, expired,
                 chain, learned, announced, delivered>>

\* ... and sends a verified one on, once, whether or not that succeeds;
\* neither the sequence number nor the timestamp is looked at.
Forward(n, p) ==
  /\ n < Hops /\ Arrived(n, p) /\ ~Refused(n, p)
  /\ \/ NoFault /\ flying' = (flying \ {<<n, p>>}) \cup {<<n + 1, p>>}
     \/ Fault /\ flying' = flying \ {<<n, p>>}
  /\ UNCHANGED <<count, pending, blocks, active, nextSeq, using, expired,
                 chain, learned, announced, delivered>>

\* verify_and_deliver_packet
Deliver(p) ==
  /\ Arrived(Hops, p) /\ ~Refused(Hops, p)
  /\ flying' = flying \ {<<Hops, p>>}
  /\ delivered' = Append(delivered, p)
  /\ UNCHANGED <<count, pending, blocks, active, nextSeq, using, expired,
                 chain, learned, announced, faults>>

\* The container restarts: its threads are gone, and its file may be older
\* than the chain it had in memory, or truncated (see module Consensus).
NodeRestart(n) ==
  /\ Fault
  /\ \E k \in 0 .. Len(chain[n]) :
       chain' = [chain EXCEPT ![n] = SubSeq(@, 1, k)]
  /\ announced' = {a \in announced : a[1] # n}
  /\ flying' = {f \in flying : f[1] # n}
  /\ UNCHANGED <<count, pending, blocks, active, nextSeq, using, expired,
                 learned, delivered>>
-----------------------------------------------------------------------------
Handle(n, p) == Refuse(n, p) \/ Forward(n, p) \/ (n = Hops /\ Deliver(p))

Next ==
  \/ Choose \/ Establish \/ ForwardPacket \/ ProducerRestart \/ CrashInSave
  \/ \E s \in Sessions : Expire(s)
  \/ \E n \in Nodes :
       \/ \E a \in announced : LearnBlock(n, a[2])
       \/ \E p \in Packet : Handle(n, p)
       \/ NodeRestart(n)

Spec == Init /\ [][Next]_vars

\* The threads of the nodes run.
FairSpec == Spec /\ \A n \in Nodes, p \in Packet : WF_vars(Handle(n, p))
-----------------------------------------------------------------------------
Delivered == {delivered[i] : i \in 1 .. Len(delivered)}

(* RadioB is sent a message once at most, through restarts of the producer, *)
(* whose sequence numbers are not saved, and of any node.                    *)
DeliveredOnce ==
  \A i, j \in 1 .. Len(delivered) : i # j => delivered[i] # delivered[j]

(* A packet reaches RadioB only if every hop has once learned its session in *)
(* a block, although any of them, and the producer, may have lost that block *)
(* again by a restart; so one hop that missed a block silences all later     *)
(* sessions, and a local-only session carries nothing until a later block    *)
(* takes it up.                                                              *)
DeliveredIsKnown ==
  \A p \in Delivered : \A n \in Nodes : p[1] \in learned[n]

(* A packet whose session every hop knows reaches RadioB unless a connection *)
(* fails, a process dies or the session expires, although other blocks may   *)
(* be learned and other packets overtake it while it is on its way.          *)
KnownDelivered ==
  \A p \in Packet, f \in 0 .. MaxFaults :
    (/\ \E n \in Nodes : Arrived(n, p)
     /\ \A n \in Nodes : Knows(n, p[1])
     /\ faults = f) ~> (p \in Delivered \/ p[1] \in expired \/ faults # f)

(* consensus.py has is_valid_session, "Called on EVERY packet at EVERY hop", *)
(* refuse the packets of an expired session: none is delivered.  Nothing     *)
(* calls it, and no hop looks at expires_at.                                 *)
ExpiredIsRefused ==
  [][\A p \in Packet :
       p[1] \in expired /\ p \notin Delivered => p \notin Delivered']_vars
=============================================================================
