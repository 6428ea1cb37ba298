----------------------------- MODULE Consensus -----------------------------
(***************************************************************************)
(* Session establishment of BlockchainRadioV4: ProducerV2 proposes a block *)
(* of sessions, collects signatures, finalises and broadcasts it;          *)
(* RepeaterV2 and ReceiverV2 sign proposals and store finalised blocks.    *)
(*                                                                         *)
(* ProducerV2 handles radio packets in one thread, so its attempts follow  *)
(* each other; the threads that wait for signatures may outlive an attempt *)
(* (join has a timeout).  A repeater runs one thread per connection, with  *)
(* no lock around BlockchainStorage.                                       *)
(***************************************************************************)
EXTENDS Chain

CONSTANTS MaxStamp,     \* bound: attempts to establish a session
          MaxFaults     \* bound: crashes and failed connections

ASSUME BoundsAssumption == MaxStamp \in Nat /\ MaxFaults \in Nat

NoProposal == [num |-> 0, prev |-> ZeroHash, stamp |-> 0, sess |-> {}]

VARIABLES
  \* the producer
  stamp,        \* time.time(): the number of attempts so far
  pc,           \* where establish_session is
  pending,      \* pending_sessions
  current,      \* current_proposal
  collected,    \* collected_signatures
  chain,        \* storage.blocks
  saved,        \* blockchain.json, as the next _load will read it
  tosend,       \* peers still to be sent the finalised block
  active,       \* active_sessions
  torn,         \* history: a crash inside _save has cost the producer blocks
  \* the repeaters
  up,           \* is the process running
  mem,          \* storage.blocks
  disk,         \* blockchain_<id>.json, as the next _load will read it
  threads,      \* handler threads inside add_block
  signed,       \* history: the proposals a repeater has signed
  \* the network
  proposals, signatures, finals,   \* messages in flight on open connections
  faults        \* crashes and failed connections so far

prodVars == <<stamp, pc, pending, current, collected, chain, saved, tosend, active,
              torn>>
repVars  == <<up, mem, disk, threads, signed>>
netVars  == <<proposals, signatures, finals>>
vars     == <<prodVars, repVars, netVars, faults>>

\* A handler thread inside add_block: its block, how far it is (past the
\* checks, past self.blocks.append, past _save's open) and the copy of
\* self.blocks that its _save writes: the first `copied' blocks, since a
\* process only ever appends to them.
Handler == [block: Block, at: {"checked", "appended", "writing"}, copied: Nat]

TypeOK ==
  /\ stamp \in Nat
  /\ pc \in {"idle", "collecting", "saving", "broadcasting"}
  /\ pending \subseteq Nat
  /\ current \in Proposal \cup {NoProposal}
  /\ collected \subseteq Repeaters
  /\ chain \in Seq(Block)
  /\ saved \in Seq(Block)
  /\ tosend \subseteq Repeaters
  /\ active \subseteq Nat
  /\ torn \in BOOLEAN
  /\ up \in [Repeaters -> BOOLEAN]
  /\ mem \in [Repeaters -> Seq(Block)]
  /\ disk \in [Repeaters -> Seq(Block)]
  /\ threads \in [Repeaters -> SUBSET Handler]
  /\ signed \in [Repeaters -> SUBSET Nat]
  /\ proposals \subseteq [to: Repeaters, prop: Proposal]
  /\ signatures \subseteq [from: Repeaters, hash: Nat]
  /\ finals \subseteq [to: Repeaters, block: Block]
  /\ faults \in Nat

Init ==
  /\ stamp = 0 /\ pc = "idle" /\ pending = {} /\ current = NoProposal
  /\ collected = {} /\ chain = <<Genesis>> /\ saved = <<Genesis>>
  /\ tosend = {} /\ active = {} /\ torn = FALSE
  /\ up = [r \in Repeaters |-> TRUE]
  /\ mem = [r \in Repeaters |-> <<Genesis>>]
  /\ disk = [r \in Repeaters |-> <<Genesis>>]
  /\ threads = [r \in Repeaters |-> {}]
  /\ signed = [r \in Repeaters |-> {}]
  /\ proposals = {} /\ signatures = {} /\ finals = {}
  /\ faults = 0

-----------------------------------------------------------------------------
(* The producer *)

\* establish_session up to the broadcast: add_session, create_proposal, and
\* one thread per repeater to carry the proposal.
StartAttempt ==
  /\ pc = "idle"
  /\ stamp < MaxStamp
  /\ stamp' = stamp + 1
  /\ pending' = pending \cup {stamp + 1}
  /\ current' = [num |-> Last(chain).num + 1, prev |-> Hash(Last(chain)),
                 stamp |-> stamp + 1, sess |-> pending']
  /\ collected' = {}
  /\ proposals' = proposals \cup [to: Repeaters, prop: {current'}]
  /\ pc' = "collecting"
  /\ UNCHANGED <<chain, saved, tosend, active, torn, repVars, signatures, finals, faults>>

\* A bug: a signature for another proposal is counted.
ReceiveSignature_AnyHash ==
  /\ pc # "saving"
  /\ \E s \in signatures :
       /\ signatures' = signatures \ {s}
       /\ collected' = IF current # NoProposal
                       THEN collected \cup {s.from} ELSE collected
  /\ UNCHANGED <<stamp, pc, pending, current, chain, saved, tosend, active,
                 torn, repVars, proposals, finals, faults>>

\* A proposal thread gets its answer: receive_signature, under the lock that
\* finalize_block holds while it saves.  A duplicate signer is not counted.
ReceiveSignature ==
  /\ pc # "saving"
  /\ \E s \in signatures :
       /\ signatures' = signatures \ {s}
       /\ collected' = IF current # NoProposal /\ s.hash = current.stamp
                       THEN collected \cup {s.from} ELSE collected
  /\ UNCHANGED <<stamp, pc, pending, current, chain, saved, tosend, active,
                 torn, repVars, proposals, finals, faults>>

EnoughSignatures == Cardinality(collected) >= Majority

\* A bug: the warning's "continuing with simulated consensus" taken at its word.
CanFinalize_Simulated == current # NoProposal /\ Extends(current, chain)

CanFinalize ==
  /\ current # NoProposal
  /\ EnoughSignatures
  /\ AddBlockOK(chain, FromProposal(current, collected), Majority)

\* finalize_block succeeds; storage.add_block has the block in memory.
Finalize ==
  /\ pc = "collecting"
  /\ CanFinalize
  /\ chain' = Append(chain, FromProposal(current, collected))
  /\ pc' = "saving"
  /\ UNCHANGED <<stamp, pending, current, collected, saved, tosend, active,
                 torn, repVars, netVars, faults>>

\* A bug: pending_sessions is not cleared.
FinishFinalize_KeepPending ==
  /\ pc = "saving"
  /\ saved' = chain
  /\ current' = NoProposal /\ collected' = {}
  /\ tosend' = Repeaters
  /\ pc' = "broadcasting"
  /\ UNCHANGED <<stamp, pending, chain, active, torn, repVars, netVars, faults>>

\* _save ends; finalize_block clears its state and releases the lock.
FinishFinalize ==
  /\ pc = "saving"
  /\ saved' = chain
  /\ pending' = {} /\ current' = NoProposal /\ collected' = {}
  /\ tosend' = Repeaters
  /\ pc' = "broadcasting"
  /\ UNCHANGED <<stamp, chain, active, torn, repVars, netVars, faults>>

\* A bug: join without a timeout, waiting for every peer.
FailAttempt_NoTimeout ==
  /\ pc = "collecting"
  /\ ~CanFinalize
  /\ collected = Repeaters
  /\ active' = active \cup {stamp}
  /\ pc' = "idle"
  /\ UNCHANGED <<stamp, pending, current, collected, chain, saved, tosend,
                 torn, repVars, netVars, faults>>

\* The joins timed out or every thread ended, without a majority: the session
\* is kept as a local-only session; the proposal and the queue stay.
FailAttempt ==
  /\ pc = "collecting"
  /\ ~CanFinalize
  /\ active' = active \cup {stamp}
  /\ pc' = "idle"
  /\ UNCHANGED <<stamp, pending, current, collected, chain, saved, tosend,
                 torn, repVars, netVars, faults>>

\* A bug: the peer stays on the list and is sent the block again.
SendFinalized_Again(r) ==
  /\ pc = "broadcasting" /\ r \in tosend
  /\ finals' = finals \cup {[to |-> r, block |-> Last(chain)]}
  /\ UNCHANGED <<stamp, pc, pending, current, collected, chain, saved, tosend, active,
                 torn, repVars, proposals, signatures, faults>>

\* _broadcast_finalized_block, one peer at a time (in the order of
\* GOSSIP_PEERS, which a deployment chooses), no acknowledgement.  After the
\* last peer establish_session returns with the session in active_sessions.
SendFinalized(r) ==
  /\ pc = "broadcasting" /\ r \in tosend
  /\ tosend' = tosend \ {r}
  /\ finals' = finals \cup {[to |-> r, block |-> Last(chain)]}
  /\ IF tosend = {r} THEN pc' = "idle" /\ active' = active \cup {stamp}
                      ELSE UNCHANGED <<pc, active>>
  /\ UNCHANGED <<stamp, pending, current, collected, chain, saved, torn, repVars,
                 proposals, signatures, faults>>

\* What the next _load reads after a crash: open(path, 'w') has truncated the
\* file before json.dump writes it, and _load answers a file it cannot read
\* with a new genesis block.
AfterCrash(stored, saving) == {stored} \cup IF saving THEN {<<Genesis>>} ELSE {}

\* The producer's process dies and is restarted (restart: unless-stopped).
ProducerCrash ==
  /\ faults < MaxFaults
  /\ faults' = faults + 1
  /\ saved' \in AfterCrash(saved, pc = "saving")
  /\ torn' = (torn \/ saved' # saved)
  /\ chain' = saved'
  /\ pc' = "idle"
  /\ pending' = {} /\ current' = NoProposal /\ collected' = {}
  /\ tosend' = {} /\ active' = {}
  /\ signatures' = {}
  /\ UNCHANGED <<stamp, repVars, proposals, finals>>

-----------------------------------------------------------------------------
(* The repeaters *)

\* handle_blockchain_connection, MSG_PROPOSAL: sign_proposal and, when it
\* verifies, the answer.
HandleProposal(r) ==
  /\ up[r]
  /\ \E m \in proposals :
       /\ m.to = r
       /\ proposals' = proposals \ {m}
       /\ IF Extends(m.prop, mem[r])
          THEN /\ signatures' = signatures \cup {[from |-> r, hash |-> m.prop.stamp]}
               /\ signed' = [signed EXCEPT ![r] = @ \cup {m.prop.stamp}]
          ELSE UNCHANGED <<signatures, signed>>
  /\ UNCHANGED <<prodVars, up, mem, disk, threads, finals, faults>>

\* handle_blockchain_connection, MSG_FINALIZED: add_block's checks against
\* the block that is the latest now.
HandleFinalized(r) ==
  /\ up[r]
  /\ \E m \in finals :
       /\ m.to = r
       /\ finals' = finals \ {m}
       /\ IF AddBlockOK(mem[r], m.block, RepeaterMinimum(m.block))
          THEN threads' = [threads EXCEPT ![r] = @ \cup
                 {[block |-> m.block, at |-> "checked", copied |-> 0]}]
          ELSE UNCHANGED threads
  /\ UNCHANGED <<prodVars, up, mem, disk, signed, proposals, signatures, faults>>

\* add_block goes on: self.blocks.append, and _save takes its copy of blocks.
AppendBlock(r) ==
  /\ \E t \in threads[r] :
       /\ t.at = "checked"
       /\ mem' = [mem EXCEPT ![r] = Append(@, t.block)]
       /\ threads' = [threads EXCEPT ![r] = (@ \ {t}) \cup
            {[block |-> t.block, at |-> "appended", copied |-> Len(mem'[r])]}]
  /\ UNCHANGED <<prodVars, up, disk, signed, netVars, faults>>

\* _save: open(path, 'w') truncates the file.
OpenFile(r) ==
  /\ \E t \in threads[r] :
       /\ t.at = "appended"
       /\ disk' = [disk EXCEPT ![r] = <<Genesis>>]
       /\ threads' = [threads EXCEPT ![r] = (@ \ {t}) \cup {[t EXCEPT !.at = "writing"]}]
  /\ UNCHANGED <<prodVars, up, mem, signed, netVars, faults>>

\* What _load reads when `new' has been written into a file that reads as
\* `old': a longer text's end sticks out, and while another thread is writing
\* as well the file may hold parts of both.
Overlaid(old, new, shared) ==
  IF Len(old) > Len(new) THEN {<<Genesis>>}
  ELSE {new} \cup IF shared THEN {<<Genesis>>} ELSE {}

\* json.dump has written the copy and the file is closed; the handler returns.
SaveBlock(r) ==
  /\ \E t \in threads[r] :
       /\ t.at = "writing"
       /\ \E d \in Overlaid(disk[r], SubSeq(mem[r], 1, t.copied),
                          \E u \in threads[r] \ {t} : u.at = "writing") :
            disk' = [disk EXCEPT ![r] = d]
       /\ threads' = [threads EXCEPT ![r] = @ \ {t}]
  /\ UNCHANGED <<prodVars, up, mem, signed, netVars, faults>>

\* The process dies.  What is in the file is left, half a text included.
RepeaterCrash(r) ==
  /\ up[r]
  /\ faults < MaxFaults
  /\ faults' = faults + 1
  /\ up' = [up EXCEPT ![r] = FALSE]
  /\ mem' = [mem EXCEPT ![r] = disk[r]]
  /\ threads' = [threads EXCEPT ![r] = {}]
  /\ UNCHANGED <<prodVars, disk, signed, netVars>>

RepeaterRestart(r) ==
  /\ ~up[r]
  /\ up' = [up EXCEPT ![r] = TRUE]
  /\ UNCHANGED <<prodVars, mem, disk, threads, signed, netVars, faults>>

-----------------------------------------------------------------------------
(* The network: TCP delivers a message at most once, in no order between    *)
(* connections.  A failed connection is logged and never retried.           *)

Discard(m) ==
  /\ proposals' = proposals \ {m}
  /\ finals' = finals \ {m}
  /\ UNCHANGED <<prodVars, repVars, signatures>>

\* connect is refused by a peer that is down.
Refuse(r) ==
  /\ ~up[r]
  /\ \E m \in {x \in proposals \cup finals : x.to = r} : Discard(m)
  /\ UNCHANGED faults

\* connect, sendall or recv fails or times out.
Lose ==
  /\ faults < MaxFaults
  /\ faults' = faults + 1
  /\ \/ \E m \in proposals \cup finals : Discard(m)
     \/ /\ \E s \in signatures : signatures' = signatures \ {s}
        /\ UNCHANGED <<prodVars, repVars, proposals, finals>>

-----------------------------------------------------------------------------
ProducerStep ==
  \/ StartAttempt \/ ReceiveSignature \/ Finalize \/ FinishFinalize
  \/ FailAttempt \/ (\E r \in Repeaters : SendFinalized(r))

RepeaterStep(r) ==
  \/ HandleProposal(r) \/ HandleFinalized(r) \/ AppendBlock(r) \/ OpenFile(r)
  \/ SaveBlock(r) \/ RepeaterRestart(r) \/ Refuse(r)

Next ==
  \/ ProducerStep
  \/ \E r \in Repeaters : RepeaterStep(r) \/ RepeaterCrash(r)
  \/ ProducerCrash
  \/ Lose

Spec == Init /\ [][Next]_vars

\* Threads are scheduled, sockets answer or time out, and Docker restarts a
\* repeater that died; a radio need not ask for another session.
Fairness ==
  /\ WF_vars(ReceiveSignature) /\ WF_vars(Finalize) /\ WF_vars(FinishFinalize)
  /\ WF_vars(FailAttempt)
  /\ \A r \in Repeaters :
       /\ WF_vars(SendFinalized(r))
       /\ WF_vars(HandleProposal(r)) /\ WF_vars(HandleFinalized(r))
       /\ WF_vars(AppendBlock(r)) /\ WF_vars(OpenFile(r)) /\ WF_vars(SaveBlock(r))
       /\ WF_vars(RepeaterRestart(r)) /\ WF_vars(Refuse(r))

FairSpec == Spec /\ Fairness
-----------------------------------------------------------------------------
(* Properties *)

\* No two histories: what any repeater holds, in memory or on disk, is a
\* prefix of the chain the producer saved, unless a crash inside the producer's
\* own _save has lost that chain.  add_block has no lock, and a block may arrive
\* late, be checked before and appended after another, or meet a crash.
ChainsArePrefixes ==
  torn \/ \A r \in Repeaters : IsPrefix(mem[r], saved) /\ IsPrefix(disk[r], saved)

\* A block is sent to a peer once: two handler threads of one repeater never
\* work on the same block, which add_block's unlocked checks could not tell.
OneCopy ==
  \A r \in Repeaters :
    LET inHand == {t.block : t \in threads[r]}
        onWire == {m.block : m \in {x \in finals : x.to = r}}
    IN /\ inHand \cap onWire = {}
       /\ r \in tosend => Last(chain) \notin inHand \cup onWire

\* A stored block is VALID: a majority of the repeaters is on it, and each of
\* them signed that very proposal (no late or foreign signature is counted).
MajoritySigned ==
  \A i \in 2 .. Len(chain) :
    /\ Cardinality(chain[i].sigs) >= Majority
    /\ \A r \in chain[i].sigs : chain[i].stamp \in signed[r]

\* A session queued through several failed attempts ends in one block only.
SessionInOneBlock ==
  \A i, j \in DOMAIN chain : i # j => chain[i].sess \cap chain[j].sess = {}

\* Once add_block has returned, what it stored is on the disk ("This is what
\* gets stored permanently", consensus.py:184).
StoredIsSaved ==
  \A r \in Repeaters : up[r] /\ threads[r] = {} => disk[r] = mem[r]

\* The block r needs next is on its way to r or in one of its handlers.
NextIsComing(r) ==
  LET n == Len(mem[r]) IN
  \/ \E m \in finals : m.to = r /\ m.block.num = n
  \/ \E t \in threads[r] : t.block.num = n
  \/ r \in tosend /\ Last(chain).num = n

\* r has missed the block it needs: its chain is shorter than the producer's,
\* and nothing on its way can extend it.
Stale(r) == Len(mem[r]) < Len(saved) /\ ~NextIsComing(r)

\* There is no catching up: a repeater that missed a block, or refused one that
\* overtook it, stays behind whatever is sent, crashes or restarts; only a
\* producer that loses its own chain in a crash may be level with it again.
StaleStays == [][\A r \in Repeaters : Stale(r) => Stale(r)' \/ torn']_vars

\* A running repeater never refuses the block it needs next, nor the producer
\* its sending: whatever overtakes that block and however its handlers
\* interleave, it is on its way until it is appended, if no connection fails
\* (and the producer has not lost its chain and numbered other blocks anew).
NextIsNeverRefused ==
  [][\A r \in Repeaters :
       up[r] /\ NextIsComing(r) /\ faults' = faults /\ ~torn
         => NextIsComing(r)' \/ Len(mem'[r]) > Len(mem[r])]_vars

\* Nothing is on its way to r, which is behind the producer or ends in a block
\* the producer has lost, when a crash truncated its file.  (Threads that checked
\* blocks of both histories may both append, so the rest of the chain says little.)
Lost(r) ==
  /\ Hash(Last(mem[r])) # Hash(Last(saved)) /\ disk[r] = mem[r]
  /\ threads[r] = {} /\ r \notin tosend /\ \A m \in finals : m.to # r

\* Too few repeaters are left to sign what the producer may propose, or have
\* signed what it does propose.
Ended ==
  /\ pc # "saving"
  /\ Cardinality({r \in Repeaters : ~Lost(r) \/ current.stamp \in signed[r]}) < Majority

\* With a majority behind or left on a discarded chain, the chain has ended: no
\* restart of anyone, torn save or new attempt ever saves a block again.
ChainEnds == [][Ended => Ended' /\ saved' = saved]_vars

\* Whatever is lost or crashes, an attempt to establish a session ends.
AttemptEnds == pc # "idle" ~> pc = "idle"

\* The producer's saved chain and the repeaters' chains behave as the abstract
\* ledger: append-only for as long as no crash has torn the producer's file.
Abstract == INSTANCE Ledger WITH log <- saved, view <- mem, intact <- ~torn
ImplementsLedger == Abstract!Spec
=============================================================================
