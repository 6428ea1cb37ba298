------------------------------- MODULE Chain -------------------------------
(***************************************************************************)
(* The data of BlockchainRadioV4/blockchain/consensus.py: proposals,       *)
(* blocks, and the checks BlockchainStorage and RepeaterNode make on them. *)
(*                                                                         *)
(* A proposal's SHA-256 covers its number, timestamp, parent, producer and *)
(* sessions.  Hashes are taken to be collision free and the producer's     *)
(* clock to move between two proposals, so the timestamp (`stamp') stands  *)
(* for the proposal's hash.  A block's hash covers the signatures as well: *)
(* it is the pair of the stamp and the set of signers.                     *)
(***************************************************************************)
EXTENDS Integers, FiniteSets, SequencesExt

CONSTANT Repeaters      \* the peers named in GOSSIP_PEERS (receiver included)

ASSUME RepeatersAssumption == IsFiniteSet(Repeaters) /\ Repeaters # {}

ZeroHash == <<-1, {}>>                      \* "0" * 64

\* A bug: numbering starts one too low.
Genesis_MinusOne ==
  [num |-> -1, prev |-> ZeroHash, stamp |-> 0, sess |-> {}, sigs |-> {}]

Genesis ==
  [num |-> 0, prev |-> ZeroHash, stamp |-> 0, sess |-> {}, sigs |-> {}]

Hash(b) == <<b.stamp, b.sigs>>              \* Block.compute_hash

\* Sessions are named by the stamp of the attempt that created them.
Proposal ==
  [num: Nat, prev: Int \X SUBSET Repeaters, stamp: Nat, sess: SUBSET Nat]

Block ==
  [num: Nat, prev: Int \X SUBSET Repeaters, stamp: Nat, sess: SUBSET Nat,
   sigs: SUBSET Repeaters]

FromProposal(p, signers) ==                 \* Block.from_proposal
  [num |-> p.num, prev |-> p.prev, stamp |-> p.stamp, sess |-> p.sess,
   sigs |-> signers]

Extends(b, chain) ==                        \* the hash-chain checks
  /\ b.prev = Hash(Last(chain))
  /\ b.num = Last(chain).num + 1

\* A bug: the hash-chain checks are dropped.
AddBlockOK_NoLink(chain, b, minSignatures) == Cardinality(b.sigs) >= minSignatures

\* BlockchainStorage.add_block's conditions, in its order.  Signatures that
\* reach a block were verified one by one, so all of them are valid.
AddBlockOK(chain, b, minSignatures) ==
  /\ Extends(b, chain)
  /\ Cardinality(b.sigs) >= minSignatures

Majority == (Cardinality(Repeaters) \div 2) + 1     \* ProducerNode.__init__

\* A bug: the default min_signatures = 3, however few peers there are.
RepeaterMinimum_Three(b) == 3

\* What RepeaterV2 and ReceiverV2 ask for: min(self.min_signatures = 3,
\* len(block.signatures)).
RepeaterMinimum(b) == IF Cardinality(b.sigs) < 3 THEN Cardinality(b.sigs) ELSE 3

SessionsOf(chain) == UNION {chain[i].sess : i \in DOMAIN chain}
=============================================================================
