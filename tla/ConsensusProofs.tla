-------------------------- MODULE ConsensusProofs ---------------------------
(* Proofs about Consensus, for any set of repeaters and any bounds. *)
EXTENDS Consensus, FiniteSetTheorems, TLAPS

(***************************************************************************)
(* Type correctness.  TypeOK alone is not inductive: the latest block of a *)
(* storage exists because no storage is ever empty, and what a thread      *)
(* writes is not longer than what the process has in memory.               *)
(***************************************************************************)
NonEmpty ==
  /\ Len(chain) > 0 /\ Len(saved) > 0
  /\ \A r \in Repeaters : Len(mem[r]) > 0 /\ Len(disk[r]) > 0
  /\ \A r \in Repeaters : \A t \in threads[r] :
       t.at # "checked" => t.copied \in 1 .. Len(mem[r])

TypeInv == TypeOK /\ NonEmpty

LEMMA GenesisBlock ==
  /\ Genesis \in Block
  /\ Genesis.num = 0
  /\ <<Genesis>> \in Seq(Block)
  /\ Len(<<Genesis>>) = 1
  /\ <<Genesis>>[1] = Genesis
<1>1. Genesis \in Block /\ Genesis.num = 0
  BY DEF Genesis, Block, ZeroHash
<1>2. QED
  BY <1>1

LEMMA LastInBlock ==
  ASSUME NEW s \in Seq(Block), Len(s) > 0
  PROVE  /\ Last(s) \in Block
         /\ Last(s).num \in Nat
         /\ Hash(Last(s)) \in Int \X SUBSET Repeaters
<1>1. Last(s) \in Block
  BY DEF Last
<1>2. Last(s).num \in Nat /\ Last(s).stamp \in Nat /\ Last(s).sigs \in SUBSET Repeaters
  BY <1>1 DEF Block
<1>3. QED
  BY <1>1, <1>2 DEF Hash

LEMMA AppendToChain ==
  ASSUME NEW s \in Seq(Block), NEW b \in Block
  PROVE  /\ Append(s, b) \in Seq(Block)
         /\ Len(Append(s, b)) = Len(s) + 1
         /\ Len(Append(s, b)) > 0
         /\ Last(Append(s, b)) = b
         /\ \A i \in 1 .. Len(s) : Append(s, b)[i] = s[i]
BY DEF Last

LEMMA FromProposalBlock ==
  ASSUME NEW p \in Proposal, NEW S \in SUBSET Repeaters
  PROVE  FromProposal(p, S) \in Block
BY DEF FromProposal, Proposal, Block

LEMMA NoProposalIsProposal == NoProposal \in Proposal
BY DEF NoProposal, Proposal, ZeroHash

LEMMA AfterCrashBlocks ==
  ASSUME NEW s \in Seq(Block), Len(s) > 0, NEW saving,
         NEW d \in AfterCrash(s, saving)
  PROVE  d \in Seq(Block) /\ Len(d) > 0 /\ (d = s \/ d = <<Genesis>>)
<1>1. CASE d = s
  BY <1>1
<1>2. CASE d = <<Genesis>>
  BY <1>2, GenesisBlock
<1>3. QED
  BY <1>1, <1>2 DEF AfterCrash

LEMMA Beginning ==
  ASSUME NEW s \in Seq(Block), NEW n \in 1 .. Len(s)
  PROVE  /\ SubSeq(s, 1, n) \in Seq(Block)
         /\ Len(SubSeq(s, 1, n)) = n
         /\ \A i \in 1 .. n : SubSeq(s, 1, n)[i] = s[i]
OBVIOUS

\* What a file may hold when a thread has written it: its text or no text that
\* can be read.
LEMMA WrittenFile ==
  ASSUME NEW old, NEW s \in Seq(Block), NEW n \in 1 .. Len(s), NEW shared,
         NEW d \in Overlaid(old, SubSeq(s, 1, n), shared)
  PROVE  d \in Seq(Block) /\ Len(d) > 0 /\ (d = SubSeq(s, 1, n) \/ d = <<Genesis>>)
<1>1. CASE d = SubSeq(s, 1, n)
  BY <1>1, Beginning
<1>2. CASE d = <<Genesis>>
  BY <1>2, GenesisBlock
<1>3. QED
  BY <1>1, <1>2 DEF Overlaid

LEMMA SetUpdate ==
  ASSUME NEW I, NEW S, NEW f \in [I -> SUBSET S], NEW i \in I, NEW T \in SUBSET S
  PROVE  /\ [f EXCEPT ![i] = T] \in [I -> SUBSET S]
         /\ [f EXCEPT ![i] = T][i] = T
         /\ \A j \in I \ {i} : [f EXCEPT ![i] = T][j] = f[j]
OBVIOUS

LEMMA TypeInit == Init => TypeInv
<1> SUFFICES ASSUME Init PROVE TypeInv
  OBVIOUS
<1>1. torn \in BOOLEAN /\ up \in [Repeaters -> BOOLEAN]
  BY Zenon DEF Init
<1>2. threads \in [Repeaters -> SUBSET Handler] /\ \A r \in Repeaters : threads[r] = {}
  BY DEF Init
<1>3. /\ pc \in {"idle", "collecting", "saving", "broadcasting"}
      /\ stamp \in Nat /\ pending \subseteq Nat /\ current \in Proposal \cup {NoProposal}
      /\ collected \subseteq Repeaters /\ tosend \subseteq Repeaters /\ active \subseteq Nat
      /\ faults \in Nat
  BY DEF Init
<1>4. /\ signed \in [Repeaters -> SUBSET Nat]
      /\ proposals \subseteq [to: Repeaters, prop: Proposal]
      /\ signatures \subseteq [from: Repeaters, hash: Nat]
      /\ finals \subseteq [to: Repeaters, block: Block]
  BY DEF Init
<1>5. /\ chain \in Seq(Block) /\ saved \in Seq(Block) /\ Len(chain) > 0 /\ Len(saved) > 0
      /\ mem \in [Repeaters -> Seq(Block)] /\ disk \in [Repeaters -> Seq(Block)]
      /\ \A r \in Repeaters : Len(mem[r]) > 0 /\ Len(disk[r]) > 0
  BY GenesisBlock DEF Init
<1>6. QED
  BY <1>1, <1>2, <1>3, <1>4, <1>5 DEF TypeInv, TypeOK, NonEmpty

LEMMA TypeStep == TypeInv /\ [Next]_vars => TypeInv'
<1> SUFFICES ASSUME TypeInv, [Next]_vars
             PROVE  TypeInv'
  OBVIOUS
<1> USE DEF TypeInv, TypeOK, NonEmpty
<1>1. CASE StartAttempt
  <2>1. /\ Last(chain).num + 1 \in Nat
        /\ Hash(Last(chain)) \in Int \X SUBSET Repeaters
    BY LastInBlock
  <2>2. current' \in Proposal
    BY <1>1, <2>1 DEF StartAttempt, Proposal
  <2>3. stamp' \in Nat /\ pending' \subseteq Nat /\ pc' = "collecting"
    BY <1>1 DEF StartAttempt
  <2>4. proposals' \subseteq [to: Repeaters, prop: Proposal]
    <3>1. [to: Repeaters, prop: {current'}] \subseteq [to: Repeaters, prop: Proposal]
      BY <2>2
    <3>2. QED
      BY <1>1, <3>1 DEF StartAttempt
  <2>5. QED
    BY <1>1, <2>2, <2>3, <2>4 DEF StartAttempt, repVars
<1>2. CASE ReceiveSignature
  BY <1>2 DEF ReceiveSignature, repVars
<1>3. CASE Finalize
  <2>1. FromProposal(current, collected) \in Block
    BY FromProposalBlock, NoProposalIsProposal
  <2>2. chain' \in Seq(Block) /\ Len(chain') > 0
    BY <1>3, <2>1, AppendToChain DEF Finalize
  <2>3. QED
    BY <1>3, <2>2 DEF Finalize, repVars, netVars
<1>4. CASE FinishFinalize
  BY <1>4, NoProposalIsProposal DEF FinishFinalize, repVars, netVars
<1>5. CASE FailAttempt
  BY <1>5 DEF FailAttempt, repVars, netVars
<1>6. ASSUME NEW r \in Repeaters, SendFinalized(r)
      PROVE  TypeInv'
  <2>1. Last(chain) \in Block
    BY LastInBlock
  <2>2. finals' \subseteq [to: Repeaters, block: Block]
    BY <1>6, <2>1 DEF SendFinalized
  <2>3. /\ pc' \in {"idle", "broadcasting"} /\ active' \subseteq active \cup {stamp}
        /\ tosend' \subseteq tosend
    BY <1>6 DEF SendFinalized
  <2>4. QED
    BY <1>6, <2>2, <2>3 DEF SendFinalized, repVars
<1>8. CASE ProducerCrash
  <2>1. saved' \in Seq(Block) /\ Len(saved') > 0 /\ chain' = saved'
    BY <1>8, AfterCrashBlocks DEF ProducerCrash
  <2>2. QED
    BY <1>8, <2>1, NoProposalIsProposal DEF ProducerCrash, repVars
<1>9. ASSUME NEW r \in Repeaters, HandleProposal(r)
      PROVE  TypeInv'
  <2>1. PICK m \in proposals : /\ proposals' = proposals \ {m}
                               /\ m.to = r
                               /\ \/ /\ signatures' = signatures \cup {[from |-> r, hash |-> m.prop.stamp]}
                                     /\ signed' = [signed EXCEPT ![r] = @ \cup {m.prop.stamp}]
                                  \/ UNCHANGED <<signatures, signed>>
    BY <1>9 DEF HandleProposal
  <2>2. m.prop.stamp \in Nat
    BY DEF Proposal
  <2>3. /\ signatures' \subseteq [from: Repeaters, hash: Nat]
        /\ signed' \in [Repeaters -> SUBSET Nat]
    <3>1. [signed EXCEPT ![r] = @ \cup {m.prop.stamp}] \in [Repeaters -> SUBSET Nat]
      BY <2>2, SetUpdate
    <3>2. [from |-> r, hash |-> m.prop.stamp] \in [from: Repeaters, hash: Nat]
      BY <2>2
    <3>3. QED
      BY <2>1, <3>1, <3>2
  <2>4. QED
    BY <1>9, <2>1, <2>3 DEF HandleProposal, prodVars
<1>10. ASSUME NEW r \in Repeaters, HandleFinalized(r)
       PROVE  TypeInv'
  <2>1. PICK m \in finals : /\ finals' = finals \ {m}
                            /\ \/ threads' = [threads EXCEPT ![r] = @ \cup
                                    {[block |-> m.block, at |-> "checked", copied |-> 0]}]
                               \/ UNCHANGED threads
    BY <1>10 DEF HandleFinalized
  <2>2. m.block \in Block
    OBVIOUS
  <2>3. [block |-> m.block, at |-> "checked", copied |-> 0] \in Handler
    BY <2>2 DEF Handler
  <2>4. /\ threads' \in [Repeaters -> SUBSET Handler]
        /\ \A q \in Repeaters : \A t \in threads'[q] :
             t \in threads[q] \/ t.at = "checked"
    <3>1. CASE UNCHANGED threads
      BY <3>1
    <3>2. CASE threads' = [threads EXCEPT ![r] = @ \cup
                 {[block |-> m.block, at |-> "checked", copied |-> 0]}]
      BY <3>2, <2>3, SetUpdate
    <3>3. QED
      BY <2>1, <3>1, <3>2
  <2>5. finals' \subseteq finals
    BY <2>1
  <2>6. QED
    BY <1>10, <2>4, <2>5 DEF HandleFinalized, prodVars, Handler
<1>11. ASSUME NEW r \in Repeaters, AppendBlock(r)
       PROVE  TypeInv'
  <2>1. PICK t \in threads[r] :
          /\ t.at = "checked"
          /\ mem' = [mem EXCEPT ![r] = Append(@, t.block)]
          /\ threads' = [threads EXCEPT ![r] = (@ \ {t}) \cup
               {[block |-> t.block, at |-> "appended", copied |-> Len(mem'[r])]}]
    BY <1>11 DEF AppendBlock
  <2>2. /\ mem'[r] \in Seq(Block) /\ Len(mem'[r]) > 0
        /\ mem' \in [Repeaters -> Seq(Block)]
        /\ \A q \in Repeaters : Len(mem'[q]) > 0
    <3>1. t.block \in Block
      BY DEF Handler
    <3>2. Append(mem[r], t.block) \in Seq(Block) /\ Len(Append(mem[r], t.block)) > 0
      BY <3>1, AppendToChain
    <3>3. QED
      BY <2>1, <3>2
  <2>3. PICK k : k = Len(mem'[r])
    OBVIOUS
  <2>4. k \in Nat /\ k > 0 /\ k = Len(mem[r]) + 1 /\ Len(mem[r]) \in Nat
    BY <2>1, <2>2, <2>3, AppendToChain DEF Handler
  <2> DEFINE u == [block |-> t.block, at |-> "appended", copied |-> k]
  <2>5. u \in Handler /\ u.copied = k
    BY <2>4 DEF Handler
  <2> HIDE DEF u
  <2> DEFINE T == (threads[r] \ {t}) \cup {u}
  <2>6. /\ threads' \in [Repeaters -> SUBSET Handler]
        /\ threads'[r] = T
        /\ \A q \in Repeaters \ {r} : threads'[q] = threads[q] /\ mem'[q] = mem[q]
    <3>1. threads' = [threads EXCEPT ![r] = T]
      BY <2>1, <2>3 DEF u
    <3>2. T \in SUBSET Handler
      BY <2>5
    <3>3. QED
      BY <2>1, <3>1, <3>2, SetUpdate
  <2>7. ASSUME NEW q \in Repeaters, NEW v \in threads'[q], v.at # "checked"
        PROVE  v.copied \in 1 .. Len(mem'[q])
    <3>1. CASE q # r
      BY <2>6, <2>7, <3>1
    <3>2. CASE q = r /\ v = u
      <4>1. k \in 1 .. k
        BY <2>4
      <4>2. QED
        BY <2>3, <2>5, <3>2, <4>1
    <3>3. CASE q = r /\ v # u
      <4>1. v \in threads[r]
        BY <2>6, <3>3
      <4>2. v.copied \in 1 .. Len(mem[r])
        BY <2>7, <4>1
      <4>3. v.copied \in 1 .. k
        BY <2>4, <4>2
      <4>4. QED
        BY <2>3, <3>3, <4>3
    <3>4. QED
      BY <3>1, <3>2, <3>3
  <2>8. QED
    BY <1>11, <2>2, <2>6, <2>7 DEF AppendBlock, prodVars, netVars
<1>7. ASSUME NEW r \in Repeaters, OpenFile(r)
      PROVE  TypeInv'
  <2>1. PICK t \in threads[r] :
          /\ t.at = "appended"
          /\ disk' = [disk EXCEPT ![r] = <<Genesis>>]
          /\ threads' = [threads EXCEPT ![r] = (@ \ {t}) \cup {[t EXCEPT !.at = "writing"]}]
    BY <1>7 DEF OpenFile
  <2> DEFINE u == [t EXCEPT !.at = "writing"]
  <2>2. u \in Handler /\ u.copied = t.copied
    <3>1. t \in Handler
      OBVIOUS
    <3>2. QED
      BY <3>1 DEF Handler
  <2> HIDE DEF u
  <2>3. /\ threads' \in [Repeaters -> SUBSET Handler]
        /\ threads'[r] = (threads[r] \ {t}) \cup {u}
        /\ \A q \in Repeaters \ {r} : threads'[q] = threads[q]
    <3>1. threads' = [threads EXCEPT ![r] = (threads[r] \ {t}) \cup {u}]
      BY <2>1 DEF u
    <3>2. (threads[r] \ {t}) \cup {u} \in SUBSET Handler
      BY <2>2
    <3>3. QED
      BY <3>1, <3>2, SetUpdate
  <2>4. ASSUME NEW q \in Repeaters, NEW v \in threads'[q], v.at # "checked"
        PROVE  v.copied \in 1 .. Len(mem[q])
    <3>1. CASE v \in threads[q]
      BY <2>4, <3>1
    <3>2. CASE q = r /\ v = u
      BY <2>1, <2>2, <3>2
    <3>3. QED
      BY <2>3, <3>1, <3>2
  <2>5. disk' \in [Repeaters -> Seq(Block)] /\ \A q \in Repeaters : Len(disk'[q]) > 0
    BY <2>1, GenesisBlock
  <2>6. QED
    BY <1>7, <2>3, <2>4, <2>5 DEF OpenFile, prodVars, netVars
<1>12. ASSUME NEW r \in Repeaters, SaveBlock(r)
       PROVE  TypeInv'
  <2>1. PICK t \in threads[r] :
          /\ t.at = "writing"
          /\ \E d \in Overlaid(disk[r], SubSeq(mem[r], 1, t.copied),
                               \E u \in threads[r] \ {t} : u.at = "writing") :
               disk' = [disk EXCEPT ![r] = d]
          /\ threads' = [threads EXCEPT ![r] = @ \ {t}]
    BY <1>12 DEF SaveBlock
  <2>2. t.copied \in 1 .. Len(mem[r])
    BY <2>1
  <2>3. disk' \in [Repeaters -> Seq(Block)] /\ \A q \in Repeaters : Len(disk'[q]) > 0
    <3>1. PICK d \in Overlaid(disk[r], SubSeq(mem[r], 1, t.copied),
                              \E u \in threads[r] \ {t} : u.at = "writing") :
            disk' = [disk EXCEPT ![r] = d]
      BY <2>1
    <3>2. mem[r] \in Seq(Block)
      OBVIOUS
    <3>3. d \in Seq(Block) /\ Len(d) > 0
      BY <2>2, <3>2, WrittenFile
    <3>4. QED
      BY <3>1, <3>3
  <2>4. /\ threads' \in [Repeaters -> SUBSET Handler]
        /\ \A q \in Repeaters : threads'[q] \subseteq threads[q]
    BY <2>1
  <2>5. UNCHANGED <<prodVars, up, mem, signed, netVars, faults>>
    BY <1>12 DEF SaveBlock
  <2>6. QED
    BY <2>3, <2>4, <2>5 DEF prodVars, netVars
<1>13. ASSUME NEW r \in Repeaters, RepeaterRestart(r)
       PROVE  TypeInv'
  BY <1>13 DEF RepeaterRestart, prodVars, netVars
<1>14. ASSUME NEW r \in Repeaters, Refuse(r)
       PROVE  TypeInv'
  BY <1>14 DEF Refuse, Discard, prodVars, repVars
<1>15. ASSUME NEW r \in Repeaters, RepeaterCrash(r)
       PROVE  TypeInv'
  BY <1>15 DEF RepeaterCrash, prodVars, netVars
<1>16. CASE Lose
  <2>1. /\ proposals' \subseteq proposals /\ finals' \subseteq finals
        /\ signatures' \subseteq signatures /\ faults' = faults + 1
        /\ UNCHANGED <<prodVars, repVars>>
    BY <1>16 DEF Lose, Discard
  <2>2. QED
    BY <2>1 DEF prodVars, repVars
<1>17. CASE UNCHANGED vars
  BY <1>17 DEF vars, prodVars, repVars, netVars
<1>18. QED
  BY <1>1, <1>2, <1>3, <1>4, <1>5, <1>6, <1>7, <1>8, <1>9, <1>10, <1>11, <1>12,
     <1>13, <1>14, <1>15, <1>16, <1>17 DEF Next, ProducerStep, RepeaterStep

\* The components of the state have the types the code gives them, whatever
\* the bounds.
THEOREM TypeCorrect == Spec => []TypeOK
<1>1. TypeInv => TypeOK
  BY DEF TypeInv
<1>2. QED
  BY TypeInit, TypeStep, <1>1, PTL DEF Spec
-----------------------------------------------------------------------------
(***************************************************************************)
(* The producer's own chain, through every crash: its file holds a chain   *)
(* whose blocks are where their numbers say, memory is at most one block   *)
(* ahead, and that block passed add_block against what the file holds.     *)
(***************************************************************************)
Numbered == \A i \in 1 .. Len(saved) : saved[i].num = i - 1

ProducerInv ==
  /\ pc # "saving" => chain = saved
  /\ pc = "saving" => /\ Len(chain) = Len(saved) + 1
                      /\ Last(chain).num = Len(saved)
                      /\ \A i \in 1 .. Len(saved) : chain[i] = saved[i]
                      /\ AddBlockOK(saved, Last(chain), Majority)
  /\ pc = "broadcasting" => Len(saved) > 1

SavedInv == TypeInv /\ Numbered /\ ProducerInv

LEMMA SavedInit == Init => SavedInv
BY TypeInit, GenesisBlock DEF Init, SavedInv, Numbered, ProducerInv

LEMMA SavedFinalize ==
  ASSUME SavedInv, TypeInv', Finalize
  PROVE  SavedInv'
<1> DEFINE b == FromProposal(current, collected)
<1>1. chain = saved /\ chain \in Seq(Block) /\ Len(saved) > 0
  BY DEF SavedInv, ProducerInv, Finalize, TypeInv, TypeOK, NonEmpty
<1>2. b \in Block
  BY FromProposalBlock, NoProposalIsProposal DEF SavedInv, TypeInv, TypeOK
<1>3. b.num = Last(chain).num + 1 /\ AddBlockOK(saved, b, Majority)
  BY <1>1 DEF Finalize, CanFinalize, AddBlockOK, Extends
<1>4. Last(chain).num = Len(saved) - 1
  BY <1>1 DEF Last, SavedInv, Numbered
<1>5. b.num = Len(saved)
  BY <1>1, <1>3, <1>4
<1>6. chain' = Append(saved, b) /\ pc' = "saving" /\ saved' = saved
  BY <1>1 DEF Finalize
<1> HIDE DEF b
<1>7. Last(chain') = b /\ Len(chain') = Len(saved) + 1
      /\ \A i \in 1 .. Len(saved) : chain'[i] = saved[i]
  BY <1>1, <1>2, <1>6, AppendToChain
<1>8. ProducerInv'
  <2>1. AddBlockOK(saved, Last(chain), Majority)'
    BY <1>3, <1>6, <1>7 DEF AddBlockOK, Extends, Last
  <2>2. QED
    BY <1>5, <1>6, <1>7, <2>1 DEF ProducerInv
<1>9. Numbered'
  BY <1>6 DEF SavedInv, Numbered
<1>10. QED
  BY <1>8, <1>9 DEF SavedInv

LEMMA SavedFinishFinalize ==
  ASSUME SavedInv, TypeInv', FinishFinalize
  PROVE  SavedInv'
<1>1. /\ saved \in Seq(Block) /\ saved' \in Seq(Block) /\ Len(saved) > 0
      /\ Len(saved') = Len(saved) + 1 /\ Last(chain).num = Len(saved)
      /\ \A i \in 1 .. Len(saved) : saved'[i] = saved[i]
      /\ saved' = chain /\ chain' = saved' /\ pc' = "broadcasting"
  BY DEF FinishFinalize, SavedInv, ProducerInv, TypeInv, TypeOK, NonEmpty
<1>2. ProducerInv'
  BY <1>1 DEF ProducerInv
<1>3. Numbered'
  <2>1. Last(chain) = saved'[Len(saved')]
    BY <1>1 DEF Last
  <2>2. ASSUME NEW i \in 1 .. Len(saved') PROVE saved'[i].num = i - 1
    <3>1. Len(saved) \in Nat
      BY <1>1
    <3>2. CASE i \in 1 .. Len(saved)
      BY <1>1, <3>2 DEF SavedInv, Numbered
    <3>3. CASE i = Len(saved) + 1
      BY <1>1, <2>1, <3>1, <3>3
    <3>4. QED
      BY <1>1, <2>2, <3>1, <3>2, <3>3
  <2>3. QED
    BY <2>2 DEF Numbered
<1>4. QED
  BY <1>2, <1>3 DEF SavedInv

LEMMA SavedProducerCrash ==
  ASSUME SavedInv, TypeInv', ProducerCrash
  PROVE  SavedInv'
<1>1. saved \in Seq(Block) /\ Len(saved) > 0
  BY DEF SavedInv, TypeInv, TypeOK, NonEmpty
<1>2. saved' = saved \/ saved' = <<Genesis>>
  BY <1>1, AfterCrashBlocks DEF ProducerCrash
<1>3. Numbered'
  <2>1. CASE saved' = saved
    BY <2>1 DEF SavedInv, Numbered
  <2>2. CASE saved' = <<Genesis>>
    BY <2>2, GenesisBlock DEF Numbered
  <2>3. QED
    BY <1>2, <2>1, <2>2
<1>4. ProducerInv'
  BY DEF ProducerCrash, ProducerInv
<1>5. QED
  BY <1>3, <1>4 DEF SavedInv

LEMMA SavedStep == SavedInv /\ [Next]_vars => SavedInv'
<1> SUFFICES ASSUME SavedInv, [Next]_vars
             PROVE  SavedInv'
  OBVIOUS
<1>1. TypeInv'
  BY TypeStep DEF SavedInv
<1>2. ASSUME UNCHANGED <<chain, saved>>,
             pc' = pc \/ (pc # "saving" /\ pc' \in {"idle", "collecting"})
      PROVE  SavedInv'
  BY <1>1, <1>2 DEF SavedInv, Numbered, ProducerInv, AddBlockOK, Extends, Last
<1>3. CASE StartAttempt
  BY <1>2, <1>3 DEF StartAttempt
<1>4. CASE ReceiveSignature
  BY <1>2, <1>4 DEF ReceiveSignature
<1>5. CASE FailAttempt
  BY <1>2, <1>5 DEF FailAttempt
<1>6. ASSUME NEW r \in Repeaters, SendFinalized(r) PROVE SavedInv'
  BY <1>2, <1>6 DEF SendFinalized
<1>7. ASSUME NEW r \in Repeaters, RepeaterStep(r) \/ RepeaterCrash(r)
      PROVE  SavedInv'
  BY <1>2, <1>7 DEF RepeaterStep, HandleProposal, HandleFinalized, AppendBlock, OpenFile,
     SaveBlock, RepeaterRestart, Refuse, Discard, RepeaterCrash, prodVars
<1>8. CASE Lose \/ UNCHANGED vars
  BY <1>2, <1>8 DEF Lose, Discard, vars, prodVars
<1>9. QED
  BY <1>1, <1>3, <1>4, <1>5, <1>6, <1>7, <1>8, SavedFinalize, SavedFinishFinalize,
     SavedProducerCrash DEF Next, ProducerStep
-----------------------------------------------------------------------------
(***************************************************************************)
(* A repeater's own chain, through every crash: its file is a beginning of *)
(* its memory, whichever handler thread wrote it last, and whatever two of *)
(* them left of each other's text.                                         *)
(***************************************************************************)
HeldInv(r) ==
  /\ mem[r][1] = Genesis
  /\ Len(disk[r]) <= Len(mem[r])
  /\ \A i \in 1 .. Len(disk[r]) : disk[r][i] = mem[r][i]

LEMMA HeldInit == Init => \A r \in Repeaters : HeldInv(r)
BY GenesisBlock DEF Init, HeldInv

LEMMA HeldStep ==
  ASSUME TypeInv, [Next]_vars, NEW r \in Repeaters, HeldInv(r)
  PROVE  HeldInv(r)'
<1>1. /\ mem \in [Repeaters -> Seq(Block)] /\ disk \in [Repeaters -> Seq(Block)]
      /\ threads \in [Repeaters -> SUBSET Handler]
      /\ mem[r] \in Seq(Block) /\ disk[r] \in Seq(Block)
      /\ Len(mem[r]) \in Nat /\ Len(disk[r]) \in Nat /\ Len(mem[r]) > 0 /\ Len(disk[r]) > 0
  BY DEF TypeInv, TypeOK, NonEmpty
<1>2. ASSUME mem'[r] = mem[r], disk'[r] = disk[r] PROVE HeldInv(r)'
  BY <1>2 DEF HeldInv
<1>3. ASSUME mem'[r] = mem[r], disk'[r] = <<Genesis>> PROVE HeldInv(r)'
  BY <1>1, <1>3, GenesisBlock DEF HeldInv
<1>4. ASSUME NEW q \in Repeaters, AppendBlock(q) PROVE HeldInv(r)'
  <2>1. PICK t \in threads[q] : mem' = [mem EXCEPT ![q] = Append(@, t.block)]
    BY <1>4 DEF AppendBlock
  <2>2. disk' = disk /\ t.block \in Block
    BY <1>1, <1>4 DEF AppendBlock, Handler
  <2>3. CASE q # r
    BY <1>1, <1>2, <2>1, <2>2, <2>3
  <2>4. CASE q = r
    <3>1. PICK s : s = mem'[r]
      OBVIOUS
    <3>2. s = Append(mem[r], t.block)
      BY <1>1, <2>1, <2>4, <3>1
    <3>3. Len(s) = Len(mem[r]) + 1 /\ \A i \in 1 .. Len(mem[r]) : s[i] = mem[r][i]
      BY <1>1, <2>2, <3>2, AppendToChain
    <3>4. s[1] = Genesis /\ Len(disk[r]) <= Len(s)
      <4>1. 1 \in 1 .. Len(mem[r]) /\ mem[r][1] = Genesis /\ Len(disk[r]) <= Len(mem[r])
        BY <1>1 DEF HeldInv
      <4>2. QED
        BY <1>1, <3>3, <4>1
    <3>5. \A i \in 1 .. Len(disk[r]) : disk[r][i] = s[i]
      BY <1>1, <3>3 DEF HeldInv
    <3>6. QED
      BY <2>2, <3>1, <3>4, <3>5 DEF HeldInv
  <2>5. QED
    BY <2>3, <2>4
<1>5. ASSUME NEW q \in Repeaters, OpenFile(q) PROVE HeldInv(r)'
  <2>1. mem' = mem /\ disk' = [disk EXCEPT ![q] = <<Genesis>>]
    BY <1>5 DEF OpenFile
  <2>2. QED
    BY <1>1, <1>2, <1>3, <2>1
<1>6. ASSUME NEW q \in Repeaters, SaveBlock(q) PROVE HeldInv(r)'
  <2> PICK t \in threads[q] :
          /\ t.at = "writing"
          /\ \E d \in Overlaid(disk[q], SubSeq(mem[q], 1, t.copied),
                               \E u \in threads[q] \ {t} : u.at = "writing") :
               disk' = [disk EXCEPT ![q] = d]
    BY <1>6 DEF SaveBlock
  <2>1. PICK d \in Overlaid(disk[q], SubSeq(mem[q], 1, t.copied),
                            \E u \in threads[q] \ {t} : u.at = "writing") :
          disk' = [disk EXCEPT ![q] = d]
    OBVIOUS
  <2>2. mem' = mem
    BY <1>6 DEF SaveBlock
  <2>3. CASE q # r
    BY <1>1, <1>2, <2>1, <2>2, <2>3
  <2>4. CASE q = r
    <3>1. t.copied \in 1 .. Len(mem[q]) /\ mem[q] \in Seq(Block)
      BY <1>1, <2>4 DEF TypeInv, NonEmpty
    <3>2. d = SubSeq(mem[q], 1, t.copied) \/ d = <<Genesis>>
      BY DEF Overlaid
    <3>3. PICK n : n = t.copied
      OBVIOUS
    <3>4. CASE d = <<Genesis>>
      BY <1>1, <1>3, <2>1, <2>2, <2>4, <3>4
    <3>5. CASE d = SubSeq(mem[r], 1, n)
      <4>1. disk'[r] = d
        BY <1>1, <2>1, <2>4
      <4>2. n \in 1 .. Len(mem[r])
        BY <2>4, <3>1, <3>3
      <4>3. Len(d) = n /\ \A i \in 1 .. n : d[i] = mem[r][i]
        BY <1>1, <3>5, <4>2, Beginning
      <4>4. Len(disk'[r]) <= Len(mem[r]) /\ \A i \in 1 .. Len(disk'[r]) : disk'[r][i] = mem[r][i]
        BY <1>1, <4>1, <4>2, <4>3
      <4>5. QED
        BY <2>2, <4>4 DEF HeldInv
    <3>6. QED
      BY <2>4, <3>2, <3>3, <3>4, <3>5
  <2>5. QED
    BY <2>3, <2>4
<1>7. ASSUME NEW q \in Repeaters, RepeaterCrash(q) PROVE HeldInv(r)'
  <2>1. mem' = [mem EXCEPT ![q] = disk[q]] /\ disk' = disk
    BY <1>7 DEF RepeaterCrash
  <2>2. CASE q # r
    BY <1>1, <1>2, <2>1, <2>2
  <2>3. CASE q = r
    <3>1. mem'[r] = disk[r] /\ disk'[r] = disk[r]
      BY <1>1, <2>1, <2>3
    <3>2. disk[r][1] = Genesis
      <4>1. 1 \in 1 .. Len(disk[r])
        BY <1>1
      <4>2. QED
        BY <4>1 DEF HeldInv
    <3>3. QED
      BY <1>1, <3>1, <3>2 DEF HeldInv
  <2>4. QED
    BY <2>2, <2>3
<1>8. CASE ProducerStep \/ ProducerCrash \/ Lose \/ UNCHANGED vars
  BY <1>2, <1>8 DEF ProducerStep, StartAttempt, ReceiveSignature, Finalize,
     FinishFinalize, FailAttempt, SendFinalized, ProducerCrash, Lose, Discard, repVars, vars
<1>9. ASSUME NEW q \in Repeaters,
             HandleProposal(q) \/ HandleFinalized(q) \/ RepeaterRestart(q) \/ Refuse(q)
      PROVE  HeldInv(r)'
  BY <1>2, <1>9 DEF HandleProposal, HandleFinalized, RepeaterRestart, Refuse, Discard, repVars
<1>10. QED
  BY <1>4, <1>5, <1>6, <1>7, <1>8, <1>9 DEF Next, RepeaterStep
-----------------------------------------------------------------------------
(***************************************************************************)
(* One history.  Unless a crash has torn the producer's file, every block  *)
(* that was ever broadcast is still in it, at the position its number      *)
(* says.  A repeater accepts a block whose number is the length of its own *)
(* chain: that is the block the producer has at this position.             *)
(***************************************************************************)
\* s is a non-empty prefix of what the producer saved.
Pre(s) ==
  /\ 0 < Len(s) /\ Len(s) <= Len(saved)
  /\ \A i \in 1 .. Len(s) : s[i] = saved[i]

\* b is a saved block, not the genesis, at the position of its number.
InPlace(b) ==
  /\ b.num \in 1 .. Len(saved) - 1
  /\ b = saved[b.num + 1]

RepeaterInv(r) ==
  /\ Pre(mem[r])
  /\ \A t \in threads[r] :
       /\ InPlace(t.block)
       /\ t.at = "checked" => t.copied = 0 /\ t.block.num = Len(mem[r])
       /\ t.at # "checked" => t.block.num < Len(mem[r])

FinalsInv == \A m \in finals : InPlace(m.block)

OneHistoryInv == (\A r \in Repeaters : RepeaterInv(r)) /\ FinalsInv

PrefixInv ==
  /\ SavedInv
  /\ \A r \in Repeaters : HeldInv(r)
  /\ torn \/ OneHistoryInv

LEMMA PrefixInit == Init => PrefixInv
<1> SUFFICES ASSUME Init PROVE PrefixInv
  OBVIOUS
<1>1. SavedInv /\ \A r \in Repeaters : HeldInv(r)
  BY SavedInit, HeldInit
<1>2. FinalsInv
  BY DEF Init, FinalsInv
<1>3. ASSUME NEW r \in Repeaters PROVE RepeaterInv(r)
  BY GenesisBlock DEF Init, RepeaterInv, Pre
<1>4. QED
  BY <1>1, <1>2, <1>3 DEF PrefixInv, OneHistoryInv

\* What the crash of the producer has cost it stays lost.
LEMMA TornStays == torn /\ [Next]_vars => torn'
BY DEF Next, ProducerStep, StartAttempt, ReceiveSignature, Finalize, FinishFinalize,
   FailAttempt, SendFinalized, ProducerCrash, RepeaterStep, HandleProposal,
   HandleFinalized, AppendBlock, OpenFile, SaveBlock, RepeaterRestart, Refuse, Discard,
   RepeaterCrash, Lose, vars, prodVars

\* What is in place stays in place when the saved chain grows.
LEMMA SavedGrows ==
  ASSUME saved \in Seq(Block), saved' \in Seq(Block), Len(saved) <= Len(saved'),
         \A i \in 1 .. Len(saved) : saved'[i] = saved[i]
  PROVE  /\ \A s \in Seq(Block) : Pre(s) => /\ 0 < Len(s) /\ Len(s) <= Len(saved')
                                            /\ \A i \in 1 .. Len(s) : s[i] = saved'[i]
         /\ \A b \in Block : InPlace(b) => /\ b.num \in 1 .. Len(saved') - 1
                                           /\ b = saved'[b.num + 1]
<1>1. ASSUME NEW s \in Seq(Block), Pre(s)
      PROVE  /\ 0 < Len(s) /\ Len(s) <= Len(saved')
             /\ \A i \in 1 .. Len(s) : s[i] = saved'[i]
  BY <1>1 DEF Pre
<1>2. ASSUME NEW b \in Block, InPlace(b)
      PROVE  /\ b.num \in 1 .. Len(saved') - 1
             /\ b = saved'[b.num + 1]
  BY <1>2 DEF InPlace
<1>3. QED
  BY <1>1, <1>2

\* The check that add_block makes on a block in place.
LEMMA AcceptedIsNext ==
  ASSUME SavedInv, NEW s \in Seq(Block), Pre(s), NEW b \in Block, InPlace(b),
         Extends(b, s)
  PROVE  b.num = Len(s)
<1>1. Last(s) = saved[Len(s)] /\ Len(s) \in 1 .. Len(saved)
  <2>1. Len(s) \in Nat /\ Len(saved) \in Nat
    BY DEF SavedInv, TypeInv, TypeOK
  <2>2. QED
    BY <2>1 DEF Pre, Last
<1>2. Last(s).num = Len(s) - 1
  BY <1>1 DEF SavedInv, Numbered
<1>3. b.num = Last(s).num + 1
  BY DEF Extends
<1>4. QED
  BY <1>1, <1>2, <1>3

LEMMA NextIsPrefix ==
  ASSUME TypeInv, NEW s \in Seq(Block), Pre(s), NEW b \in Block, InPlace(b),
         b.num = Len(s)
  PROVE  Pre(Append(s, b))
<1> DEFINE u == Append(s, b)
<1>1. Len(u) = Len(s) + 1 /\ u[Len(s) + 1] = b /\ \A i \in 1 .. Len(s) : u[i] = s[i]
  OBVIOUS
<1>2. Len(s) \in Nat /\ Len(saved) \in Nat
  BY DEF TypeInv, TypeOK
<1> HIDE DEF u
<1>3. Pre(u)
  BY <1>1, <1>2 DEF Pre, InPlace
<1>4. QED
  BY <1>3 DEF u

\* Steps that leave the producer's file and its repeaters' chains alone.
LEMMA PrefixUnchanged ==
  ASSUME OneHistoryInv, saved' = saved, finals' \subseteq finals, UNCHANGED <<mem, threads>>
  PROVE  OneHistoryInv'
<1>1. FinalsInv'
  BY DEF OneHistoryInv, FinalsInv, InPlace
<1>2. \A r \in Repeaters : RepeaterInv(r)'
  BY DEF OneHistoryInv, RepeaterInv, InPlace, Pre
<1>3. QED
  BY <1>1, <1>2 DEF OneHistoryInv

LEMMA PrefixFinishFinalize ==
  ASSUME SavedInv, TypeInv', OneHistoryInv, FinishFinalize
  PROVE  OneHistoryInv'
<1>1. /\ saved \in Seq(Block) /\ saved' \in Seq(Block) /\ Len(saved) <= Len(saved')
      /\ \A i \in 1 .. Len(saved) : saved'[i] = saved[i]
      /\ UNCHANGED <<finals, mem, threads>>
  BY DEF FinishFinalize, SavedInv, ProducerInv, TypeInv, TypeOK, repVars, netVars
<1>2. /\ \A s \in Seq(Block) : Pre(s) => Pre(s)'
      /\ \A b \in Block : InPlace(b) => InPlace(b)'
  BY <1>1, SavedGrows DEF Pre, InPlace
<1>3. FinalsInv'
  <2>1. \A m \in finals : m.block \in Block
    BY DEF SavedInv, TypeInv, TypeOK
  <2>2. QED
    BY <1>1, <1>2, <2>1 DEF OneHistoryInv, FinalsInv, InPlace
<1>4. ASSUME NEW r \in Repeaters PROVE RepeaterInv(r)'
  <2>1. mem[r] \in Seq(Block) /\ \A t \in threads[r] : t.block \in Block
    BY DEF SavedInv, TypeInv, TypeOK, Handler
  <2>2. RepeaterInv(r)
    BY DEF OneHistoryInv
  <2>3. QED
    BY <1>1, <1>2, <2>1, <2>2 DEF RepeaterInv, Pre, InPlace
<1>5. QED
  BY <1>3, <1>4 DEF OneHistoryInv

\* A producer whose file is not torn finds it as it was.
LEMMA PrefixProducerCrash ==
  ASSUME OneHistoryInv, ProducerCrash, ~torn'
  PROVE  OneHistoryInv'
<1>1. saved' = saved /\ UNCHANGED <<finals, mem, threads>>
  BY DEF ProducerCrash, repVars
<1>2. QED
  BY <1>1, PrefixUnchanged

LEMMA PrefixSendFinalized ==
  ASSUME SavedInv, OneHistoryInv, NEW r \in Repeaters, SendFinalized(r)
  PROVE  OneHistoryInv'
<1>1. /\ finals' = finals \cup {[to |-> r, block |-> Last(chain)]}
      /\ pc = "broadcasting"
      /\ UNCHANGED <<saved, mem, threads>>
  BY DEF SendFinalized, repVars
<1>2. chain = saved /\ Len(saved) > 1 /\ Len(saved) \in Nat
  BY <1>1 DEF SavedInv, ProducerInv, TypeInv, TypeOK
<1>3. Last(chain) = saved[Len(saved)] /\ Last(chain).num = Len(saved) - 1
  BY <1>2 DEF Last, SavedInv, Numbered
<1>4. InPlace(Last(chain))
  BY <1>2, <1>3 DEF InPlace
<1>5. FinalsInv'
  BY <1>1, <1>4 DEF OneHistoryInv, FinalsInv, InPlace
<1>6. \A q \in Repeaters : RepeaterInv(q)'
  BY <1>1 DEF OneHistoryInv, RepeaterInv, InPlace, Pre
<1>7. QED
  BY <1>5, <1>6 DEF OneHistoryInv

\* A step of repeater r keeps the invariant when it keeps r's own part.
LEMMA PrefixRepeater ==
  ASSUME OneHistoryInv, NEW r \in Repeaters, RepeaterInv(r)',
         saved' = saved, finals' \subseteq finals,
         \A q \in Repeaters \ {r} : mem'[q] = mem[q] /\ threads'[q] = threads[q]
  PROVE  OneHistoryInv'
<1>1. FinalsInv'
  BY DEF OneHistoryInv, FinalsInv, InPlace
<1>2. ASSUME NEW q \in Repeaters \ {r} PROVE RepeaterInv(q)'
  BY DEF OneHistoryInv, RepeaterInv, InPlace, Pre
<1>3. QED
  BY <1>1, <1>2 DEF OneHistoryInv

LEMMA PrefixHandleFinalized ==
  ASSUME SavedInv, OneHistoryInv, NEW r \in Repeaters, HandleFinalized(r)
  PROVE  OneHistoryInv'
<1>1. PICK m \in finals :
        /\ finals' = finals \ {m}
        /\ \/ /\ AddBlockOK(mem[r], m.block, RepeaterMinimum(m.block))
              /\ threads' = [threads EXCEPT ![r] = @ \cup
                   {[block |-> m.block, at |-> "checked", copied |-> 0]}]
           \/ UNCHANGED threads
  BY DEF HandleFinalized
<1>2. UNCHANGED <<saved, mem>>
  BY DEF HandleFinalized, prodVars
<1>3. /\ threads \in [Repeaters -> SUBSET Handler] /\ mem[r] \in Seq(Block)
      /\ m.block \in Block
  BY DEF SavedInv, TypeInv, TypeOK
<1>4. RepeaterInv(r) /\ InPlace(m.block)
  BY DEF OneHistoryInv, FinalsInv
<1>5. CASE UNCHANGED threads
  BY <1>1, <1>2, <1>5, PrefixUnchanged
<1>6. CASE /\ AddBlockOK(mem[r], m.block, RepeaterMinimum(m.block))
           /\ threads' = [threads EXCEPT ![r] = @ \cup
                {[block |-> m.block, at |-> "checked", copied |-> 0]}]
  <2> DEFINE t0 == [block |-> m.block, at |-> "checked", copied |-> 0]
  <2>1. m.block.num = Len(mem[r])
    BY <1>3, <1>4, <1>6, AcceptedIsNext DEF AddBlockOK, RepeaterInv
  <2>2. t0.block = m.block /\ t0.at = "checked" /\ t0.copied = 0
    OBVIOUS
  <2> HIDE DEF t0
  <2>3. /\ threads'[r] = threads[r] \cup {t0}
        /\ \A q \in Repeaters \ {r} : threads'[q] = threads[q]
    BY <1>3, <1>6 DEF t0
  <2>4. RepeaterInv(r)'
    BY <1>2, <1>4, <2>1, <2>2, <2>3 DEF RepeaterInv, InPlace, Pre
  <2>5. QED
    BY <1>1, <1>2, <2>3, <2>4, PrefixRepeater
<1>7. QED
  BY <1>1, <1>5, <1>6

\* Two checked blocks of one repeater have the same number, so they are the
\* same block: after the append no other thread waits with a stale check.
LEMMA PrefixAppendBlock ==
  ASSUME SavedInv, OneHistoryInv, NEW r \in Repeaters, AppendBlock(r)
  PROVE  OneHistoryInv'
<1>1. PICK t \in threads[r] :
        /\ t.at = "checked"
        /\ mem' = [mem EXCEPT ![r] = Append(@, t.block)]
        /\ threads' = [threads EXCEPT ![r] = (@ \ {t}) \cup
             {[block |-> t.block, at |-> "appended", copied |-> Len(mem'[r])]}]
  BY DEF AppendBlock
<1>2. UNCHANGED <<saved, finals>>
  BY DEF AppendBlock, prodVars, netVars
<1>3. /\ threads \in [Repeaters -> SUBSET Handler]
      /\ mem \in [Repeaters -> Seq(Block)] /\ mem[r] \in Seq(Block) /\ Len(mem[r]) \in Nat
  BY DEF SavedInv, TypeInv, TypeOK
<1>4. RepeaterInv(r)
  BY DEF OneHistoryInv
<1>5. /\ t \in Handler /\ t.block \in Block /\ InPlace(t.block)
      /\ t.copied = 0 /\ t.block.num = Len(mem[r])
  BY <1>1, <1>3, <1>4 DEF RepeaterInv, Handler
<1> DEFINE u == [block |-> t.block, at |-> "appended", copied |-> Len(mem'[r])]
<1>6. u.block = t.block /\ u.at # "checked"
  OBVIOUS
<1> HIDE DEF u
<1>7. /\ mem'[r] = Append(mem[r], t.block)
      /\ threads'[r] = (threads[r] \ {t}) \cup {u}
      /\ \A q \in Repeaters \ {r} : mem'[q] = mem[q] /\ threads'[q] = threads[q]
  BY <1>1, <1>3 DEF u
<1>8. Pre(mem'[r]) /\ Len(mem'[r]) = Len(mem[r]) + 1
  <2>1. TypeInv /\ Pre(mem[r])
    BY <1>4 DEF SavedInv, RepeaterInv
  <2>2. QED
    BY <1>3, <1>5, <1>7, <2>1, NextIsPrefix, AppendToChain
<1>9. ASSUME NEW v \in threads[r], v.at = "checked" PROVE v = t
  <2>1. v \in Handler /\ InPlace(v.block) /\ v.copied = 0 /\ v.block.num = Len(mem[r])
    BY <1>3, <1>4, <1>9 DEF RepeaterInv
  <2>2. v.block = t.block
    BY <2>1, <1>5 DEF InPlace
  <2>3. QED
    BY <2>1, <2>2, <1>1, <1>5, <1>9 DEF Handler
<1>10. RepeaterInv(r)'
  <2>1. Pre(mem[r])'
    BY <1>2, <1>8 DEF Pre
  <2>2. ASSUME NEW v \in threads'[r]
        PROVE  /\ InPlace(v.block)'
               /\ v.at # "checked"
               /\ v.block.num < Len(mem'[r])
    <3>1. CASE v = u
      <4>1. v.block = t.block /\ v.at # "checked"
        BY <1>6, <3>1
      <4>2. InPlace(v.block)'
        BY <1>2, <1>5, <4>1 DEF InPlace
      <4>3. v.block.num < Len(mem'[r])
        BY <1>3, <1>5, <1>8, <4>1
      <4>4. QED
        BY <4>1, <4>2, <4>3
    <3>2. CASE v # u
      <4>1. v \in threads[r] /\ v # t
        BY <1>7, <3>2
      <4>2. v.at # "checked"
        BY <4>1, <1>9
      <4>3. InPlace(v.block) /\ v.block.num < Len(mem[r])
        BY <1>4, <4>1, <4>2 DEF RepeaterInv
      <4>4. v.block.num \in Int
        BY <4>3 DEF InPlace
      <4>5. v.block.num < Len(mem'[r])
        BY <1>3, <1>8, <4>3, <4>4
      <4>6. QED
        BY <1>2, <4>2, <4>3, <4>5 DEF InPlace
    <3>3. QED
      BY <3>1, <3>2
  <2>3. QED
    BY <2>1, <2>2 DEF RepeaterInv
<1>11. QED
  BY <1>2, <1>7, <1>10, PrefixRepeater

\* A thread that opens the file still has its block in hand.
LEMMA PrefixOpenFile ==
  ASSUME SavedInv, OneHistoryInv, NEW r \in Repeaters, OpenFile(r)
  PROVE  OneHistoryInv'
<1>1. PICK t \in threads[r] :
        /\ t.at = "appended"
        /\ threads' = [threads EXCEPT ![r] = (@ \ {t}) \cup {[t EXCEPT !.at = "writing"]}]
  BY DEF OpenFile
<1>2. UNCHANGED <<saved, mem, finals>>
  BY DEF OpenFile, prodVars, netVars
<1>3. threads \in [Repeaters -> SUBSET Handler] /\ t \in Handler
  BY DEF SavedInv, TypeInv, TypeOK
<1> DEFINE u == [t EXCEPT !.at = "writing"]
<1>4. u.block = t.block /\ u.at # "checked"
  BY <1>3 DEF Handler
<1> HIDE DEF u
<1>5. /\ threads'[r] = (threads[r] \ {t}) \cup {u}
      /\ \A q \in Repeaters \ {r} : threads'[q] = threads[q]
  BY <1>1, <1>3 DEF u
<1>6. RepeaterInv(r)
  BY DEF OneHistoryInv
<1>7. InPlace(t.block) /\ t.block.num < Len(mem[r])
  BY <1>1, <1>6 DEF RepeaterInv
<1>8. RepeaterInv(r)'
  BY <1>2, <1>4, <1>5, <1>6, <1>7 DEF RepeaterInv, InPlace, Pre
<1>9. QED
  BY <1>2, <1>5, <1>8, PrefixRepeater

LEMMA PrefixSaveBlock ==
  ASSUME SavedInv, OneHistoryInv, NEW r \in Repeaters, SaveBlock(r)
  PROVE  OneHistoryInv'
<1>1. PICK t \in threads[r] : threads' = [threads EXCEPT ![r] = @ \ {t}]
  BY DEF SaveBlock
<1>2. UNCHANGED <<saved, mem, finals>>
  BY DEF SaveBlock, prodVars, netVars
<1>3. threads \in [Repeaters -> SUBSET Handler]
  BY DEF SavedInv, TypeInv, TypeOK
<1>4. /\ threads'[r] = threads[r] \ {t}
      /\ \A q \in Repeaters \ {r} : threads'[q] = threads[q]
  BY <1>1, <1>3
<1>5. RepeaterInv(r)'
  BY <1>2, <1>4 DEF OneHistoryInv, RepeaterInv, InPlace, Pre
<1>6. QED
  BY <1>2, <1>4, <1>5, PrefixRepeater

LEMMA PrefixRepeaterCrash ==
  ASSUME SavedInv, OneHistoryInv, NEW r \in Repeaters, HeldInv(r), RepeaterCrash(r)
  PROVE  OneHistoryInv'
<1>1. mem' = [mem EXCEPT ![r] = disk[r]]
  BY DEF RepeaterCrash
<1>2. threads' = [threads EXCEPT ![r] = {}] /\ UNCHANGED <<saved, finals>>
  BY DEF RepeaterCrash, prodVars, netVars
<1>3. /\ threads \in [Repeaters -> SUBSET Handler] /\ mem \in [Repeaters -> Seq(Block)]
      /\ Len(mem[r]) \in Nat /\ Len(disk[r]) \in Nat /\ Len(disk[r]) > 0 /\ Len(saved) \in Nat
  BY DEF SavedInv, TypeInv, TypeOK, NonEmpty
<1>4. /\ mem'[r] = disk[r] /\ threads'[r] = {}
      /\ \A q \in Repeaters \ {r} : mem'[q] = mem[q] /\ threads'[q] = threads[q]
  BY <1>1, <1>2, <1>3
<1>5. Pre(mem[r])
  BY DEF OneHistoryInv, RepeaterInv
<1>6. Pre(disk[r])
  BY <1>3, <1>5 DEF HeldInv, Pre
<1>7. RepeaterInv(r)'
  BY <1>2, <1>4, <1>6 DEF RepeaterInv, Pre
<1>8. QED
  BY <1>2, <1>4, <1>7, PrefixRepeater

LEMMA OneHistoryStep ==
  ASSUME SavedInv, TypeInv', \A r \in Repeaters : HeldInv(r), OneHistoryInv,
         [Next]_vars, ~torn'
  PROVE  OneHistoryInv'
<1>1. ASSUME saved' = saved, finals' \subseteq finals, UNCHANGED <<mem, threads>>
      PROVE  OneHistoryInv'
  BY <1>1, PrefixUnchanged
<1>2. CASE StartAttempt \/ ReceiveSignature \/ Finalize \/ FailAttempt
  BY <1>1, <1>2 DEF StartAttempt, ReceiveSignature, Finalize, FailAttempt, repVars, netVars
<1>3. ASSUME NEW r \in Repeaters, HandleProposal(r) \/ RepeaterRestart(r) \/ Refuse(r)
      PROVE  OneHistoryInv'
  BY <1>1, <1>3
    DEF HandleProposal, RepeaterRestart, Refuse, Discard, prodVars, repVars, netVars
<1>4. CASE Lose \/ UNCHANGED vars
  BY <1>1, <1>4 DEF Lose, Discard, vars, prodVars, repVars, netVars
<1>5. QED
  BY <1>2, <1>3, <1>4, PrefixFinishFinalize, PrefixProducerCrash, PrefixSendFinalized,
     PrefixHandleFinalized, PrefixAppendBlock, PrefixOpenFile, PrefixSaveBlock,
     PrefixRepeaterCrash
  DEF Next, ProducerStep, RepeaterStep

LEMMA PrefixStep == PrefixInv /\ [Next]_vars => PrefixInv'
<1> SUFFICES ASSUME PrefixInv, [Next]_vars PROVE PrefixInv'
  OBVIOUS
<1>1. SavedInv' /\ TypeInv'
  BY SavedStep DEF PrefixInv, SavedInv
<1>2. \A r \in Repeaters : HeldInv(r)'
  BY HeldStep DEF PrefixInv, SavedInv
<1>3. torn' \/ OneHistoryInv'
  BY <1>1, TornStays, OneHistoryStep DEF PrefixInv
<1>4. QED
  BY <1>1, <1>2, <1>3 DEF PrefixInv

LEMMA PrefixOfSaved ==
  ASSUME NEW s \in Seq(Block), saved \in Seq(Block), Pre(s)
  PROVE  IsPrefix(s, saved)
<1>1. Len(s) \in Nat /\ Len(saved) \in Nat /\ 0 < Len(s) /\ Len(s) <= Len(saved)
  BY DEF Pre
<1>2. SubSeq(s, 1, Len(s)) = s
  OBVIOUS
<1>3. /\ SubSeq(saved, 1, Len(s)) \in Seq(Block)
      /\ Len(SubSeq(saved, 1, Len(s))) = Len(s)
      /\ \A i \in 1 .. Len(s) : SubSeq(saved, 1, Len(s))[i] = saved[i]
  BY <1>1
<1>4. SubSeq(saved, 1, Len(s)) = s
  BY <1>1, <1>3 DEF Pre
<1>5. QED
  BY <1>1, <1>2, <1>4 DEF IsPrefix

LEMMA FileIsPrefix ==
  ASSUME TypeInv, NEW r \in Repeaters, HeldInv(r), Pre(mem[r])
  PROVE  Pre(disk[r])
<1>1. /\ Len(mem[r]) \in Nat /\ Len(disk[r]) \in Nat /\ Len(disk[r]) > 0
      /\ Len(saved) \in Nat
  BY DEF TypeInv, TypeOK, NonEmpty
<1>2. QED
  BY <1>1 DEF HeldInv, Pre

\* Whatever is lost, crashes, races or arrives late, every repeater's chain, in
\* memory and on disk, is a prefix of the chain the producer saved, unless a
\* crash in the producer's own _save has lost that chain.
THEOREM OneHistory == Spec => []ChainsArePrefixes
<1>1. PrefixInv => ChainsArePrefixes
  <2> SUFFICES ASSUME PrefixInv, ~torn, NEW r \in Repeaters
               PROVE  IsPrefix(mem[r], saved) /\ IsPrefix(disk[r], saved)
    BY DEF ChainsArePrefixes
  <2>1. /\ mem[r] \in Seq(Block) /\ disk[r] \in Seq(Block) /\ saved \in Seq(Block)
        /\ TypeInv /\ HeldInv(r) /\ Pre(mem[r])
    BY DEF PrefixInv, OneHistoryInv, RepeaterInv, SavedInv, TypeInv, TypeOK
  <2>2. Pre(disk[r])
    BY <2>1, FileIsPrefix
  <2>3. QED
    BY <2>1, <2>2, PrefixOfSaved
<1>2. QED
  BY PrefixInit, PrefixStep, <1>1, PTL DEF Spec
-----------------------------------------------------------------------------
(***************************************************************************)
(* A majority on every block, through every crash: what a torn save leaves *)
(* is the genesis block alone.                                             *)
(***************************************************************************)
SignedChain(s) ==
  \A i \in 2 .. Len(s) : /\ Cardinality(s[i].sigs) >= Majority
                         /\ \A r \in s[i].sigs : s[i].stamp \in signed[r]

SignedInv ==
  /\ TypeInv
  /\ \A s \in signatures : s.hash \in signed[s.from]
  /\ \A r \in collected : current.stamp \in signed[r]
  /\ SignedChain(chain) /\ SignedChain(saved)

LEMMA SignedInit == Init => SignedInv
BY TypeInit, GenesisBlock DEF Init, SignedInv, SignedChain

\* Steps that count no signature and add no block.
LEMMA SignedUnchanged ==
  ASSUME SignedInv, TypeInv', UNCHANGED <<current, collected, chain, saved>>,
         \A r \in Repeaters : signed[r] \subseteq signed'[r],
         \A s \in signatures' : s.hash \in signed'[s.from]
  PROVE  SignedInv'
<1>1. \A r \in collected' : current'.stamp \in signed'[r]
  <2>1. collected \subseteq Repeaters
    BY DEF SignedInv, TypeInv, TypeOK
  <2>2. QED
    BY <2>1 DEF SignedInv
<1>2. ASSUME NEW s \in Seq(Block), SignedChain(s) PROVE SignedChain(s)'
  <2>1. ASSUME NEW i \in 2 .. Len(s) PROVE s[i].sigs \subseteq Repeaters
    <3>1. s[i] \in Block
      OBVIOUS
    <3>2. QED
      BY <3>1 DEF Block
  <2>2. QED
    BY <1>2, <2>1 DEF SignedChain
<1>3. SignedChain(chain)' /\ SignedChain(saved)'
  <2>1. /\ chain \in Seq(Block) /\ saved \in Seq(Block)
        /\ chain' = chain /\ saved' = saved
    BY DEF SignedInv, TypeInv, TypeOK
  <2>2. QED
    BY <1>2, <2>1 DEF SignedInv, SignedChain
<1>4. QED
  BY <1>1, <1>3 DEF SignedInv

LEMMA SignedStep == SignedInv /\ [Next]_vars => SignedInv'
<1> SUFFICES ASSUME SignedInv, [Next]_vars
             PROVE  SignedInv'
  OBVIOUS
<1>1. TypeInv'
  BY TypeStep DEF SignedInv
<1>2. ASSUME UNCHANGED <<current, collected, chain, saved, signed>>, signatures' \subseteq signatures
      PROVE  SignedInv'
  BY <1>1, <1>2, SignedUnchanged DEF SignedInv
<1>3. CASE StartAttempt
  BY <1>1, <1>3 DEF StartAttempt, repVars, SignedInv, SignedChain
<1>4. CASE ReceiveSignature
  <2>1. PICK s \in signatures :
          /\ signatures' = signatures \ {s}
          /\ collected' = IF current # NoProposal /\ s.hash = current.stamp
                          THEN collected \cup {s.from} ELSE collected
    BY <1>4 DEF ReceiveSignature
  <2>2. UNCHANGED <<current, chain, saved, signed>>
    BY <1>4 DEF ReceiveSignature, repVars
  <2>3. \A r \in collected' : current'.stamp \in signed'[r]
    BY <2>1, <2>2 DEF SignedInv
  <2>4. QED
    BY <1>1, <2>1, <2>2, <2>3 DEF SignedInv, SignedChain
<1>5. CASE Finalize
  <2> DEFINE b == FromProposal(current, collected)
  <2>1. /\ b \in Block /\ b.sigs = collected /\ b.stamp = current.stamp
        /\ Cardinality(collected) >= Majority
    BY <1>5, FromProposalBlock, NoProposalIsProposal
    DEF SignedInv, TypeInv, TypeOK, Finalize, CanFinalize, EnoughSignatures, FromProposal
  <2>2. /\ chain' = Append(chain, b)
        /\ UNCHANGED <<current, collected, saved, signed, signatures>>
    BY <1>5 DEF Finalize, repVars, netVars
  <2> HIDE DEF b
  <2>3. /\ chain \in Seq(Block) /\ Len(chain') = Len(chain) + 1
        /\ chain'[Len(chain) + 1] = b /\ \A i \in 1 .. Len(chain) : chain'[i] = chain[i]
    BY <2>1, <2>2, AppendToChain DEF SignedInv, TypeInv, TypeOK, Last
  <2>4. SignedChain(chain)'
    <3>1. ASSUME NEW i \in 2 .. Len(chain')
          PROVE  /\ Cardinality(chain'[i].sigs) >= Majority
                 /\ \A r \in chain'[i].sigs : chain'[i].stamp \in signed'[r]
      <4>1. CASE i = Len(chain) + 1
        BY <2>1, <2>2, <2>3, <4>1 DEF SignedInv
      <4>2. CASE i \in 2 .. Len(chain)
        BY <2>2, <2>3, <4>2 DEF SignedInv, SignedChain
      <4>3. QED
        BY <2>3, <4>1, <4>2
    <3>2. QED
      BY <3>1 DEF SignedChain
  <2>5. QED
    BY <1>1, <2>2, <2>4 DEF SignedInv, SignedChain
<1>6. CASE FinishFinalize
  BY <1>1, <1>6 DEF FinishFinalize, repVars, netVars, SignedInv, SignedChain
<1>7. CASE FailAttempt
  BY <1>2, <1>7 DEF FailAttempt, repVars, netVars
<1>8. ASSUME NEW r \in Repeaters, SendFinalized(r) PROVE SignedInv'
  BY <1>2, <1>8 DEF SendFinalized, repVars
<1>9. CASE ProducerCrash
  <2>1. saved \in Seq(Block) /\ Len(saved) > 0
    BY DEF SignedInv, TypeInv, TypeOK, NonEmpty
  <2>2. saved' = saved \/ saved' = <<Genesis>>
    BY <1>9, <2>1, AfterCrashBlocks DEF ProducerCrash
  <2>3. /\ chain' = saved' /\ collected' = {} /\ signatures' = {} /\ signed' = signed
    BY <1>9 DEF ProducerCrash, repVars
  <2>4. SignedChain(saved)'
    BY <2>2, <2>3, GenesisBlock DEF SignedInv, SignedChain
  <2>5. QED
    BY <1>1, <2>3, <2>4 DEF SignedInv, SignedChain
<1>10. ASSUME NEW r \in Repeaters, HandleProposal(r) PROVE SignedInv'
  <2>1. PICK m \in proposals :
          \/ /\ signatures' = signatures \cup {[from |-> r, hash |-> m.prop.stamp]}
             /\ signed' = [signed EXCEPT ![r] = @ \cup {m.prop.stamp}]
          \/ UNCHANGED <<signatures, signed>>
    BY <1>10 DEF HandleProposal
  <2>2. UNCHANGED <<current, collected, chain, saved>>
    BY <1>10 DEF HandleProposal, prodVars
  <2>3. /\ \A q \in Repeaters : signed[q] \subseteq signed'[q]
        /\ \A s \in signatures' : s.hash \in signed'[s.from]
    <3>1. CASE UNCHANGED <<signatures, signed>>
      BY <3>1 DEF SignedInv
    <3>2. CASE /\ signatures' = signatures \cup {[from |-> r, hash |-> m.prop.stamp]}
               /\ signed' = [signed EXCEPT ![r] = @ \cup {m.prop.stamp}]
      <4>1. /\ signed'[r] = signed[r] \cup {m.prop.stamp}
            /\ \A q \in Repeaters \ {r} : signed'[q] = signed[q]
            /\ \A s \in signatures : s.from \in Repeaters /\ s.hash \in signed[s.from]
        BY <3>2 DEF SignedInv, TypeInv, TypeOK
      <4>2. ASSUME NEW s \in signatures' PROVE s.hash \in signed'[s.from]
        BY <3>2, <4>1
      <4>3. QED
        BY <4>1, <4>2
    <3>3. QED
      BY <2>1, <3>1, <3>2
  <2>4. QED
    BY <1>1, <2>2, <2>3, SignedUnchanged
<1>11. ASSUME NEW r \in Repeaters, HandleFinalized(r) PROVE SignedInv'
  BY <1>2, <1>11 DEF HandleFinalized, prodVars
<1>12. ASSUME NEW r \in Repeaters,
              AppendBlock(r) \/ OpenFile(r) \/ SaveBlock(r) \/ RepeaterRestart(r) \/ RepeaterCrash(r)
       PROVE  SignedInv'
  BY <1>2, <1>12 DEF AppendBlock, OpenFile, SaveBlock, RepeaterRestart, RepeaterCrash,
     prodVars, netVars
<1>13. CASE Lose \/ \E r \in Repeaters : Refuse(r)
  BY <1>2, <1>13 DEF Lose, Refuse, Discard, prodVars, repVars
<1>14. CASE UNCHANGED vars
  BY <1>2, <1>14 DEF vars, prodVars, repVars, netVars
<1>15. QED
  BY <1>3, <1>4, <1>5, <1>6, <1>7, <1>8, <1>9, <1>10, <1>11, <1>12, <1>13, <1>14
  DEF Next, ProducerStep, RepeaterStep

\* Every block of the producer's chain carries a majority of the repeaters,
\* and each of them signed that very proposal.
THEOREM MajorityOnEveryBlock == Spec => []MajoritySigned
<1>1. SignedInv => MajoritySigned
  BY DEF SignedInv, SignedChain, MajoritySigned
<1>2. QED
  BY SignedInit, SignedStep, <1>1, PTL DEF Spec
-----------------------------------------------------------------------------
(***************************************************************************)
(* A session in one block.  A session that stays queued is in no block yet *)
(* and is no younger than the last attempt; a block takes what was queued. *)
(***************************************************************************)
Once(s) ==
  /\ \A i \in 1 .. Len(s) : \A x \in s[i].sess : x <= stamp
  /\ \A i, j \in 1 .. Len(s) : i # j => s[i].sess \cap s[j].sess = {}

QueuedInv ==
  /\ TypeInv
  /\ Once(chain) /\ Once(saved)
  /\ \A x \in pending : x <= stamp
  /\ current.sess \subseteq pending
  /\ pc # "saving" => \A i \in 1 .. Len(chain) : chain[i].sess \cap pending = {}

LEMMA QueuedInit == Init => QueuedInv
<1> SUFFICES ASSUME Init PROVE QueuedInv
  OBVIOUS
<1>1. Genesis.sess = {} /\ NoProposal.sess = {}
  BY DEF Genesis, NoProposal
<1>2. QED
  BY <1>1, TypeInit, GenesisBlock DEF Init, QueuedInv, Once

LEMMA QueuedStep == QueuedInv /\ [Next]_vars => QueuedInv'
<1> SUFFICES ASSUME QueuedInv, [Next]_vars
             PROVE  QueuedInv'
  OBVIOUS
<1>1. TypeInv'
  BY TypeStep DEF QueuedInv
<1>2. /\ chain \in Seq(Block) /\ saved \in Seq(Block) /\ stamp \in Nat
      /\ pending \subseteq Nat /\ collected \subseteq Repeaters
      /\ Len(chain) \in Nat /\ Len(saved) \in Nat
  BY DEF QueuedInv, TypeInv, TypeOK
<1>3. ASSUME UNCHANGED <<stamp, chain, saved, pending, current>>, pc' = "saving" => pc = "saving",
             pc = "saving" => pc' = "saving"
      PROVE  QueuedInv'
  BY <1>1, <1>3 DEF QueuedInv, Once
<1>4. CASE StartAttempt
  <2>1. /\ pc # "saving" /\ stamp' = stamp + 1 /\ pending' = pending \cup {stamp + 1}
        /\ current'.sess = pending' /\ chain' = chain /\ saved' = saved
    BY <1>4 DEF StartAttempt
  <2>2. ASSUME NEW i \in 1 .. Len(chain), NEW x \in chain[i].sess
        PROVE  x \in Nat /\ x <= stamp
    <3>1. chain[i] \in Block
      BY <1>2
    <3>2. QED
      BY <3>1 DEF QueuedInv, Once, Block
  <2>3. ASSUME NEW i \in 1 .. Len(saved), NEW x \in saved[i].sess
        PROVE  x \in Nat /\ x <= stamp
    <3>1. saved[i] \in Block
      BY <1>2
    <3>2. QED
      BY <3>1 DEF QueuedInv, Once, Block
  <2>4. Once(chain)' /\ Once(saved)'
    BY <1>2, <2>1, <2>2, <2>3 DEF QueuedInv, Once
  <2>5. \A x \in pending' : x <= stamp'
    BY <1>2, <2>1 DEF QueuedInv
  <2>6. \A i \in 1 .. Len(chain) : chain[i].sess \cap pending' = {}
    BY <1>2, <2>1, <2>2 DEF QueuedInv
  <2>7. QED
    BY <1>1, <2>1, <2>4, <2>5, <2>6 DEF QueuedInv
<1>5. CASE Finalize
  <2> DEFINE b == FromProposal(current, collected)
  <2>1. /\ b \in Block /\ b.sess = current.sess
        /\ chain' = Append(chain, b) /\ pc # "saving" /\ pc' = "saving"
        /\ UNCHANGED <<stamp, saved, pending, current>>
    BY <1>2, <1>5, FromProposalBlock, NoProposalIsProposal
    DEF Finalize, FromProposal, QueuedInv, TypeInv, TypeOK
  <2> HIDE DEF b
  <2>2. /\ Len(chain') = Len(chain) + 1 /\ chain'[Len(chain) + 1] = b
        /\ \A i \in 1 .. Len(chain) : chain'[i] = chain[i]
    BY <1>2, <2>1, AppendToChain DEF Last
  <2>3. \A x \in b.sess : x \in pending /\ x <= stamp
    BY <2>1 DEF QueuedInv
  <2>4. \A i \in 1 .. Len(chain) : chain[i].sess \cap b.sess = {}
    BY <2>1, <2>3 DEF QueuedInv
  <2>5. ASSUME NEW i \in 1 .. Len(chain') PROVE \A x \in chain'[i].sess : x <= stamp'
    <3>1. CASE i = Len(chain) + 1
      BY <2>1, <2>2, <2>3, <3>1
    <3>2. CASE i \in 1 .. Len(chain)
      BY <2>1, <2>2, <3>2 DEF QueuedInv, Once
    <3>3. QED
      BY <1>2, <2>2, <3>1, <3>2
  <2>6. ASSUME NEW i \in 1 .. Len(chain'), NEW j \in 1 .. Len(chain'), i # j
        PROVE  chain'[i].sess \cap chain'[j].sess = {}
    <3>1. CASE i \in 1 .. Len(chain) /\ j \in 1 .. Len(chain)
      BY <2>2, <2>6, <3>1 DEF QueuedInv, Once
    <3>2. CASE i = Len(chain) + 1
      <4>1. j \in 1 .. Len(chain)
        BY <1>2, <2>2, <2>6, <3>2
      <4>2. QED
        BY <2>2, <2>4, <3>2, <4>1
    <3>3. CASE j = Len(chain) + 1
      <4>1. i \in 1 .. Len(chain)
        BY <1>2, <2>2, <2>6, <3>3
      <4>2. QED
        BY <2>2, <2>4, <3>3, <4>1
    <3>4. QED
      BY <1>2, <2>2, <3>1, <3>2, <3>3
  <2>7. Once(chain)'
    BY <2>5, <2>6 DEF Once
  <2>8. QED
    BY <1>1, <2>1, <2>7 DEF QueuedInv, Once
<1>6. CASE FinishFinalize
  <2>1. NoProposal.sess = {}
    BY DEF NoProposal
  <2>2. QED
    BY <1>1, <1>6, <2>1 DEF FinishFinalize, QueuedInv, Once
<1>7. CASE ProducerCrash
  <2>1. saved' = saved \/ saved' = <<Genesis>>
    BY <1>2, <1>7, AfterCrashBlocks DEF ProducerCrash, QueuedInv, TypeInv, NonEmpty
  <2>2. /\ chain' = saved' /\ pending' = {} /\ current' = NoProposal /\ stamp' = stamp
    BY <1>7 DEF ProducerCrash
  <2>3. NoProposal.sess = {} /\ Genesis.sess = {}
    BY DEF NoProposal, Genesis
  <2>4. Once(saved)'
    BY <2>1, <2>2, <2>3, GenesisBlock DEF QueuedInv, Once
  <2>5. QED
    BY <1>1, <2>2, <2>3, <2>4 DEF QueuedInv, Once
<1>8. CASE ReceiveSignature \/ FailAttempt
  BY <1>3, <1>8 DEF ReceiveSignature, FailAttempt
<1>9. ASSUME NEW r \in Repeaters, SendFinalized(r) PROVE QueuedInv'
  BY <1>3, <1>9 DEF SendFinalized
<1>10. ASSUME NEW r \in Repeaters, RepeaterStep(r) \/ RepeaterCrash(r)
       PROVE  QueuedInv'
  BY <1>3, <1>10 DEF RepeaterStep, HandleProposal, HandleFinalized, AppendBlock,
     OpenFile, SaveBlock, RepeaterRestart, Refuse, Discard, RepeaterCrash, prodVars
<1>11. CASE Lose \/ UNCHANGED vars
  BY <1>3, <1>11 DEF Lose, Discard, vars, prodVars
<1>12. QED
  BY <1>4, <1>5, <1>6, <1>7, <1>8, <1>9, <1>10, <1>11 DEF Next, ProducerStep

\* However often a session is proposed, and whatever the producer loses in a
\* crash, one block at most of its chain has it.
THEOREM SessionsAreInOneBlock == Spec => []SessionInOneBlock
<1>1. QueuedInv => SessionInOneBlock
  BY DEF QueuedInv, Once, SessionInOneBlock
<1>2. QED
  BY QueuedInit, QueuedStep, <1>1, PTL DEF Spec
-----------------------------------------------------------------------------
(***************************************************************************)
(* One copy of a block on each side of a connection.  What is in hand or   *)
(* on its way was finalised by an earlier attempt than the one that now    *)
(* collects or saves, so a block that is about to be sent is new to all.   *)
(***************************************************************************)
InHand(r) == {t.block : t \in threads[r]}
OnWire(r) == {m.block : m \in {x \in finals : x.to = r}}

OneCopyFor(r) ==
  /\ InHand(r) \cap OnWire(r) = {}
  /\ r \in tosend => Last(chain) \notin InHand(r) \cup OnWire(r)

SentBy(r, last) == \A b \in InHand(r) \cup OnWire(r) : b.stamp <= last

CopyInv ==
  /\ TypeInv
  /\ tosend # {} => pc = "broadcasting"
  /\ pc = "collecting" => current.stamp = stamp
  /\ pc \in {"saving", "broadcasting"} => Last(chain).stamp = stamp
  /\ \A r \in Repeaters :
       /\ OneCopyFor(r)
       /\ SentBy(r, IF pc \in {"collecting", "saving"} THEN stamp - 1 ELSE stamp)

LEMMA CopyInit == Init => CopyInv
BY TypeInit DEF Init, CopyInv, OneCopyFor, SentBy, InHand, OnWire

\* Steps after which no more is in hand or on its way to a repeater.
LEMMA CopyQuiet ==
  ASSUME CopyInv, TypeInv', UNCHANGED <<stamp, pc, current, chain>>, tosend' \subseteq tosend,
         \A r \in Repeaters : /\ InHand(r)' \cup OnWire(r)' \subseteq InHand(r) \cup OnWire(r)
                              /\ InHand(r)' \cap OnWire(r)' = {}
  PROVE  CopyInv'
<1>1. \A r \in Repeaters : OneCopyFor(r)'
  BY DEF CopyInv, OneCopyFor
<1>2. \A r \in Repeaters : SentBy(r, IF pc \in {"collecting", "saving"} THEN stamp - 1 ELSE stamp)'
  BY DEF CopyInv, SentBy
<1>3. QED
  BY <1>1, <1>2 DEF CopyInv

\* The producer's steps that send nothing.
LEMMA CopyProducer ==
  ASSUME CopyInv, TypeInv', UNCHANGED <<threads, finals>>,
         stamp' \in Nat, stamp <= stamp',
         tosend' # {} => pc' = "broadcasting",
         pc' = "collecting" => current'.stamp = stamp',
         pc' \in {"saving", "broadcasting"} => Last(chain').stamp = stamp',
         pc' \in {"collecting", "saving"} =>
           stamp < stamp' \/ pc \in {"collecting", "saving"},
         \A r \in tosend' : \/ r \in tosend /\ chain' = chain
                            \/ stamp' = stamp /\ pc = "saving"
  PROVE  CopyInv'
<1>1. /\ stamp \in Nat /\ tosend' \subseteq Repeaters
      /\ \A r \in Repeaters : InHand(r)' = InHand(r) /\ OnWire(r)' = OnWire(r)
  BY DEF CopyInv, TypeInv, TypeOK, InHand, OnWire
<1>2. ASSUME NEW r \in Repeaters, NEW b \in InHand(r) \cup OnWire(r)
      PROVE  b.stamp \in Nat
  <2>1. b \in Block
    BY DEF CopyInv, TypeInv, TypeOK, InHand, OnWire, Handler
  <2>2. QED
    BY <2>1 DEF Block
<1>3. ASSUME NEW r \in Repeaters
      PROVE  SentBy(r, IF pc \in {"collecting", "saving"} THEN stamp - 1 ELSE stamp)'
  <2>1. ASSUME NEW b \in InHand(r) \cup OnWire(r)
        PROVE  b.stamp <= IF pc' \in {"collecting", "saving"} THEN stamp' - 1 ELSE stamp'
    <3>1. b.stamp <= IF pc \in {"collecting", "saving"} THEN stamp - 1 ELSE stamp
      BY DEF CopyInv, SentBy
    <3>2. QED
      BY <1>1, <1>2, <3>1
  <2>2. QED
    BY <1>1, <2>1 DEF SentBy
<1>4. ASSUME NEW r \in Repeaters PROVE OneCopyFor(r)'
  <2>1. InHand(r)' \cap OnWire(r)' = {}
    BY <1>1 DEF CopyInv, OneCopyFor
  <2>2. ASSUME r \in tosend' PROVE Last(chain') \notin InHand(r) \cup OnWire(r)
    <3>1. CASE r \in tosend /\ chain' = chain
      BY <3>1 DEF CopyInv, OneCopyFor
    <3>2. CASE stamp' = stamp /\ pc = "saving"
      <4>1. Last(chain').stamp = stamp
        BY <2>2, <3>2
      <4>2. \A b \in InHand(r) \cup OnWire(r) : b.stamp <= stamp - 1
        BY <3>2 DEF CopyInv, SentBy
      <4>3. QED
        BY <1>1, <1>2, <4>1, <4>2
    <3>3. QED
      BY <2>2, <3>1, <3>2
  <2>3. QED
    BY <1>1, <2>1, <2>2 DEF OneCopyFor
<1>5. QED
  BY <1>3, <1>4 DEF CopyInv

LEMMA CopySendFinalized ==
  ASSUME CopyInv, TypeInv', NEW r \in Repeaters, SendFinalized(r)
  PROVE  CopyInv'
<1> DEFINE m == [to |-> r, block |-> Last(chain)]
<1>1. /\ r \in tosend /\ tosend' = tosend \ {r} /\ finals' = finals \cup {m}
      /\ pc = "broadcasting" /\ UNCHANGED <<stamp, current, chain, threads>>
      /\ pc' = "broadcasting" \/ (pc' = "idle" /\ tosend' = {})
  BY DEF SendFinalized, repVars
<1>2. m.to = r /\ m.block = Last(chain)
  OBVIOUS
<1> HIDE DEF m
<1>3. /\ \A q \in Repeaters : InHand(q)' = InHand(q)
      /\ \A q \in Repeaters \ {r} : OnWire(q)' = OnWire(q)
      /\ OnWire(r)' = OnWire(r) \cup {Last(chain)}
  BY <1>1, <1>2 DEF InHand, OnWire
<1>4. Last(chain).stamp = stamp /\ Last(chain) \notin InHand(r)
  BY <1>1 DEF CopyInv, OneCopyFor
<1>5. stamp \in Nat
  BY DEF CopyInv, TypeInv, TypeOK
<1>6. ASSUME NEW q \in Repeaters PROVE OneCopyFor(q)'
  BY <1>1, <1>3, <1>4 DEF CopyInv, OneCopyFor
<1>7. ASSUME NEW q \in Repeaters
      PROVE  SentBy(q, IF pc \in {"collecting", "saving"} THEN stamp - 1 ELSE stamp)'
  BY <1>1, <1>3, <1>4, <1>5 DEF CopyInv, SentBy
<1>8. QED
  BY <1>1, <1>6, <1>7 DEF CopyInv

LEMMA CopyHandleFinalized ==
  ASSUME CopyInv, TypeInv', NEW r \in Repeaters, HandleFinalized(r)
  PROVE  CopyInv'
<1>1. PICK m \in finals :
        /\ m.to = r /\ finals' = finals \ {m}
        /\ \/ threads' = [threads EXCEPT ![r] = @ \cup
                {[block |-> m.block, at |-> "checked", copied |-> 0]}]
           \/ UNCHANGED threads
  BY DEF HandleFinalized
<1>2. UNCHANGED <<stamp, pc, current, chain, tosend>>
  BY DEF HandleFinalized, prodVars
<1>3. /\ threads \in [Repeaters -> SUBSET Handler]
      /\ finals \subseteq [to: Repeaters, block: Block]
  BY DEF CopyInv, TypeInv, TypeOK
<1> DEFINE t == [block |-> m.block, at |-> "checked", copied |-> 0]
<1>4. t.block = m.block
  OBVIOUS
<1> HIDE DEF t
<1>5. /\ \A q \in Repeaters \ {r} : threads'[q] = threads[q]
      /\ threads'[r] = threads[r] \/ threads'[r] = threads[r] \cup {t}
  BY <1>1, <1>3 DEF t
<1>6. m.block \notin OnWire(r)' /\ m.block \in OnWire(r)
  <2>1. ASSUME NEW w \in finals', w.to = r PROVE w.block # m.block
    BY <1>1, <1>3, <2>1
  <2>2. QED
    BY <1>1, <2>1 DEF OnWire
<1>7. \A q \in Repeaters : OnWire(q)' \subseteq OnWire(q)
  BY <1>1 DEF OnWire
<1>8. /\ \A q \in Repeaters \ {r} : InHand(q)' = InHand(q)
      /\ InHand(r)' \subseteq InHand(r) \cup {m.block}
  BY <1>4, <1>5 DEF InHand
<1>9. \A q \in Repeaters : /\ InHand(q)' \cup OnWire(q)' \subseteq InHand(q) \cup OnWire(q)
                           /\ InHand(q)' \cap OnWire(q)' = {}
  BY <1>6, <1>7, <1>8 DEF CopyInv, OneCopyFor
<1>10. QED
  BY <1>2, <1>9, CopyQuiet

LEMMA CopyStep == CopyInv /\ [Next]_vars => CopyInv'
<1> SUFFICES ASSUME CopyInv, [Next]_vars
             PROVE  CopyInv'
  OBVIOUS
<1>1. TypeInv'
  BY TypeStep DEF CopyInv
<1>2. /\ threads \in [Repeaters -> SUBSET Handler] /\ stamp \in Nat
      /\ tosend \subseteq Repeaters /\ stamp <= stamp
  BY DEF CopyInv, TypeInv, TypeOK
<1>3. ASSUME UNCHANGED <<stamp, pc, current, chain, tosend>>, finals' \subseteq finals,
             \A r \in Repeaters : InHand(r)' \subseteq InHand(r)
      PROVE  CopyInv'
  <2>1. \A r \in Repeaters : OnWire(r)' \subseteq OnWire(r)
    BY <1>3 DEF OnWire
  <2>2. \A r \in Repeaters : /\ InHand(r)' \cup OnWire(r)' \subseteq InHand(r) \cup OnWire(r)
                             /\ InHand(r)' \cap OnWire(r)' = {}
    BY <1>3, <2>1 DEF CopyInv, OneCopyFor
  <2>3. QED
    BY <1>1, <1>3, <2>2, CopyQuiet
<1>4. CASE StartAttempt
  <2>1. /\ UNCHANGED <<threads, finals, tosend, chain>> /\ pc = "idle"
        /\ stamp' = stamp + 1 /\ pc' = "collecting" /\ current'.stamp = stamp'
    BY <1>4 DEF StartAttempt, repVars
  <2>2. tosend = {}
    BY <2>1 DEF CopyInv
  <2>3. QED
    BY <1>1, <1>2, <2>1, <2>2, CopyProducer
<1>5. CASE ReceiveSignature
  BY <1>3, <1>5 DEF ReceiveSignature, repVars, InHand
<1>6. CASE Finalize
  <2>1. /\ UNCHANGED <<threads, finals, tosend, stamp>> /\ pc = "collecting"
        /\ pc' = "saving" /\ chain' = Append(chain, FromProposal(current, collected))
    BY <1>6 DEF Finalize, repVars, netVars
  <2>2. chain \in Seq(Block) /\ FromProposal(current, collected) \in Block
    BY FromProposalBlock, NoProposalIsProposal DEF CopyInv, TypeInv, TypeOK
  <2>3. Last(chain') = FromProposal(current, collected)
    BY <2>1, <2>2, AppendToChain
  <2>4. Last(chain').stamp = stamp
    BY <2>1, <2>3 DEF CopyInv, FromProposal
  <2>5. tosend = {}
    BY <2>1 DEF CopyInv
  <2>6. QED
    BY <1>1, <1>2, <2>1, <2>4, <2>5, CopyProducer
<1>7. CASE FinishFinalize
  <2>1. /\ UNCHANGED <<threads, finals, stamp, chain>> /\ pc = "saving"
        /\ pc' = "broadcasting" /\ tosend' = Repeaters
    BY <1>7 DEF FinishFinalize, repVars, netVars
  <2>2. Last(chain).stamp = stamp
    BY <2>1 DEF CopyInv
  <2>3. QED
    BY <1>1, <1>2, <2>1, <2>2, CopyProducer
<1>8. CASE FailAttempt
  <2>1. /\ UNCHANGED <<threads, finals, stamp, chain, tosend>>
        /\ pc' = "idle" /\ tosend = {}
    BY <1>8 DEF FailAttempt, repVars, netVars, CopyInv
  <2>2. QED
    BY <1>1, <1>2, <2>1, CopyProducer
<1>9. CASE ProducerCrash
  <2>1. UNCHANGED <<threads, finals, stamp>> /\ pc' = "idle" /\ tosend' = {}
    BY <1>9 DEF ProducerCrash, repVars
  <2>2. QED
    BY <1>1, <1>2, <2>1, CopyProducer
<1>10. ASSUME NEW r \in Repeaters, AppendBlock(r) PROVE CopyInv'
  <2>1. PICK t \in threads[r] :
          threads' = [threads EXCEPT ![r] = (@ \ {t}) \cup
            {[block |-> t.block, at |-> "appended", copied |-> Len(mem'[r])]}]
    BY <1>10 DEF AppendBlock
  <2> DEFINE u == [block |-> t.block, at |-> "appended", copied |-> Len(mem'[r])]
  <2>2. u.block = t.block
    OBVIOUS
  <2> HIDE DEF u
  <2>3. /\ threads'[r] = (threads[r] \ {t}) \cup {u}
        /\ \A q \in Repeaters \ {r} : threads'[q] = threads[q]
    BY <1>2, <2>1 DEF u
  <2>4. \A q \in Repeaters : InHand(q)' \subseteq InHand(q)
    BY <2>2, <2>3 DEF InHand
  <2>5. QED
    BY <1>3, <1>10, <2>4 DEF AppendBlock, prodVars, netVars
<1>15. ASSUME NEW r \in Repeaters, OpenFile(r) PROVE CopyInv'
  <2>1. PICK t \in threads[r] :
          threads' = [threads EXCEPT ![r] = (@ \ {t}) \cup {[t EXCEPT !.at = "writing"]}]
    BY <1>15 DEF OpenFile
  <2> DEFINE u == [t EXCEPT !.at = "writing"]
  <2>2. u.block = t.block
    <3>1. t \in Handler
      BY <1>2
    <3>2. QED
      BY <3>1 DEF Handler
  <2> HIDE DEF u
  <2>3. /\ threads'[r] = (threads[r] \ {t}) \cup {u}
        /\ \A q \in Repeaters \ {r} : threads'[q] = threads[q]
    BY <1>2, <2>1 DEF u
  <2>4. \A q \in Repeaters : InHand(q)' \subseteq InHand(q)
    BY <2>2, <2>3 DEF InHand
  <2>5. QED
    BY <1>3, <1>15, <2>4 DEF OpenFile, prodVars, netVars
<1>11. ASSUME NEW r \in Repeaters, SaveBlock(r) \/ RepeaterCrash(r) PROVE CopyInv'
  <2>1. /\ \A q \in Repeaters : threads'[q] \subseteq threads[q]
        /\ UNCHANGED <<prodVars, netVars>>
    BY <1>2, <1>11 DEF SaveBlock, RepeaterCrash
  <2>2. \A q \in Repeaters : InHand(q)' \subseteq InHand(q)
    BY <2>1 DEF InHand
  <2>3. QED
    BY <1>3, <2>1, <2>2 DEF prodVars, netVars
<1>12. ASSUME NEW r \in Repeaters, HandleProposal(r) \/ RepeaterRestart(r) \/ Refuse(r)
       PROVE  CopyInv'
  BY <1>3, <1>12 DEF HandleProposal, RepeaterRestart, Refuse, Discard, prodVars,
     repVars, netVars, InHand
<1>13. CASE Lose
  BY <1>3, <1>13 DEF Lose, Discard, prodVars, repVars, InHand
<1>14. CASE UNCHANGED vars
  BY <1>3, <1>14 DEF vars, prodVars, repVars, netVars, InHand
<1>16. QED
  BY <1>1, <1>4, <1>5, <1>6, <1>7, <1>8, <1>9, <1>10, <1>11, <1>12, <1>13, <1>14, <1>15,
     CopySendFinalized, CopyHandleFinalized DEF Next, ProducerStep, RepeaterStep

\* Two handler threads of a repeater never work on the same block, although
\* add_block has no lock, and whatever the producer loses in a crash.
THEOREM BlocksAreHandledOnce == Spec => []OneCopy
<1>1. CopyInv => OneCopy
  BY DEF CopyInv, OneCopyFor, InHand, OnWire, OneCopy
<1>2. QED
  BY CopyInit, CopyStep, <1>1, PTL DEF Spec
-----------------------------------------------------------------------------
(***************************************************************************)
(* The refinement.  What is on its way to a repeater or in one of its      *)
(* handlers has a majority's signatures; as long as no crash has torn the  *)
(* producer's file, it is a block of the log as well.                      *)
(***************************************************************************)
Backed(b) == Cardinality(b.sigs) >= Majority

BackedInv ==
  /\ \A m \in finals : Backed(m.block)
  /\ \A r \in Repeaters : \A t \in threads[r] : Backed(t.block)
  /\ pc = "broadcasting" => Backed(Last(chain))

LedgerInv == PrefixInv /\ BackedInv

LEMMA LedgerInit == Init => LedgerInv
BY PrefixInit DEF Init, LedgerInv, BackedInv

LEMMA BackedStep == PrefixInv /\ BackedInv /\ [Next]_vars => BackedInv'
<1> SUFFICES ASSUME PrefixInv, BackedInv, [Next]_vars
             PROVE  BackedInv'
  OBVIOUS
<1>1. threads \in [Repeaters -> SUBSET Handler]
  BY DEF PrefixInv, SavedInv, TypeInv, TypeOK
<1>2. ASSUME finals' \subseteq finals, threads' = threads,
             pc' = "broadcasting" => pc = "broadcasting" /\ chain' = chain
      PROVE  BackedInv'
  BY <1>2 DEF BackedInv, Backed, Last
<1>3. ASSUME NEW r \in Repeaters, finals' \subseteq finals, UNCHANGED <<pc, chain>>,
             \A q \in Repeaters \ {r} : threads'[q] = threads[q],
             \A t \in threads'[r] : Backed(t.block)
      PROVE  BackedInv'
  BY <1>3 DEF BackedInv, Backed, Last
<1>4. CASE StartAttempt \/ ReceiveSignature \/ Finalize \/ FailAttempt \/ ProducerCrash
  BY <1>2, <1>4 DEF StartAttempt, ReceiveSignature, Finalize, FailAttempt, ProducerCrash,
     repVars, netVars
<1>5. CASE FinishFinalize
  <2>1. pc = "saving" /\ UNCHANGED <<chain, threads, finals>>
    BY <1>5 DEF FinishFinalize, repVars, netVars
  <2>2. Backed(Last(chain))
    BY <2>1 DEF PrefixInv, SavedInv, ProducerInv, AddBlockOK, Backed
  <2>3. QED
    BY <2>1, <2>2 DEF BackedInv, Backed, Last
<1>6. ASSUME NEW r \in Repeaters, SendFinalized(r) PROVE BackedInv'
  <2>1. /\ pc = "broadcasting" /\ finals' = finals \cup {[to |-> r, block |-> Last(chain)]}
        /\ UNCHANGED <<chain, threads>>
    BY <1>6 DEF SendFinalized, repVars
  <2>2. Backed(Last(chain))
    BY <2>1 DEF BackedInv
  <2>3. QED
    BY <2>1, <2>2 DEF BackedInv, Backed, Last
<1>7. ASSUME NEW r \in Repeaters, HandleFinalized(r) PROVE BackedInv'
  <2>1. PICK m \in finals :
          /\ finals' = finals \ {m}
          /\ \/ threads' = [threads EXCEPT ![r] = @ \cup
                  {[block |-> m.block, at |-> "checked", copied |-> 0]}]
             \/ UNCHANGED threads
    BY <1>7 DEF HandleFinalized
  <2>2. UNCHANGED <<pc, chain>>
    BY <1>7 DEF HandleFinalized, prodVars
  <2> DEFINE u == [block |-> m.block, at |-> "checked", copied |-> 0]
  <2>3. u.block = m.block
    OBVIOUS
  <2> HIDE DEF u
  <2>4. /\ threads'[r] \subseteq threads[r] \cup {u}
        /\ \A q \in Repeaters \ {r} : threads'[q] = threads[q]
    BY <1>1, <2>1 DEF u
  <2>5. \A t \in threads'[r] : Backed(t.block)
    BY <2>3, <2>4 DEF BackedInv
  <2>6. QED
    BY <1>3, <2>1, <2>2, <2>4, <2>5
<1>8. ASSUME NEW r \in Repeaters, AppendBlock(r) PROVE BackedInv'
  <2>1. PICK t \in threads[r] :
          threads' = [threads EXCEPT ![r] = (@ \ {t}) \cup
            {[block |-> t.block, at |-> "appended", copied |-> Len(mem'[r])]}]
    BY <1>8 DEF AppendBlock
  <2>2. UNCHANGED <<pc, chain, finals>>
    BY <1>8 DEF AppendBlock, prodVars, netVars
  <2> DEFINE u == [block |-> t.block, at |-> "appended", copied |-> Len(mem'[r])]
  <2>3. u.block = t.block
    OBVIOUS
  <2> HIDE DEF u
  <2>4. /\ threads'[r] \subseteq threads[r] \cup {u}
        /\ \A q \in Repeaters \ {r} : threads'[q] = threads[q]
    BY <1>1, <2>1 DEF u
  <2>5. \A v \in threads'[r] : Backed(v.block)
    BY <2>3, <2>4 DEF BackedInv
  <2>6. QED
    BY <1>3, <2>2, <2>4, <2>5
<1>9. ASSUME NEW r \in Repeaters, OpenFile(r) PROVE BackedInv'
  <2>1. PICK t \in threads[r] :
          threads' = [threads EXCEPT ![r] = (@ \ {t}) \cup {[t EXCEPT !.at = "writing"]}]
    BY <1>9 DEF OpenFile
  <2>2. UNCHANGED <<pc, chain, finals>>
    BY <1>9 DEF OpenFile, prodVars, netVars
  <2> DEFINE u == [t EXCEPT !.at = "writing"]
  <2>3. u.block = t.block
    <3>1. t \in Handler
      BY <1>1
    <3>2. QED
      BY <3>1 DEF Handler
  <2> HIDE DEF u
  <2>4. /\ threads'[r] \subseteq threads[r] \cup {u}
        /\ \A q \in Repeaters \ {r} : threads'[q] = threads[q]
    BY <1>1, <2>1 DEF u
  <2>5. \A v \in threads'[r] : Backed(v.block)
    BY <2>3, <2>4 DEF BackedInv
  <2>6. QED
    BY <1>3, <2>2, <2>4, <2>5
<1>10. ASSUME NEW r \in Repeaters, SaveBlock(r) \/ RepeaterCrash(r) PROVE BackedInv'
  <2>1. /\ threads'[r] \subseteq threads[r]
        /\ \A q \in Repeaters \ {r} : threads'[q] = threads[q]
        /\ UNCHANGED <<pc, chain, finals>>
    BY <1>1, <1>10 DEF SaveBlock, RepeaterCrash, prodVars, netVars
  <2>2. \A v \in threads'[r] : Backed(v.block)
    BY <2>1 DEF BackedInv
  <2>3. QED
    BY <1>3, <2>1, <2>2
<1>11. ASSUME NEW r \in Repeaters, HandleProposal(r) \/ RepeaterRestart(r) \/ Refuse(r)
       PROVE  BackedInv'
  BY <1>2, <1>11 DEF HandleProposal, RepeaterRestart, Refuse, Discard, prodVars,
     repVars, netVars
<1>12. CASE Lose \/ UNCHANGED vars
  BY <1>2, <1>12 DEF Lose, Discard, vars, prodVars, repVars, netVars
<1>13. QED
  BY <1>4, <1>5, <1>6, <1>7, <1>8, <1>9, <1>10, <1>11, <1>12
  DEF Next, ProducerStep, RepeaterStep

LEMMA LedgerStep == LedgerInv /\ [Next]_vars => LedgerInv'
BY PrefixStep, BackedStep DEF LedgerInv

LEMMA SameCardinality ==
  ASSUME NEW S PROVE Abstract!Cardinality(S) = Cardinality(S)
BY DEF Abstract!Cardinality, Cardinality

LEMMA AbstractInit == Init => Abstract!Init
BY DEF Init, Abstract!Init, Genesis, Abstract!Genesis, ZeroHash, Abstract!ZeroHash

\* The end of a save extends the log.
LEMMA FinishExtends ==
  ASSUME LedgerInv, FinishFinalize
  PROVE  Abstract!Extend
<1>1. /\ saved \in Seq(Block) /\ saved' = chain /\ chain \in Seq(Block)
      /\ Len(chain) = Len(saved) + 1 /\ \A i \in 1 .. Len(saved) : chain[i] = saved[i]
      /\ mem' = mem /\ torn' = torn /\ AddBlockOK(saved, Last(chain), Majority)
  BY DEF LedgerInv, PrefixInv, SavedInv, ProducerInv, TypeInv, TypeOK,
     FinishFinalize, repVars
<1>2. IsPrefix(saved, chain)
  <2>1. Len(saved) \in Nat
    BY <1>1
  <2>2. /\ SubSeq(saved, 1, Len(saved)) \in Seq(Block)
        /\ Len(SubSeq(saved, 1, Len(saved))) = Len(saved)
        /\ SubSeq(chain, 1, Len(saved)) \in Seq(Block)
        /\ Len(SubSeq(chain, 1, Len(saved))) = Len(saved)
        /\ \A i \in 1 .. Len(saved) : /\ SubSeq(saved, 1, Len(saved))[i] = saved[i]
                                      /\ SubSeq(chain, 1, Len(saved))[i] = chain[i]
    BY <1>1, <2>1
  <2>3. SubSeq(saved, 1, Len(saved)) = SubSeq(chain, 1, Len(saved))
    BY <1>1, <2>1, <2>2
  <2>4. QED
    BY <1>1, <2>1, <2>3 DEF IsPrefix
<1>3. QED
  BY <1>1, <1>2, SameCardinality DEF Abstract!Extend, Abstract!AddBlockOK, Abstract!Extends, Abstract!Last,
     Abstract!Hash, Abstract!Majority, Abstract!IsPrefix,
     IsPrefix, AddBlockOK, Extends, Last, Hash, Majority

\* An append in a repeater's memory is the next block of the log, or a block
\* with a majority's signatures at least, when the log has started over.
LEMMA AppendLearns ==
  ASSUME LedgerInv, LedgerInv', NEW r \in Repeaters, AppendBlock(r)
  PROVE  Abstract!Learn(r)
<1>1. PICK t \in threads[r] : mem' = [mem EXCEPT ![r] = Append(@, t.block)]
  BY DEF AppendBlock
<1>2. /\ saved' = saved /\ torn' = torn /\ saved \in Seq(Block) /\ t.block \in Block
      /\ mem \in [Repeaters -> Seq(Block)] /\ mem'[r] \in Seq(Block)
  BY DEF LedgerInv, PrefixInv, SavedInv, TypeInv, TypeOK, Handler, AppendBlock, prodVars
<1>3. mem'[r] = Append(mem[r], t.block) /\ Last(mem'[r]) = t.block
  BY <1>1, <1>2, AppendToChain
<1>4. mem' = [mem EXCEPT ![r] = Append(@, Last(mem'[r]))]
  BY <1>1, <1>3
<1>5. Cardinality(Last(mem'[r]).sigs) >= Majority
  BY <1>3 DEF LedgerInv, BackedInv, Backed
<1>6. ~torn => IsPrefix(mem'[r], saved)
  <2>1. ASSUME ~torn PROVE Pre(mem'[r])
    BY <1>2, <2>1 DEF LedgerInv, PrefixInv, OneHistoryInv, RepeaterInv, Pre
  <2>2. QED
    BY <1>2, <2>1, PrefixOfSaved
<1>7. QED
  BY <1>2, <1>4, <1>5, <1>6, SameCardinality DEF Abstract!Learn, Abstract!Last, Last,
     Abstract!Majority, Majority, Abstract!IsPrefix, IsPrefix

\* A crash falls back to the file, which holds a beginning of the memory.
LEMMA CrashFallsBack ==
  ASSUME LedgerInv, NEW r \in Repeaters, RepeaterCrash(r)
  PROVE  Abstract!FallBack(r)
<1>1. mem' = [mem EXCEPT ![r] = disk[r]] /\ UNCHANGED <<saved, torn>>
  BY DEF RepeaterCrash, prodVars
<1>2. /\ disk[r] \in Seq(Block) /\ mem[r] \in Seq(Block) /\ HeldInv(r)
      /\ Len(mem[r]) \in Nat /\ Len(disk[r]) \in Nat /\ Len(disk[r]) > 0
  BY DEF LedgerInv, PrefixInv, SavedInv, TypeInv, TypeOK, NonEmpty
<1>3. PICK n : n = Len(disk[r])
  OBVIOUS
<1>4. n \in 1 .. Len(mem[r])
  BY <1>2, <1>3 DEF HeldInv
<1>5. disk[r] = SubSeq(mem[r], 1, n)
  <2>1. /\ SubSeq(mem[r], 1, n) \in Seq(Block) /\ Len(SubSeq(mem[r], 1, n)) = n
        /\ \A i \in 1 .. n : SubSeq(mem[r], 1, n)[i] = mem[r][i]
    BY <1>2, <1>4, Beginning
  <2>2. \A i \in 1 .. n : disk[r][i] = mem[r][i]
    BY <1>2, <1>3 DEF HeldInv
  <2>3. QED
    BY <1>2, <1>3, <2>1, <2>2
<1>6. QED
  BY <1>1, <1>4, <1>5 DEF Abstract!FallBack

\* A crash of the producer loses nothing, or the log starts over.
LEMMA CrashStartsOver ==
  ASSUME LedgerInv, ProducerCrash
  PROVE  Abstract!StartOver \/ UNCHANGED <<saved, mem, torn>>
<1>1. /\ saved \in Seq(Block) /\ Len(saved) > 0 /\ torn \in BOOLEAN
  BY DEF LedgerInv, PrefixInv, SavedInv, TypeInv, TypeOK, NonEmpty
<1>2. /\ saved' = saved \/ saved' = <<Genesis>>
      /\ mem' = mem
  BY <1>1, AfterCrashBlocks DEF ProducerCrash, repVars
<1>3. CASE saved' = saved
  <2>1. torn' = (torn \/ FALSE)
    BY <1>3 DEF ProducerCrash
  <2>2. torn' = torn
    BY <1>1, <2>1
  <2>3. QED
    BY <1>2, <1>3, <2>2
<1>4. CASE saved' # saved
  <2>1. torn' = TRUE
    BY <1>4 DEF ProducerCrash
  <2>2. QED
    BY <1>2, <1>4, <2>1 DEF Abstract!StartOver, Genesis, Abstract!Genesis, ZeroHash,
       Abstract!ZeroHash
<1>5. QED
  BY <1>3, <1>4

LEMMA AbstractStep ==
  ASSUME LedgerInv, LedgerInv', [Next]_vars
  PROVE  [Abstract!Next]_(Abstract!vars)
<1>1. ASSUME UNCHANGED <<saved, mem, torn>>
      PROVE  [Abstract!Next]_(Abstract!vars)
  BY <1>1 DEF Abstract!vars
<1>2. CASE FinishFinalize
  BY <1>2, FinishExtends DEF Abstract!Next
<1>3. ASSUME NEW r \in Repeaters, AppendBlock(r) PROVE Abstract!Next
  BY <1>3, AppendLearns DEF Abstract!Next
<1>4. ASSUME NEW r \in Repeaters, RepeaterCrash(r) PROVE Abstract!Next
  BY <1>4, CrashFallsBack DEF Abstract!Next
<1>5. CASE ProducerCrash
  BY <1>1, <1>5, CrashStartsOver DEF Abstract!Next
<1>6. CASE \/ StartAttempt \/ ReceiveSignature \/ Finalize \/ FailAttempt
           \/ \E r \in Repeaters : SendFinalized(r)
  BY <1>1, <1>6 DEF StartAttempt, ReceiveSignature, Finalize, FailAttempt,
     SendFinalized, repVars
<1>7. ASSUME NEW r \in Repeaters,
             \/ HandleProposal(r) \/ HandleFinalized(r) \/ OpenFile(r) \/ SaveBlock(r)
             \/ RepeaterRestart(r) \/ Refuse(r)
      PROVE  [Abstract!Next]_(Abstract!vars)
  BY <1>1, <1>7 DEF HandleProposal, HandleFinalized, OpenFile, SaveBlock, RepeaterRestart,
     Refuse, Discard, prodVars, repVars
<1>8. CASE Lose \/ UNCHANGED vars
  BY <1>1, <1>8 DEF Lose, Discard, vars, prodVars, repVars
<1>9. QED
  BY <1>2, <1>3, <1>4, <1>5, <1>6, <1>7, <1>8 DEF Next, ProducerStep, RepeaterStep

\* The distributed protocol, with every crash the code can meet, implements the
\* ledger: a log extended by majority-signed blocks only, append-only until a
\* crash tears the producer's file, and repeaters that read prefixes of it.
THEOREM ConsensusImplementsLedger == Spec => ImplementsLedger
<1>1. Init => Abstract!Init
  BY AbstractInit
<1>2. LedgerInv /\ LedgerInv' /\ [Next]_vars => [Abstract!Next]_(Abstract!vars)
  BY AbstractStep
<1>3. QED
  BY LedgerInit, LedgerStep, <1>1, <1>2, PTL DEF Spec, ImplementsLedger, Abstract!Spec
-----------------------------------------------------------------------------
(***************************************************************************)
(* No catching up.  As long as no crash has torn the producer's file, a    *)
(* block that a repeater has is not on its way to it any more, so that a   *)
(* repeater that falls back to its file in a crash waits for nothing that  *)
(* it had before.                                                          *)
(***************************************************************************)
AheadOf(r) ==
  /\ \A m \in finals : m.to = r => Len(mem[r]) <= m.block.num
  /\ r \in tosend => Len(mem[r]) <= Last(chain).num

AheadInv == PrefixInv /\ CopyInv /\ (torn \/ \A r \in Repeaters : AheadOf(r))

LEMMA AheadInit == Init => AheadInv
BY PrefixInit, CopyInit DEF Init, AheadInv, AheadOf

LEMMA AheadStep == AheadInv /\ [Next]_vars => AheadInv'
<1> SUFFICES ASSUME AheadInv, [Next]_vars, ~torn', ~torn, NEW r \in Repeaters
             PROVE  AheadOf(r)'
  BY PrefixStep, CopyStep, TornStays DEF AheadInv
<1>1. /\ AheadOf(r) /\ SavedInv /\ ProducerInv /\ RepeaterInv(r) /\ HeldInv(r)
      /\ FinalsInv
  BY DEF AheadInv, PrefixInv, SavedInv, OneHistoryInv
<1>2. /\ mem \in [Repeaters -> Seq(Block)] /\ disk \in [Repeaters -> Seq(Block)]
      /\ Len(mem[r]) \in Nat /\ Len(disk[r]) \in Nat /\ Len(saved) \in Nat
      /\ chain \in Seq(Block) /\ Len(chain) > 0
  BY <1>1 DEF SavedInv, TypeInv, TypeOK, NonEmpty
<1>3. ASSUME finals' \subseteq finals, mem'[r] = mem[r],
             r \in tosend' => r \in tosend /\ chain' = chain
      PROVE  AheadOf(r)'
  BY <1>1, <1>3 DEF AheadOf
<1>4. CASE Finalize
  <2>1. pc = "collecting" /\ UNCHANGED <<tosend, finals, mem>>
    BY <1>4 DEF Finalize, repVars, netVars
  <2>2. tosend = {}
    BY <2>1 DEF AheadInv, CopyInv
  <2>3. QED
    BY <1>3, <2>1, <2>2
<1>5. CASE FinishFinalize
  <2>1. pc = "saving" /\ UNCHANGED <<finals, mem, chain>>
    BY <1>5 DEF FinishFinalize, repVars, netVars
  <2>2. Last(chain).num = Len(saved) /\ Len(mem[r]) <= Len(saved)
    BY <1>1, <2>1 DEF ProducerInv, RepeaterInv, Pre
  <2>3. QED
    BY <1>1, <2>1, <2>2 DEF AheadOf
<1>6. ASSUME NEW q \in Repeaters, SendFinalized(q) PROVE AheadOf(r)'
  <2> DEFINE m == [to |-> q, block |-> Last(chain)]
  <2>1. /\ q \in tosend /\ tosend' = tosend \ {q} /\ finals' = finals \cup {m}
        /\ UNCHANGED <<chain, mem>>
    BY <1>6 DEF SendFinalized, repVars
  <2>2. m.to = q /\ m.block = Last(chain)
    OBVIOUS
  <2> HIDE DEF m
  <2>3. ASSUME NEW w \in finals', w.to = r PROVE Len(mem[r]) <= w.block.num
    <3>1. CASE w = m
      BY <1>1, <2>1, <2>2, <2>3, <3>1 DEF AheadOf
    <3>2. CASE w # m
      BY <1>1, <2>1, <2>3, <3>2 DEF AheadOf
    <3>3. QED
      BY <3>1, <3>2
  <2>4. QED
    BY <1>1, <2>1, <2>3 DEF AheadOf
<1>7. ASSUME NEW q \in Repeaters, AppendBlock(q) PROVE AheadOf(r)'
  <2>1. PICK t \in threads[q] : /\ t.at = "checked"
                                /\ mem' = [mem EXCEPT ![q] = Append(@, t.block)]
    BY <1>7 DEF AppendBlock
  <2>2. UNCHANGED <<finals, tosend, chain, saved>>
    BY <1>7 DEF AppendBlock, prodVars, netVars
  <2>3. CASE q # r
    BY <1>2, <1>3, <2>1, <2>2, <2>3
  <2>4. CASE q = r
    <3>1. /\ t.block \in Block /\ InPlace(t.block) /\ t.block.num = Len(mem[r])
          /\ t.block \in InHand(r)
      BY <1>1, <2>1, <2>4 DEF RepeaterInv, InHand, SavedInv, TypeInv, TypeOK, Handler
    <3>2. Len(mem'[r]) = Len(mem[r]) + 1
      BY <1>2, <2>1, <2>4, <3>1, AppendToChain
    <3>3. OneCopyFor(r)
      BY DEF AheadInv, CopyInv
    <3>4. ASSUME NEW b \in Block, InPlace(b), b # t.block, Len(mem[r]) <= b.num
          PROVE  Len(mem'[r]) <= b.num
      <4>1. b.num \in Nat /\ b.num # t.block.num
        BY <3>1, <3>4 DEF InPlace, Block
      <4>2. QED
        BY <1>2, <3>1, <3>2, <3>4, <4>1
    <3>5. ASSUME NEW m \in finals, m.to = r PROVE Len(mem'[r]) <= m.block.num
      <4>1. m.block \in Block /\ InPlace(m.block) /\ m.block # t.block
        BY <1>1, <3>1, <3>3, <3>5
        DEF SavedInv, FinalsInv, TypeInv, TypeOK, OneCopyFor, OnWire
      <4>2. QED
        BY <1>1, <3>4, <3>5, <4>1 DEF AheadOf
    <3>6. ASSUME r \in tosend PROVE Len(mem'[r]) <= Last(chain).num
      <4>1. pc = "broadcasting" /\ chain = saved /\ Len(saved) > 1
        BY <1>1, <3>6 DEF AheadInv, CopyInv, ProducerInv
      <4>2. Last(chain) = saved[Len(saved)] /\ Last(chain).num = Len(saved) - 1
        BY <1>1, <1>2, <4>1 DEF SavedInv, Numbered, Last
      <4>3. Last(chain) \in Block /\ InPlace(Last(chain))
        BY <1>2, <4>1, <4>2, LastInBlock DEF InPlace
      <4>4. Last(chain) # t.block /\ Len(mem[r]) <= Last(chain).num
        BY <1>1, <3>1, <3>3, <3>6 DEF OneCopyFor, AheadOf
      <4>5. QED
        BY <3>4, <4>3, <4>4
    <3>7. QED
      BY <2>2, <3>5, <3>6 DEF AheadOf
  <2>5. QED
    BY <2>3, <2>4
<1>8. ASSUME NEW q \in Repeaters, RepeaterCrash(q) PROVE AheadOf(r)'
  <2>1. mem' = [mem EXCEPT ![q] = disk[q]] /\ UNCHANGED <<finals, tosend, chain>>
    BY <1>8 DEF RepeaterCrash, prodVars, netVars
  <2>2. mem'[r] = mem[r] \/ mem'[r] = disk[r]
    BY <1>2, <2>1
  <2>3. Len(mem'[r]) \in Nat /\ Len(mem'[r]) <= Len(mem[r])
    BY <1>1, <1>2, <2>2 DEF HeldInv
  <2>4. ASSUME NEW m \in finals, m.to = r PROVE Len(mem'[r]) <= m.block.num
    <3>1. m.block.num \in Nat
      BY <1>1 DEF SavedInv, TypeInv, TypeOK, Block
    <3>2. Len(mem[r]) <= m.block.num /\ Len(mem[r]) \in Nat
      BY <1>1, <1>2, <2>4 DEF AheadOf
    <3>3. QED
      BY <2>3, <3>1, <3>2
  <2>5. Last(chain).num \in Nat
    BY <1>2, LastInBlock
  <2>6. Len(mem[r]) \in Nat /\ (r \in tosend => Len(mem[r]) <= Last(chain).num)
    BY <1>1, <1>2 DEF AheadOf
  <2>7. r \in tosend => Len(mem'[r]) <= Last(chain).num
    BY <2>3, <2>5, <2>6
  <2>8. QED
    BY <2>1, <2>4, <2>7 DEF AheadOf
<1>9. CASE StartAttempt \/ ReceiveSignature \/ FailAttempt \/ ProducerCrash
  BY <1>3, <1>9 DEF StartAttempt, ReceiveSignature, FailAttempt,
     ProducerCrash, repVars, netVars
<1>10. ASSUME NEW q \in Repeaters,
              \/ HandleProposal(q) \/ HandleFinalized(q) \/ OpenFile(q) \/ SaveBlock(q)
              \/ RepeaterRestart(q) \/ Refuse(q)
       PROVE  AheadOf(r)'
  BY <1>3, <1>10 DEF HandleProposal, HandleFinalized, OpenFile, SaveBlock,
     RepeaterRestart, Refuse, Discard, prodVars, repVars, netVars
<1>11. CASE Lose \/ UNCHANGED vars
  BY <1>3, <1>11 DEF Lose, Discard, vars, prodVars, repVars, netVars
<1>12. QED
  BY <1>4, <1>5, <1>6, <1>7, <1>8, <1>9, <1>10, <1>11 DEF Next, ProducerStep, RepeaterStep

\* What keeps a stale repeater stale: less is on its way to it.
LEMMA StaleQuiet ==
  ASSUME NEW r \in Repeaters, Stale(r), mem'[r] = mem[r], Len(mem[r]) < Len(saved'),
         \A m \in finals' : m.to = r => m.block.num # Len(mem[r]),
         \A t \in threads'[r] : t.block.num # Len(mem[r]),
         r \in tosend' => Last(chain').num # Len(mem[r])
  PROVE  Stale(r)'
BY DEF Stale, NextIsComing

LEMMA StaleStep ==
  ASSUME AheadInv, AheadInv', [Next]_vars, ~torn', NEW r \in Repeaters, Stale(r)
  PROVE  Stale(r)'
<1>1. /\ SavedInv /\ ProducerInv /\ RepeaterInv(r) /\ AheadOf(r) /\ HeldInv(r)
      /\ ProducerInv'
  BY TornStays DEF AheadInv, PrefixInv, SavedInv, OneHistoryInv
<1>2. /\ mem \in [Repeaters -> Seq(Block)] /\ disk \in [Repeaters -> Seq(Block)]
      /\ threads \in [Repeaters -> SUBSET Handler] /\ finals \subseteq [to: Repeaters, block: Block]
      /\ Len(mem[r]) \in Nat /\ Len(disk[r]) \in Nat /\ Len(saved) \in Nat
      /\ chain \in Seq(Block) /\ Len(chain) > 0
  BY <1>1 DEF SavedInv, TypeInv, TypeOK, NonEmpty
<1>3. /\ Len(mem[r]) < Len(saved)
      /\ \A m \in finals : m.to = r => m.block.num # Len(mem[r])
      /\ \A t \in threads[r] : t.block.num # Len(mem[r])
      /\ r \in tosend => Last(chain).num # Len(mem[r])
  BY DEF Stale, NextIsComing
<1>4. ASSUME mem'[r] = mem[r], threads'[r] \subseteq threads[r], finals' \subseteq finals,
             saved' = saved, r \in tosend' => r \in tosend /\ chain' = chain
      PROVE  Stale(r)'
  BY <1>3, <1>4, StaleQuiet
<1>5. CASE Finalize
  <2>1. pc' = "saving" /\ UNCHANGED <<saved, finals, mem, threads>>
    BY <1>5 DEF Finalize, repVars, netVars
  <2>2. Last(chain').num = Len(saved)
    BY <1>1, <2>1 DEF ProducerInv
  <2>3. Last(chain').num # Len(mem[r])
    <3>1. Len(mem[r]) \in Nat /\ Len(saved) \in Nat /\ Len(mem[r]) < Len(saved)
      BY <1>2, <1>3
    <3>2. QED
      BY <2>2, <3>1
  <2>4. QED
    BY <1>3, <2>1, <2>3, StaleQuiet
<1>6. CASE FinishFinalize
  <2>1. pc = "saving" /\ saved' = chain /\ UNCHANGED <<chain, finals, mem, threads>>
    BY <1>6 DEF FinishFinalize, repVars, netVars
  <2>2. Last(chain).num = Len(saved) /\ Len(chain) = Len(saved) + 1
    BY <1>1, <2>1 DEF ProducerInv
  <2>3. Last(chain).num # Len(mem[r]) /\ Len(mem[r]) < Len(chain)
    <3>1. Len(mem[r]) \in Nat /\ Len(saved) \in Nat /\ Len(mem[r]) < Len(saved)
      BY <1>2, <1>3
    <3>2. QED
      BY <2>2, <3>1
  <2>4. QED
    BY <1>3, <2>1, <2>3, StaleQuiet
<1>7. ASSUME NEW q \in Repeaters, SendFinalized(q) PROVE Stale(r)'
  <2> DEFINE m == [to |-> q, block |-> Last(chain)]
  <2>1. /\ q \in tosend /\ tosend' = tosend \ {q} /\ finals' = finals \cup {m}
        /\ UNCHANGED <<chain, saved, mem, threads>>
    BY <1>7 DEF SendFinalized, repVars
  <2>2. m.to = q /\ m.block = Last(chain)
    OBVIOUS
  <2> HIDE DEF m
  <2>3. ASSUME NEW w \in finals', w.to = r PROVE w.block.num # Len(mem[r])
    <3>1. CASE w = m
      BY <1>3, <2>1, <2>2, <2>3, <3>1
    <3>2. CASE w # m
      BY <1>3, <2>1, <2>3, <3>2
    <3>3. QED
      BY <3>1, <3>2
  <2>4. QED
    BY <1>3, <2>1, <2>3, StaleQuiet
<1>8. ASSUME NEW q \in Repeaters, HandleFinalized(q) PROVE Stale(r)'
  <2>1. PICK m \in finals :
          /\ m.to = q /\ finals' = finals \ {m}
          /\ \/ threads' = [threads EXCEPT ![q] = @ \cup
                  {[block |-> m.block, at |-> "checked", copied |-> 0]}]
             \/ UNCHANGED threads
    BY <1>8 DEF HandleFinalized
  <2> DEFINE u == [block |-> m.block, at |-> "checked", copied |-> 0]
  <2>2. u.block = m.block
    OBVIOUS
  <2> HIDE DEF u
  <2>3. threads'[r] = threads[r] \/ (q = r /\ threads'[r] = threads[r] \cup {u})
    BY <1>2, <2>1 DEF u
  <2>4. ASSUME NEW t \in threads'[r] PROVE t.block.num # Len(mem[r])
    <3>1. CASE t \in threads[r]
      BY <1>3, <3>1
    <3>2. CASE q = r /\ t = u
      BY <1>3, <2>1, <2>2, <3>2
    <3>3. QED
      BY <2>3, <3>1, <3>2
  <2>5. UNCHANGED <<mem, saved, tosend, chain>>
    BY <1>8 DEF HandleFinalized, prodVars
  <2>6. QED
    BY <1>3, <2>1, <2>4, <2>5, StaleQuiet
<1>9. ASSUME NEW q \in Repeaters, AppendBlock(q) PROVE Stale(r)'
  <2>1. PICK t \in threads[q] :
          /\ t.at = "checked"
          /\ mem' = [mem EXCEPT ![q] = Append(@, t.block)]
          /\ threads' = [threads EXCEPT ![q] = (@ \ {t}) \cup
               {[block |-> t.block, at |-> "appended", copied |-> Len(mem'[q])]}]
    BY <1>9 DEF AppendBlock
  <2>2. q # r
    BY <1>1, <1>3, <2>1 DEF RepeaterInv
  <2>3. mem'[r] = mem[r] /\ threads'[r] = threads[r]
    BY <1>2, <2>1, <2>2
  <2>4. QED
    BY <1>4, <1>9, <2>3 DEF AppendBlock, prodVars, netVars
<1>10. ASSUME NEW q \in Repeaters, SaveBlock(q) PROVE Stale(r)'
  <2>1. threads'[r] \subseteq threads[r]
    BY <1>2, <1>10 DEF SaveBlock
  <2>2. QED
    BY <1>4, <1>10, <2>1 DEF SaveBlock, prodVars, netVars
<1>16. ASSUME NEW q \in Repeaters, OpenFile(q) PROVE Stale(r)'
  <2>1. PICK t \in threads[q] :
          threads' = [threads EXCEPT ![q] = (@ \ {t}) \cup {[t EXCEPT !.at = "writing"]}]
    BY <1>16 DEF OpenFile
  <2>2. UNCHANGED <<mem, saved, tosend, chain, finals>>
    BY <1>16 DEF OpenFile, prodVars, netVars
  <2> DEFINE u == [t EXCEPT !.at = "writing"]
  <2>3. u.block = t.block
    <3>1. t \in Handler
      BY <1>2
    <3>2. QED
      BY <3>1 DEF Handler
  <2> HIDE DEF u
  <2>4. threads'[r] = threads[r] \/ (q = r /\ threads'[r] = (threads[r] \ {t}) \cup {u})
    BY <1>2, <2>1 DEF u
  <2>5. \A v \in threads'[r] : v.block.num # Len(mem[r])
    BY <1>3, <2>3, <2>4
  <2>6. QED
    BY <1>3, <2>2, <2>5, StaleQuiet
<1>11. ASSUME NEW q \in Repeaters, RepeaterCrash(q) PROVE Stale(r)'
  <2>1. /\ mem' = [mem EXCEPT ![q] = disk[q]] /\ threads' = [threads EXCEPT ![q] = {}]
        /\ UNCHANGED <<saved, chain, tosend, finals>>
    BY <1>11 DEF RepeaterCrash, prodVars, netVars
  <2>2. CASE mem'[r] = mem[r]
    <3>1. threads'[r] \subseteq threads[r]
      BY <1>2, <2>1
    <3>2. QED
      BY <1>4, <2>1, <2>2, <3>1
  <2>3. CASE mem'[r] # mem[r]
    <3>1. q = r /\ mem'[r] = disk[r] /\ threads'[r] = {}
      BY <1>2, <2>1, <2>3
    <3>2. Len(mem'[r]) <= Len(mem[r]) /\ Len(mem'[r]) \in Nat
      BY <1>1, <1>2, <3>1 DEF HeldInv
    <3>3. ASSUME NEW m \in finals, m.to = r PROVE m.block.num # Len(mem'[r])
      <4>1. m.block.num \in Nat /\ Len(mem[r]) <= m.block.num /\ m.block.num # Len(mem[r])
        BY <1>1, <1>2, <1>3, <3>3 DEF AheadOf, Block
      <4>2. QED
        BY <1>2, <3>2, <4>1
    <3>4. ASSUME r \in tosend PROVE Last(chain).num # Len(mem'[r])
      <4>1. /\ Last(chain).num \in Nat /\ Len(mem[r]) <= Last(chain).num
            /\ Last(chain).num # Len(mem[r])
        BY <1>1, <1>2, <1>3, <3>4, LastInBlock DEF AheadOf
      <4>2. QED
        BY <1>2, <3>2, <4>1
    <3>5. QED
      BY <1>2, <1>3, <2>1, <3>1, <3>2, <3>3, <3>4 DEF Stale, NextIsComing
  <2>4. QED
    BY <2>2, <2>3
<1>12. CASE StartAttempt \/ ReceiveSignature \/ FailAttempt
  BY <1>4, <1>12 DEF StartAttempt, ReceiveSignature, FailAttempt, repVars, netVars
<1>13. CASE ProducerCrash
  BY <1>4, <1>13 DEF ProducerCrash, repVars
<1>14. ASSUME NEW q \in Repeaters, HandleProposal(q) \/ RepeaterRestart(q) \/ Refuse(q)
       PROVE  Stale(r)'
  BY <1>4, <1>14 DEF HandleProposal, RepeaterRestart, Refuse, Discard, prodVars, repVars, netVars
<1>15. CASE Lose \/ UNCHANGED vars
  BY <1>4, <1>15 DEF Lose, Discard, vars, prodVars, repVars, netVars
<1>17. QED
  BY <1>5, <1>6, <1>7, <1>8, <1>9, <1>10, <1>11, <1>12, <1>13, <1>14, <1>15, <1>16
  DEF Next, ProducerStep, RepeaterStep

\* A repeater that has missed a block stays behind for ever, also when a crash
\* takes it back to its file, unless the producer loses its own chain.
THEOREM MissedForGood == Spec => StaleStays
<1>1. AheadInv /\ AheadInv' /\ [Next]_vars =>
        [\A r \in Repeaters : Stale(r) => Stale(r)' \/ torn']_vars
  BY StaleStep
<1>2. QED
  BY AheadInit, AheadStep, <1>1, PTL DEF Spec, StaleStays
-----------------------------------------------------------------------------
(***************************************************************************)
(* The end of the chain, through every crash.  What the producer has       *)
(* proposed extends its saved chain, so a repeater whose latest block is   *)
(* another one does not sign it.                                           *)
(***************************************************************************)
ProposedInv ==
  /\ SignedInv
  /\ pc # "saving" => chain = saved
  /\ current.stamp <= stamp
  /\ current.stamp # 0 => current.prev = Hash(Last(saved))
  /\ \A m \in proposals : /\ m.prop.stamp # 0 /\ m.prop.stamp <= stamp
                          /\ m.prop.stamp = current.stamp => m.prop = current
  /\ \A r \in Repeaters : \A n \in signed[r] : n # 0 /\ n <= stamp

LEMMA ProposedInit == Init => ProposedInv
BY SignedInit DEF Init, ProposedInv, NoProposal

\* The steps that neither propose nor save nor sign.
LEMMA ProposedQuiet ==
  ASSUME ProposedInv, SignedInv', UNCHANGED <<stamp, saved, signed>>,
         proposals' \subseteq proposals, current' \in {current, NoProposal},
         pc' # "saving" => chain' = saved'
  PROVE  ProposedInv'
<1>1. stamp \in Nat /\ NoProposal.stamp = 0
  BY DEF ProposedInv, SignedInv, TypeInv, TypeOK, NoProposal
<1>2. CASE current' = current
  BY <1>2 DEF ProposedInv
<1>3. CASE current' = NoProposal
  BY <1>1, <1>3 DEF ProposedInv
<1>4. QED
  BY <1>2, <1>3

LEMMA ProposedStep == ProposedInv /\ [Next]_vars => ProposedInv'
<1> SUFFICES ASSUME ProposedInv, [Next]_vars
             PROVE  ProposedInv'
  OBVIOUS
<1>1. SignedInv'
  BY SignedStep DEF ProposedInv
<1>2. /\ stamp \in Nat /\ signed \in [Repeaters -> SUBSET Nat]
      /\ proposals \subseteq [to: Repeaters, prop: Proposal]
      /\ NoProposal.stamp = 0
  BY DEF ProposedInv, SignedInv, TypeInv, TypeOK, NoProposal
<1>3. CASE StartAttempt
  <2>1. /\ stamp' = stamp + 1 /\ current'.stamp = stamp + 1
        /\ current'.prev = Hash(Last(chain)) /\ pc = "idle" /\ pc' = "collecting"
        /\ proposals' = proposals \cup [to: Repeaters, prop: {current'}]
        /\ UNCHANGED <<chain, saved, signed>>
    BY <1>3 DEF StartAttempt, repVars
  <2>2. chain = saved
    BY <2>1 DEF ProposedInv
  <2>3. ASSUME NEW m \in proposals'
        PROVE  /\ m.prop.stamp # 0 /\ m.prop.stamp <= stamp'
               /\ m.prop.stamp = current'.stamp => m.prop = current'
    <3>1. CASE m \in proposals
      <4>1. m.prop.stamp \in Nat /\ m.prop.stamp # 0 /\ m.prop.stamp <= stamp
        BY <1>2, <3>1 DEF ProposedInv, Proposal
      <4>2. QED
        BY <1>2, <2>1, <4>1
    <3>2. CASE m \in [to: Repeaters, prop: {current'}]
      <4>1. m.prop = current'
        BY <3>2
      <4>2. QED
        BY <1>2, <2>1, <4>1
    <3>3. QED
      BY <2>1, <3>1, <3>2
  <2>4. ASSUME NEW r \in Repeaters, NEW n \in signed'[r]
        PROVE  n # 0 /\ n <= stamp'
    <3>1. n \in Nat /\ n # 0 /\ n <= stamp
      BY <1>2, <2>1 DEF ProposedInv
    <3>2. QED
      BY <1>2, <2>1, <3>1
  <2>5. current'.stamp <= stamp' /\ current'.prev = Hash(Last(saved'))
    BY <1>2, <2>1, <2>2
  <2>6. QED
    BY <1>1, <2>1, <2>2, <2>3, <2>4, <2>5 DEF ProposedInv
<1>4. CASE FinishFinalize
  <2>1. /\ saved' = chain /\ chain' = chain /\ current' = NoProposal
        /\ UNCHANGED <<stamp, proposals, signed>>
    BY <1>4 DEF FinishFinalize, repVars, netVars
  <2>2. QED
    BY <1>1, <1>2, <2>1 DEF ProposedInv
<1>5. CASE ProducerCrash
  <2>1. /\ chain' = saved' /\ current' = NoProposal /\ UNCHANGED <<stamp, proposals, signed>>
    BY <1>5 DEF ProducerCrash, repVars
  <2>2. QED
    BY <1>1, <1>2, <2>1 DEF ProposedInv
<1>6. ASSUME NEW r \in Repeaters, HandleProposal(r) PROVE ProposedInv'
  <2>1. PICK m \in proposals :
          /\ proposals' = proposals \ {m}
          /\ signed' = [signed EXCEPT ![r] = @ \cup {m.prop.stamp}] \/ signed' = signed
    BY <1>6 DEF HandleProposal
  <2>2. UNCHANGED <<stamp, pc, current, chain, saved>>
    BY <1>6 DEF HandleProposal, prodVars
  <2>3. ASSUME NEW q \in Repeaters, NEW n \in signed'[q]
        PROVE  n \in signed[q] \/ n = m.prop.stamp
    BY <1>2, <2>1, <2>3
  <2>4. \A q \in Repeaters : \A n \in signed'[q] : n # 0 /\ n <= stamp
    BY <2>3 DEF ProposedInv
  <2>5. QED
    BY <1>1, <2>1, <2>2, <2>4 DEF ProposedInv
<1>7. CASE Finalize
  <2>1. /\ pc' = "saving" /\ UNCHANGED <<stamp, saved, signed, proposals, current>>
    BY <1>7 DEF Finalize, repVars, netVars
  <2>2. QED
    BY <1>1, <2>1, ProposedQuiet
<1>8. CASE ReceiveSignature
  BY <1>1, <1>8, ProposedQuiet DEF ReceiveSignature, ProposedInv, repVars
<1>9. CASE FailAttempt
  <2>1. /\ pc # "saving" /\ UNCHANGED <<stamp, chain, saved, signed, proposals, current>>
    BY <1>9 DEF FailAttempt, repVars, netVars
  <2>2. chain' = saved'
    BY <2>1 DEF ProposedInv
  <2>3. QED
    BY <1>1, <2>1, <2>2, ProposedQuiet
<1>10. ASSUME UNCHANGED <<prodVars, signed>>, proposals' \subseteq proposals
       PROVE  ProposedInv'
  <2>1. UNCHANGED <<stamp, pc, chain, saved, signed, current>>
    BY <1>10 DEF prodVars
  <2>2. pc' # "saving" => chain' = saved'
    BY <2>1 DEF ProposedInv
  <2>3. QED
    BY <1>1, <1>10, <2>1, <2>2, ProposedQuiet
<1>11. ASSUME NEW r \in Repeaters, SendFinalized(r) PROVE ProposedInv'
  <2>1. /\ pc # "saving" /\ UNCHANGED <<stamp, chain, saved, signed, proposals, current>>
    BY <1>11 DEF SendFinalized, repVars
  <2>2. chain' = saved'
    BY <2>1 DEF ProposedInv
  <2>3. QED
    BY <1>1, <2>1, <2>2, ProposedQuiet
<1>12. ASSUME NEW r \in Repeaters,
              \/ HandleFinalized(r) \/ AppendBlock(r) \/ OpenFile(r) \/ SaveBlock(r)
              \/ RepeaterRestart(r) \/ Refuse(r) \/ RepeaterCrash(r)
       PROVE  ProposedInv'
  BY <1>10, <1>12 DEF HandleFinalized, AppendBlock, OpenFile, SaveBlock,
     RepeaterRestart, Refuse, Discard, RepeaterCrash, repVars, netVars
<1>13. CASE Lose \/ UNCHANGED vars
  BY <1>10, <1>13 DEF Lose, Discard, vars, repVars, netVars
<1>14. QED
  BY <1>3, <1>4, <1>5, <1>6, <1>7, <1>8, <1>9, <1>11, <1>12, <1>13
  DEF Next, ProducerStep, RepeaterStep

\* The repeaters that can still sign, or have signed, what is proposed.
Able == {r \in Repeaters : ~Lost(r) \/ current.stamp \in signed[r]}

\* The chain stays ended as long as nobody becomes able to sign.
LEMMA EndedStays ==
  ASSUME Ended, Able' \subseteq Able, pc' # "saving"
  PROVE  Ended'
<1>1. Able \subseteq Repeaters /\ IsFiniteSet(Able)
  BY RepeatersAssumption, FS_Subset DEF Able
<1>2. IsFiniteSet(Able') /\ Cardinality(Able') <= Cardinality(Able)
  BY <1>1, FS_Subset
<1>3. Cardinality(Able) \in Nat /\ Cardinality(Able') \in Nat /\ Cardinality(Repeaters) \in Nat
  BY <1>1, <1>2, RepeatersAssumption, FS_CardinalityType
<1>4. Cardinality(Able) < Majority
  BY DEF Ended, Able
<1>5. Majority \in Nat
  BY <1>3 DEF Majority
<1>6. Cardinality(Able') < Majority
  BY <1>2, <1>3, <1>4, <1>5
<1>7. Able' = {r \in Repeaters : ~Lost(r)' \/ current'.stamp \in signed'[r]}
  BY DEF Able
<1>8. QED
  BY <1>6, <1>7 DEF Ended, Majority

\* A repeater that is lost and does not sign stays lost.
LEMMA AbleShrinks ==
  ASSUME UNCHANGED <<current, signed>>, \A r \in Repeaters : Lost(r) => Lost(r)'
  PROVE  Able' \subseteq Able
BY DEF Able

LEMMA CannotFinalize ==
  ASSUME ProposedInv, Ended PROVE ~Finalize
<1>1. collected \subseteq Able
  BY DEF ProposedInv, SignedInv, TypeInv, TypeOK, Able
<1>2. IsFiniteSet(Able)
  BY RepeatersAssumption, FS_Subset DEF Able
<1>3. /\ Cardinality(collected) <= Cardinality(Able) /\ IsFiniteSet(collected)
      /\ Cardinality(Able) \in Nat /\ Cardinality(collected) \in Nat
      /\ Cardinality(Repeaters) \in Nat
  BY <1>1, <1>2, RepeatersAssumption, FS_Subset, FS_CardinalityType
<1>4. Cardinality(Able) < Majority /\ Majority \in Nat
  BY <1>3 DEF Ended, Able, Majority
<1>5. ~(Cardinality(collected) >= Majority)
  BY <1>3, <1>4
<1>6. QED
  BY <1>5 DEF Finalize, CanFinalize, EnoughSignatures

LEMMA LostDoesNotSign ==
  ASSUME ProposedInv, NEW r \in Repeaters, Lost(r), NEW m \in proposals,
         Extends(m.prop, mem[r])
  PROVE  m.prop.stamp # current.stamp
<1>1. SUFFICES ASSUME m.prop.stamp = current.stamp PROVE FALSE
  OBVIOUS
<1>2. m.prop = current /\ current.stamp # 0
  BY <1>1 DEF ProposedInv
<1>3. current.prev = Hash(Last(saved)) /\ current.prev = Hash(Last(mem[r]))
  BY <1>2 DEF ProposedInv, Extends
<1>4. QED
  BY <1>3 DEF Lost

LEMMA EndedStep ==
  ASSUME ProposedInv, ProposedInv', [Next]_vars, Ended
  PROVE  Ended' /\ saved' = saved
<1>1. /\ threads \in [Repeaters -> SUBSET Handler] /\ signed \in [Repeaters -> SUBSET Nat]
      /\ mem \in [Repeaters -> Seq(Block)] /\ disk \in [Repeaters -> Seq(Block)]
      /\ stamp \in Nat /\ pc # "saving"
  BY DEF ProposedInv, SignedInv, TypeInv, TypeOK, Ended
<1>2. ASSUME UNCHANGED <<pc, saved, current, signed>>, \A r \in Repeaters : Lost(r) => Lost(r)'
      PROVE  Ended' /\ saved' = saved
  BY <1>1, <1>2, EndedStays, AbleShrinks
<1>3. ASSUME NEW q \in Repeaters,
             \A r \in Repeaters \ {q} : /\ mem'[r] = mem[r] /\ disk'[r] = disk[r]
                                        /\ threads'[r] = threads[r],
             finals' \subseteq finals, UNCHANGED <<saved, tosend>>, Lost(q) => Lost(q)'
      PROVE  \A r \in Repeaters : Lost(r) => Lost(r)'
  BY <1>3 DEF Lost
<1>4. CASE StartAttempt
  <2>1. /\ UNCHANGED <<saved, mem, disk, threads, tosend, finals, signed>>
        /\ pc' = "collecting" /\ current'.stamp = stamp + 1
    BY <1>4 DEF StartAttempt, repVars
  <2>2. \A r \in Repeaters : Lost(r)' <=> Lost(r)
    BY <2>1 DEF Lost
  <2>3. ASSUME NEW r \in Repeaters PROVE current'.stamp \notin signed[r]
    <3>1. \A n \in signed[r] : n \in Nat /\ n <= stamp
      BY <1>1 DEF ProposedInv
    <3>2. QED
      BY <1>1, <2>1, <3>1
  <2>4. Able' \subseteq Able
    BY <2>1, <2>2, <2>3 DEF Able
  <2>5. QED
    BY <2>1, <2>4, EndedStays
<1>5. CASE ReceiveSignature
  <2>1. UNCHANGED <<pc, current, saved, mem, disk, threads, tosend, finals, signed>>
    BY <1>5 DEF ReceiveSignature, repVars
  <2>2. \A r \in Repeaters : Lost(r) => Lost(r)'
    BY <2>1 DEF Lost
  <2>3. QED
    BY <1>2, <2>1, <2>2
<1>6. CASE FailAttempt
  <2>1. /\ UNCHANGED <<current, saved, mem, disk, threads, tosend, finals, signed>>
        /\ pc' = "idle"
    BY <1>6 DEF FailAttempt, repVars, netVars
  <2>2. \A r \in Repeaters : Lost(r) => Lost(r)'
    BY <2>1 DEF Lost
  <2>3. QED
    BY <2>1, <2>2, AbleShrinks, EndedStays
<1>7. ASSUME NEW q \in Repeaters, SendFinalized(q) PROVE Ended' /\ saved' = saved
  <2> DEFINE m == [to |-> q, block |-> Last(chain)]
  <2>1. /\ UNCHANGED <<current, saved, mem, disk, threads, signed>> /\ pc' # "saving"
        /\ q \in tosend /\ tosend' = tosend \ {q} /\ finals' = finals \cup {m}
    BY <1>7 DEF SendFinalized, repVars
  <2>2. m.to = q
    OBVIOUS
  <2> HIDE DEF m
  <2>3. \A r \in Repeaters : Lost(r) => Lost(r)'
    BY <2>1, <2>2 DEF Lost
  <2>4. QED
    BY <2>1, <2>3, AbleShrinks, EndedStays
<1>8. CASE ProducerCrash
  <2>1. /\ saved' = saved /\ current' = NoProposal /\ pc' = "idle" /\ tosend' = {}
        /\ UNCHANGED <<mem, disk, threads, finals, signed>>
    BY <1>1, <1>8 DEF ProducerCrash, AfterCrash, repVars
  <2>2. \A r \in Repeaters : Lost(r) => Lost(r)'
    BY <2>1 DEF Lost
  <2>3. current'.stamp = 0 /\ \A r \in Repeaters : 0 \notin signed[r]
    BY <2>1 DEF NoProposal, ProposedInv
  <2>4. Able' \subseteq Able
    BY <2>1, <2>2, <2>3 DEF Able
  <2>5. QED
    BY <2>1, <2>4, EndedStays
<1>9. ASSUME NEW q \in Repeaters, HandleProposal(q) PROVE Ended' /\ saved' = saved
  <2>1. PICK m \in proposals :
          \/ /\ Extends(m.prop, mem[q])
             /\ signed' = [signed EXCEPT ![q] = @ \cup {m.prop.stamp}]
          \/ signed' = signed
    BY <1>9 DEF HandleProposal
  <2>2. UNCHANGED <<pc, current, saved, mem, disk, threads, tosend, finals>>
    BY <1>9 DEF HandleProposal, prodVars
  <2>3. \A r \in Repeaters : Lost(r) <=> Lost(r)'
    BY <2>2 DEF Lost
  <2>4. ASSUME NEW r \in Repeaters, Lost(r), current.stamp \in signed'[r]
        PROVE  current.stamp \in signed[r]
    <3>1. CASE signed' = signed
      BY <2>4, <3>1
    <3>2. CASE /\ Extends(m.prop, mem[q])
               /\ signed' = [signed EXCEPT ![q] = @ \cup {m.prop.stamp}]
      <4>1. CASE r # q
        BY <1>1, <2>4, <3>2, <4>1
      <4>2. CASE r = q
        <5>1. m.prop.stamp # current.stamp
          BY <2>4, <3>2, <4>2, LostDoesNotSign
        <5>2. QED
          BY <1>1, <2>4, <3>2, <4>2, <5>1
      <4>3. QED
        BY <4>1, <4>2
    <3>3. QED
      BY <2>1, <3>1, <3>2
  <2>5. Able' \subseteq Able
    BY <2>2, <2>3, <2>4 DEF Able
  <2>6. QED
    BY <1>1, <2>2, <2>5, EndedStays
<1>10. ASSUME NEW q \in Repeaters, HandleFinalized(q) PROVE Ended' /\ saved' = saved
  <2>1. PICK m \in finals :
          /\ m.to = q /\ finals' = finals \ {m}
          /\ \/ threads' = [threads EXCEPT ![q] = @ \cup
                  {[block |-> m.block, at |-> "checked", copied |-> 0]}]
             \/ UNCHANGED threads
    BY <1>10 DEF HandleFinalized
  <2>2. UNCHANGED <<pc, current, saved, mem, disk, tosend, signed>>
    BY <1>10 DEF HandleFinalized, prodVars
  <2>3. ~Lost(q)
    BY <2>1 DEF Lost
  <2>4. \A r \in Repeaters \ {q} : threads'[r] = threads[r]
    BY <1>1, <2>1
  <2>5. \A r \in Repeaters : Lost(r) => Lost(r)'
    BY <1>3, <2>1, <2>2, <2>3, <2>4
  <2>6. QED
    BY <1>2, <2>2, <2>5
<1>11. ASSUME NEW q \in Repeaters, AppendBlock(q) \/ OpenFile(q) \/ SaveBlock(q)
       PROVE  Ended' /\ saved' = saved
  <2>1. threads[q] # {} /\ UNCHANGED <<pc, current, saved, tosend, finals, signed>>
    BY <1>11 DEF AppendBlock, OpenFile, SaveBlock, prodVars, netVars
  <2>2. ~Lost(q)
    BY <2>1 DEF Lost
  <2>3. \A r \in Repeaters \ {q} : /\ mem'[r] = mem[r] /\ disk'[r] = disk[r]
                                   /\ threads'[r] = threads[r]
    BY <1>1, <1>11 DEF AppendBlock, OpenFile, SaveBlock
  <2>4. \A r \in Repeaters : Lost(r) => Lost(r)'
    BY <1>3, <2>1, <2>2, <2>3
  <2>5. QED
    BY <1>2, <2>1, <2>4
<1>12. ASSUME NEW q \in Repeaters, RepeaterCrash(q) PROVE Ended' /\ saved' = saved
  <2>1. mem' = [mem EXCEPT ![q] = disk[q]] /\ disk' = disk
    BY <1>12 DEF RepeaterCrash
  <2>2. /\ threads' = [threads EXCEPT ![q] = {}]
        /\ UNCHANGED <<pc, current, saved, tosend, finals, signed>>
    BY <1>12 DEF RepeaterCrash, prodVars, netVars
  <2>3. ASSUME Lost(q) PROVE Lost(q)'
    <3>1. threads[q] = {} /\ disk[q] = mem[q]
      BY <2>3 DEF Lost
    <3>2. mem'[q] = mem[q] /\ disk'[q] = disk[q] /\ threads'[q] = {}
      BY <1>1, <2>1, <2>2, <3>1
    <3>3. QED
      BY <2>2, <2>3, <3>2 DEF Lost
  <2>4. \A r \in Repeaters \ {q} : /\ mem'[r] = mem[r] /\ disk'[r] = disk[r]
                                   /\ threads'[r] = threads[r]
    BY <1>1, <2>1, <2>2
  <2>5. \A r \in Repeaters : Lost(r) => Lost(r)'
    BY <1>3, <2>2, <2>3, <2>4
  <2>6. QED
    BY <1>2, <2>2, <2>5
<1>13. ASSUME UNCHANGED <<prodVars, mem, disk, threads, signed>>, finals' \subseteq finals
       PROVE  Ended' /\ saved' = saved
  <2>1. UNCHANGED <<pc, current, saved, tosend>>
    BY <1>13 DEF prodVars
  <2>2. \A r \in Repeaters : Lost(r) => Lost(r)'
    BY <1>13, <2>1 DEF Lost
  <2>3. QED
    BY <1>2, <1>13, <2>1, <2>2
<1>14. ASSUME NEW q \in Repeaters, RepeaterRestart(q) \/ Refuse(q)
       PROVE  Ended' /\ saved' = saved
  BY <1>13, <1>14 DEF RepeaterRestart, Refuse, Discard, repVars, netVars
<1>15. CASE Lose \/ UNCHANGED vars
  BY <1>13, <1>15 DEF Lose, Discard, vars, repVars, netVars
<1>16. CASE Finalize
  BY <1>16, CannotFinalize
<1>17. CASE FinishFinalize
  BY <1>1, <1>17 DEF FinishFinalize
<1>18. QED
  BY <1>4, <1>5, <1>6, <1>7, <1>8, <1>9, <1>10, <1>11, <1>12, <1>14, <1>15, <1>16, <1>17
  DEF Next, ProducerStep, RepeaterStep

\* Once a majority has missed a block, or ends in one that the producer lost in
\* a torn save, the producer saves no block any more, whoever is restarted.
THEOREM TheChainEnds == Spec => ChainEnds
<1>1. ProposedInv /\ ProposedInv' /\ [Next]_vars => [Ended => Ended' /\ saved' = saved]_vars
  BY EndedStep
<1>2. QED
  BY ProposedInit, ProposedStep, <1>1, PTL DEF Spec, ChainEnds
-----------------------------------------------------------------------------
(***************************************************************************)
(* One hash chain.  Each block names the hash of the one before it, which  *)
(* covers that block's signatures too; add_block compares the two, _load   *)
(* never does.                                                             *)
(***************************************************************************)
Links(a, b) == b.prev = Hash(a) /\ b.num = a.num + 1

LinkedChain(s) ==
  /\ s[1] = Genesis
  /\ \A i \in 1 .. Len(s) - 1 : Links(s[i], s[i + 1])

ProducerLinked == LinkedChain(chain) /\ LinkedChain(saved)

LinkedInv == TypeInv /\ ProducerLinked

LEMMA AppendLinks ==
  ASSUME NEW s \in Seq(Block), Len(s) > 0, LinkedChain(s), NEW b \in Block,
         Extends(b, s)
  PROVE  LinkedChain(Append(s, b))
<1>1. PICK t : t = Append(s, b)
  OBVIOUS
<1>2. /\ Len(t) = Len(s) + 1 /\ t[Len(s) + 1] = b /\ Len(s) \in Nat
      /\ \A i \in 1 .. Len(s) : t[i] = s[i]
  BY <1>1
<1>3. t[1] = Genesis
  BY <1>2 DEF LinkedChain
<1>4. ASSUME NEW i \in 1 .. Len(t) - 1 PROVE Links(t[i], t[i + 1])
  <2>1. CASE i = Len(s)
    <3>1. Links(s[Len(s)], b)
      BY DEF Extends, Last, Links
    <3> QED
      BY <1>2, <2>1, <3>1
  <2>2. CASE i # Len(s)
    <3>1. i \in 1 .. Len(s) - 1 /\ i \in 1 .. Len(s) /\ i + 1 \in 1 .. Len(s)
      BY <1>2, <2>2
    <3>2. t[i] = s[i] /\ t[i + 1] = s[i + 1]
      BY <1>2, <3>1
    <3> QED
      BY <3>1, <3>2 DEF LinkedChain
  <2> QED
    BY <2>1, <2>2
<1> QED
  BY <1>1, <1>3, <1>4 DEF LinkedChain

LEMMA GenesisLinked == LinkedChain(<<Genesis>>)
BY GenesisBlock DEF LinkedChain

LEMMA LinkedStep == LinkedInv /\ [Next]_vars => LinkedInv'
<1> SUFFICES ASSUME LinkedInv, [Next]_vars PROVE LinkedInv'
  OBVIOUS
<1> USE DEF LinkedInv, ProducerLinked
<1>1. TypeInv'
  BY TypeStep
<1>2. /\ chain \in Seq(Block) /\ Len(chain) > 0 /\ collected \subseteq Repeaters
      /\ saved \in Seq(Block) /\ Len(saved) > 0
  BY DEF TypeInv, TypeOK, NonEmpty
<1>3. ASSUME UNCHANGED <<chain, saved>> PROVE LinkedInv'
  BY <1>1, <1>3 DEF LinkedChain
<1>4. CASE Finalize
  <2>1. PICK b : b = FromProposal(current, collected)
    OBVIOUS
  <2>2. b \in Block
    BY <1>2, <2>1, FromProposalBlock, NoProposalIsProposal DEF TypeInv, TypeOK
  <2>3. Extends(b, chain) /\ chain' = Append(chain, b) /\ saved' = saved
    BY <1>4, <2>1 DEF Finalize, CanFinalize, AddBlockOK
  <2>4. LinkedChain(Append(chain, b))
    BY <1>2, <2>2, <2>3, AppendLinks
  <2> QED
    BY <1>1, <2>3, <2>4
<1>5. CASE FinishFinalize
  BY <1>1, <1>5 DEF FinishFinalize
<1>6. CASE ProducerCrash
  <2>1. saved' = saved \/ saved' = <<Genesis>>
    BY <1>2, <1>6, AfterCrashBlocks DEF ProducerCrash
  <2>2. chain' = saved'
    BY <1>6 DEF ProducerCrash
  <2> QED
    BY <1>1, <2>1, <2>2, GenesisLinked
<1>7. CASE StartAttempt \/ ReceiveSignature \/ FailAttempt
  BY <1>3, <1>7 DEF StartAttempt, ReceiveSignature, FailAttempt
<1>8. CASE \E r \in Repeaters : SendFinalized(r)
  BY <1>3, <1>8 DEF SendFinalized
<1>9. ASSUME NEW r \in Repeaters, RepeaterStep(r) \/ RepeaterCrash(r)
      PROVE  LinkedInv'
  BY <1>3, <1>9 DEF RepeaterStep, HandleProposal, HandleFinalized, AppendBlock,
     OpenFile, SaveBlock, RepeaterRestart, Refuse, Discard, RepeaterCrash, prodVars
<1>10. CASE Lose \/ UNCHANGED vars
  BY <1>3, <1>10 DEF Lose, Discard, vars, prodVars
<1> QED
  BY <1>4, <1>5, <1>6, <1>7, <1>8, <1>9, <1>10 DEF Next, ProducerStep

\* The producer's chain, in memory and in its file, is one chain of hashes
\* from the genesis block on, through failed attempts, crashes and torn saves.
THEOREM ProducersChainIsLinked == Spec => []ProducerLinked
<1>1. Init => LinkedInv
  BY TypeInit, GenesisLinked DEF Init, LinkedInv, ProducerLinked
<1>2. LinkedInv => ProducerLinked
  BY DEF LinkedInv
<1> QED
  BY <1>1, <1>2, LinkedStep, PTL DEF Spec

\* So are the repeaters' chains, unless a crash has torn the producer's file.
\* (Then two threads that checked blocks of two histories may append both.)
AllLinked ==
  /\ ProducerLinked
  /\ torn \/ \A r \in Repeaters : LinkedChain(mem[r]) /\ LinkedChain(disk[r])

LEMMA PrefixLinked ==
  ASSUME NEW s \in Seq(Block), saved \in Seq(Block), Pre(s), LinkedChain(saved)
  PROVE  LinkedChain(s)
<1>1. Len(s) \in Nat /\ Len(saved) \in Nat /\ 0 < Len(s) /\ Len(s) <= Len(saved)
  BY DEF Pre
<1>2. s[1] = Genesis
  BY <1>1 DEF Pre, LinkedChain
<1>3. ASSUME NEW i \in 1 .. Len(s) - 1 PROVE Links(s[i], s[i + 1])
  <2>1. /\ i \in 1 .. Len(s) /\ i + 1 \in 1 .. Len(s)
        /\ i \in 1 .. Len(saved) - 1
    BY <1>1
  <2>2. s[i] = saved[i] /\ s[i + 1] = saved[i + 1]
    BY <2>1 DEF Pre
  <2> QED
    BY <2>1, <2>2 DEF LinkedChain
<1> QED
  BY <1>2, <1>3 DEF LinkedChain

\* Every chain, in memory or in a file, is linked from genesis on; the
\* repeaters' chains unless a crash has torn the producer's file.
THEOREM AllChainsAreLinked == Spec => []AllLinked
<1>1. PrefixInv /\ ProducerLinked => AllLinked
  <2> SUFFICES ASSUME PrefixInv, ProducerLinked, ~torn, NEW r \in Repeaters
               PROVE  LinkedChain(mem[r]) /\ LinkedChain(disk[r])
    BY DEF AllLinked
  <2>1. /\ saved \in Seq(Block) /\ mem[r] \in Seq(Block) /\ disk[r] \in Seq(Block)
        /\ TypeInv /\ HeldInv(r) /\ Pre(mem[r])
    BY DEF PrefixInv, OneHistoryInv, RepeaterInv, SavedInv, TypeInv, TypeOK
  <2>2. Pre(disk[r])
    BY <2>1, FileIsPrefix
  <2> QED
    BY <2>1, <2>2, PrefixLinked DEF ProducerLinked
<1> QED
  BY <1>1, PrefixInit, PrefixStep, ProducersChainIsLinked, PTL DEF Spec
-----------------------------------------------------------------------------
(***************************************************************************)
(* No session is forgotten.  What finalize_block drops from the queue is   *)
(* what it puts in the block: nothing is added to pending_sessions between *)
(* the proposal and its end, which add_session's lock alone would allow.   *)
(***************************************************************************)
NoSessionForgotten == active \subseteq pending \cup SessionsOf(chain)

KeptInv ==
  /\ TypeInv
  /\ NoSessionForgotten
  /\ pc = "collecting" => stamp \in pending /\ current.sess = pending
  /\ pc = "saving" => stamp \in pending /\ pending \subseteq SessionsOf(chain)
  /\ pc = "broadcasting" => stamp \in SessionsOf(chain)

LEMMA SessionsOfAppend ==
  ASSUME NEW s \in Seq(Block), NEW b \in Block
  PROVE  SessionsOf(Append(s, b)) = SessionsOf(s) \cup b.sess
<1>1. PICK t : t = Append(s, b)
  OBVIOUS
<1>2. /\ DOMAIN t = DOMAIN s \cup {Len(s) + 1}
      /\ t[Len(s) + 1] = b
      /\ \A i \in DOMAIN s : t[i] = s[i]
  BY <1>1
<1>3. ASSUME NEW x PROVE x \in SessionsOf(t) <=> x \in SessionsOf(s) \cup b.sess
  BY <1>2 DEF SessionsOf
<1> QED
  BY <1>1, <1>3

LEMMA KeptStep == KeptInv /\ [Next]_vars => KeptInv'
<1> SUFFICES ASSUME KeptInv, [Next]_vars PROVE KeptInv'
  OBVIOUS
<1> USE DEF KeptInv, NoSessionForgotten
<1>1. TypeInv'
  BY TypeStep
<1>2. /\ chain \in Seq(Block) /\ Len(chain) > 0 /\ collected \subseteq Repeaters
      /\ saved \in Seq(Block) /\ Len(saved) > 0
  BY DEF TypeInv, TypeOK, NonEmpty
<1>3. ASSUME UNCHANGED <<stamp, pc, pending, current, chain, active>> PROVE KeptInv'
  BY <1>1, <1>3 DEF SessionsOf
<1>4. CASE StartAttempt
  <2>1. /\ pc' = "collecting" /\ chain' = chain /\ active' = active
        /\ stamp' = stamp + 1 /\ pending' = pending \cup {stamp + 1}
        /\ current'.sess = pending'
    BY <1>4 DEF StartAttempt
  <2> QED
    BY <1>1, <2>1 DEF SessionsOf
<1>5. CASE Finalize
  <2>1. PICK b : b = FromProposal(current, collected)
    OBVIOUS
  <2>2. b \in Block /\ b.sess = current.sess
    BY <1>2, <2>1, FromProposalBlock, NoProposalIsProposal
       DEF TypeInv, TypeOK, FromProposal
  <2>3. /\ chain' = Append(chain, b) /\ pc' = "saving" /\ pc = "collecting"
        /\ UNCHANGED <<stamp, pending, current, active>>
    BY <1>5, <2>1 DEF Finalize
  <2>4. SessionsOf(chain') = SessionsOf(chain) \cup b.sess
    BY <1>2, <2>2, <2>3, SessionsOfAppend
  <2>5. SessionsOf(chain)' = SessionsOf(chain')
    BY DEF SessionsOf
  <2> QED
    BY <1>1, <2>2, <2>3, <2>4, <2>5
<1>6. CASE FinishFinalize
  <2>1. /\ pc = "saving" /\ pc' = "broadcasting" /\ pending' = {}
        /\ UNCHANGED <<stamp, chain, active>>
    BY <1>6 DEF FinishFinalize
  <2> QED
    BY <1>1, <2>1 DEF SessionsOf
<1>7. CASE FailAttempt \/ \E r \in Repeaters : SendFinalized(r) /\ tosend = {r}
  <2>1. /\ pc' = "idle" /\ active' = active \cup {stamp}
        /\ pc \in {"collecting", "broadcasting"}
        /\ UNCHANGED <<pending, chain>>
    BY <1>7 DEF FailAttempt, SendFinalized
  <2> QED
    BY <1>1, <2>1 DEF SessionsOf
<1>8. CASE ProducerCrash
  BY <1>1, <1>8 DEF ProducerCrash
<1>9. CASE ReceiveSignature \/ \E r \in Repeaters : SendFinalized(r) /\ tosend # {r}
  BY <1>3, <1>9 DEF ReceiveSignature, SendFinalized
<1>10. ASSUME NEW r \in Repeaters, RepeaterStep(r) \/ RepeaterCrash(r)
       PROVE  KeptInv'
  BY <1>3, <1>10 DEF RepeaterStep, HandleProposal, HandleFinalized, AppendBlock,
     OpenFile, SaveBlock, RepeaterRestart, Refuse, Discard, RepeaterCrash, prodVars
<1>11. CASE Lose \/ UNCHANGED vars
  BY <1>3, <1>11 DEF Lose, Discard, vars, prodVars
<1> QED
  BY <1>4, <1>5, <1>6, <1>7, <1>8, <1>9, <1>10, <1>11 DEF Next, ProducerStep

\* Whatever fails, a session that the producer goes on using is on its chain
\* or waits for the next block.  (After a restart it uses none of them.)
THEOREM SessionsAreKept == Spec => []NoSessionForgotten
<1>1. Init => KeptInv
  BY TypeInit DEF Init, KeptInv, NoSessionForgotten
<1>2. KeptInv => NoSessionForgotten
  BY DEF KeptInv
<1> QED
  BY <1>1, <1>2, KeptStep, PTL DEF Spec
-----------------------------------------------------------------------------
(***************************************************************************)
(* What is in turn is taken.  A repeater refuses a block only if it has    *)
(* missed an earlier one, and an up-to-date repeater signs what is         *)
(* proposed now, so that a repeater's chain and the producer's majority    *)
(* hang on lost messages alone, not on the order in which they arrive.     *)
(***************************************************************************)
InTurnIsTaken ==
  /\ torn \/ \A m \in finals : m.block.num = Len(mem[m.to]) =>
       AddBlockOK(mem[m.to], m.block, RepeaterMinimum(m.block))
  /\ \A m \in proposals :
       pc = "collecting" /\ m.prop.stamp = stamp /\ mem[m.to] = saved =>
         Extends(m.prop, mem[m.to])

\* The signatures of a block are enough for a repeater.
LEMMA MinimumIsMet ==
  ASSUME NEW b \in Block
  PROVE  Cardinality(b.sigs) >= RepeaterMinimum(b)
<1>1. IsFiniteSet(b.sigs)
  <2>1. b.sigs \subseteq Repeaters
    BY DEF Block
  <2> QED
    BY <2>1, RepeatersAssumption, FS_Subset
<1>2. Cardinality(b.sigs) \in Nat
  BY <1>1, FS_CardinalityType
<1> QED
  BY <1>2 DEF RepeaterMinimum

\* What is proposed now extends the producer's chain.
ProposesNext == pc = "collecting" => Extends(current, chain)

LEMMA ProposesStep == ProposesNext /\ [Next]_vars => ProposesNext'
<1> SUFFICES ASSUME ProposesNext, [Next]_vars PROVE ProposesNext'
  OBVIOUS
<1> USE DEF ProposesNext
<1>1. ASSUME UNCHANGED <<pc, current, chain>> \/ pc' # "collecting"
      PROVE  ProposesNext'
  BY <1>1 DEF Extends, Last
<1>2. CASE StartAttempt
  BY <1>2 DEF StartAttempt, Extends, Last
<1>3. CASE Finalize \/ FinishFinalize \/ FailAttempt \/ ProducerCrash
  BY <1>1, <1>3 DEF Finalize, FinishFinalize, FailAttempt, ProducerCrash
<1>4. CASE ReceiveSignature \/ \E r \in Repeaters : SendFinalized(r)
  BY <1>1, <1>4 DEF ReceiveSignature, SendFinalized
<1>5. ASSUME NEW r \in Repeaters, RepeaterStep(r) \/ RepeaterCrash(r)
      PROVE  ProposesNext'
  BY <1>1, <1>5 DEF RepeaterStep, HandleProposal, HandleFinalized, AppendBlock,
     OpenFile, SaveBlock, RepeaterRestart, Refuse, Discard, RepeaterCrash, prodVars
<1>6. CASE Lose \/ UNCHANGED vars
  BY <1>1, <1>6 DEF Lose, Discard, vars, prodVars
<1> QED
  BY <1>2, <1>3, <1>4, <1>5, <1>6 DEF Next, ProducerStep

LEMMA InTurn ==
  ASSUME PrefixInv, ProducerLinked, CopyInv, ProposedInv, ProposesNext
  PROVE  InTurnIsTaken
<1>1. ASSUME ~torn, NEW m \in finals, m.block.num = Len(mem[m.to])
      PROVE  AddBlockOK(mem[m.to], m.block, RepeaterMinimum(m.block))
  <2>1. /\ m.to \in Repeaters /\ m.block \in Block
        /\ mem[m.to] \in Seq(Block) /\ Len(mem[m.to]) > 0 /\ saved \in Seq(Block)
    BY DEF PrefixInv, SavedInv, TypeInv, TypeOK, NonEmpty
  <2>2. Pre(mem[m.to]) /\ InPlace(m.block) /\ LinkedChain(saved)
    BY <1>1, <2>1 DEF PrefixInv, OneHistoryInv, RepeaterInv, FinalsInv, ProducerLinked
  <2>3. PICK n : n = Len(mem[m.to])
    OBVIOUS
  <2>4. n \in 1 .. Len(saved) - 1 /\ m.block = saved[n + 1]
    BY <1>1, <2>2, <2>3 DEF InPlace
  <2>5. Links(saved[n], saved[n + 1])
    BY <2>2, <2>4 DEF LinkedChain
  <2>6. Last(mem[m.to]) = saved[n]
    BY <2>1, <2>2, <2>3, <2>4 DEF Last, Pre
  <2>7. Extends(m.block, mem[m.to])
    BY <2>4, <2>5, <2>6 DEF Links, Extends
  <2> QED
    BY <2>1, <2>7, MinimumIsMet DEF AddBlockOK
<1>2. ASSUME NEW m \in proposals, pc = "collecting", m.prop.stamp = stamp,
             mem[m.to] = saved
      PROVE  Extends(m.prop, mem[m.to])
  <2>1. m.prop = current
    BY <1>2 DEF CopyInv, ProposedInv
  <2>2. chain = saved
    BY <1>2 DEF ProposedInv
  <2> QED
    BY <1>2, <2>1, <2>2 DEF ProposesNext
<1> QED
  BY <1>1, <1>2 DEF InTurnIsTaken

\* A finalised block that is the next one of the repeater it has reached
\* passes every test, unless a crash has torn the producer's file, and so does
\* the present proposal at a repeater that is up to date.
THEOREM NothingInTurnIsRefused == Spec => []InTurnIsTaken
<1>1. Init => ProposesNext
  BY DEF Init, ProposesNext
<1> QED
  BY <1>1, InTurn, PrefixInit, PrefixStep, ProducersChainIsLinked, CopyInit, CopyStep,
     ProposedInit, ProposedStep, ProposesStep, PTL DEF Spec

\* What keeps the next block of r on its way.
LEMMA ComingQuiet ==
  ASSUME NEW r \in Repeaters, NextIsComing(r), mem'[r] = mem[r],
         \A m \in finals : m.to = r => m \in finals',
         \A t \in threads[r] : \E u \in threads'[r] : u.block = t.block,
         r \in tosend => r \in tosend' /\ chain' = chain
  PROVE  NextIsComing(r)'
BY DEF NextIsComing, Last

LEMMA ComingStep ==
  ASSUME PrefixInv, CopyInv, InTurnIsTaken, [Next]_vars, NEW r \in Repeaters,
         up[r], NextIsComing(r), faults' = faults, ~torn
  PROVE  NextIsComing(r)' \/ Len(mem'[r]) > Len(mem[r])
<1>1. /\ mem \in [Repeaters -> Seq(Block)] /\ up \in [Repeaters -> BOOLEAN]
      /\ threads \in [Repeaters -> SUBSET Handler] /\ faults \in Nat
      /\ mem[r] \in Seq(Block) /\ Len(mem[r]) \in Nat
  BY DEF PrefixInv, SavedInv, TypeInv, TypeOK
<1>2. RepeaterInv(r) /\ FinalsInv
  BY DEF PrefixInv, OneHistoryInv
<1>3. ASSUME mem'[r] = mem[r], threads'[r] = threads[r],
             \A m \in finals : m.to = r => m \in finals',
             r \in tosend => r \in tosend' /\ chain' = chain
      PROVE  NextIsComing(r)'
  BY <1>3, ComingQuiet
<1>4. ASSUME mem'[r] = mem[r], finals \subseteq finals', UNCHANGED <<tosend, chain>>,
             \A t \in threads[r] : t.block.num = Len(mem[r]) => 
               \E u \in threads'[r] : u.block = t.block
      PROVE  NextIsComing(r)'
  BY <1>4 DEF NextIsComing, Last
<1>5. CASE StartAttempt \/ ReceiveSignature \/ FailAttempt
  BY <1>3, <1>5 DEF StartAttempt, ReceiveSignature, FailAttempt, repVars, netVars
<1>6. CASE Finalize \/ FinishFinalize
  <2>1. UNCHANGED <<mem, threads, finals>> /\ pc # "broadcasting"
    BY <1>6 DEF Finalize, FinishFinalize, repVars, netVars
  <2>2. tosend = {}
    BY <2>1 DEF CopyInv
  <2>3. QED
    BY <1>3, <2>1, <2>2
<1>7. ASSUME NEW q \in Repeaters, SendFinalized(q) PROVE NextIsComing(r)'
  <2> DEFINE m == [to |-> q, block |-> Last(chain)]
  <2>1. /\ tosend' = tosend \ {q} /\ finals' = finals \cup {m}
        /\ UNCHANGED <<chain, mem, threads>>
    BY <1>7 DEF SendFinalized, repVars
  <2>2. m.to = q /\ m.block = Last(chain)
    OBVIOUS
  <2> HIDE DEF m
  <2>3. CASE r # q
    BY <1>3, <2>1, <2>3
  <2>4. CASE r = q
    BY <2>1, <2>2, <2>4 DEF NextIsComing
  <2>5. QED
    BY <2>3, <2>4
<1>8. ASSUME NEW q \in Repeaters, HandleFinalized(q) PROVE NextIsComing(r)'
  <2>1. PICK m \in finals :
          /\ m.to = q /\ finals' = finals \ {m}
          /\ IF AddBlockOK(mem[q], m.block, RepeaterMinimum(m.block))
             THEN threads' = [threads EXCEPT ![q] = @ \cup
                    {[block |-> m.block, at |-> "checked", copied |-> 0]}]
             ELSE UNCHANGED threads
    BY <1>8 DEF HandleFinalized
  <2>2. UNCHANGED <<mem, tosend, chain>>
    BY <1>8 DEF HandleFinalized, prodVars
  <2>3. threads[r] \subseteq threads'[r]
    BY <1>1, <2>1
  <2>4. CASE q = r /\ m.block.num = Len(mem[r])
    <3>1. AddBlockOK(mem[q], m.block, RepeaterMinimum(m.block))
      BY <2>1, <2>4 DEF InTurnIsTaken
    <3> DEFINE u == [block |-> m.block, at |-> "checked", copied |-> 0]
    <3>2. u.block = m.block
      OBVIOUS
    <3> HIDE DEF u
    <3>3. u \in threads'[r]
      BY <1>1, <2>1, <2>4, <3>1 DEF u
    <3>4. QED
      BY <2>2, <2>4, <3>2, <3>3 DEF NextIsComing
  <2>5. CASE ~(q = r /\ m.block.num = Len(mem[r]))
    BY <2>1, <2>2, <2>3, <2>5 DEF NextIsComing, Last
  <2>6. QED
    BY <2>4, <2>5
<1>9. ASSUME NEW q \in Repeaters, AppendBlock(q)
      PROVE  NextIsComing(r)' \/ Len(mem'[r]) > Len(mem[r])
  <2>1. PICK t \in threads[q] :
          /\ mem' = [mem EXCEPT ![q] = Append(@, t.block)]
          /\ threads' = [threads EXCEPT ![q] = (@ \ {t}) \cup
               {[block |-> t.block, at |-> "appended", copied |-> Len(mem'[q])]}]
    BY <1>9 DEF AppendBlock
  <2>2. UNCHANGED <<tosend, chain, finals>>
    BY <1>9 DEF AppendBlock, prodVars, netVars
  <2>3. CASE q # r
    BY <1>1, <1>3, <2>1, <2>2, <2>3
  <2>4. CASE q = r
    <3>1. t.block \in Block
      BY <1>1, <2>4 DEF Handler
    <3>2. Len(mem'[r]) = Len(mem[r]) + 1
      BY <1>1, <2>1, <2>4, <3>1, AppendToChain
    <3>3. QED
      BY <1>1, <3>2
  <2>5. QED
    BY <2>3, <2>4
<1>10. ASSUME NEW q \in Repeaters, OpenFile(q) PROVE NextIsComing(r)'
  <2>1. PICK t \in threads[q] :
          threads' = [threads EXCEPT ![q] = (@ \ {t}) \cup {[t EXCEPT !.at = "writing"]}]
    BY <1>10 DEF OpenFile
  <2>2. UNCHANGED <<mem, tosend, chain, finals>>
    BY <1>10 DEF OpenFile, prodVars, netVars
  <2> DEFINE u == [t EXCEPT !.at = "writing"]
  <2>3. u.block = t.block
    <3>1. t \in Handler
      BY <1>1
    <3>2. QED
      BY <3>1 DEF Handler
  <2> HIDE DEF u
  <2>4. threads'[r] = threads[r] \/ (q = r /\ threads'[r] = (threads[r] \ {t}) \cup {u})
    BY <1>1, <2>1 DEF u
  <2>5. \A v \in threads[r] : \E w \in threads'[r] : w.block = v.block
    BY <2>3, <2>4
  <2>6. QED
    BY <1>4, <2>2, <2>5
<1>11. ASSUME NEW q \in Repeaters, SaveBlock(q) PROVE NextIsComing(r)'
  <2>1. PICK t \in threads[q] : t.at = "writing" /\ threads' = [threads EXCEPT ![q] = @ \ {t}]
    BY <1>11 DEF SaveBlock
  <2>2. UNCHANGED <<mem, tosend, chain, finals>>
    BY <1>11 DEF SaveBlock, prodVars, netVars
  <2>3. ASSUME NEW v \in threads[r], v.block.num = Len(mem[r]) PROVE v \in threads'[r]
    <3>1. CASE q # r
      BY <1>1, <2>1, <3>1
    <3>2. CASE q = r
      <4>1. t.block.num < Len(mem[r]) /\ t.block.num \in Int
        BY <1>2, <2>1, <3>2 DEF RepeaterInv, InPlace
      <4>2. v # t
        BY <1>1, <2>3, <4>1
      <4>3. QED
        BY <1>1, <2>1, <3>2, <4>2
    <3>3. QED
      BY <3>1, <3>2
  <2>4. QED
    BY <1>4, <2>2, <2>3
<1>12. ASSUME NEW q \in Repeaters, Refuse(q) PROVE NextIsComing(r)'
  <2>1. PICK m : m.to = q /\ finals' = finals \ {m} /\ ~up[q]
    BY <1>12 DEF Refuse, Discard
  <2>2. q # r
    BY <2>1
  <2>3. \A w \in finals : w.to = r => w \in finals'
    BY <2>1, <2>2
  <2>4. UNCHANGED <<mem, threads, tosend, chain>>
    BY <1>12 DEF Refuse, Discard, prodVars, repVars
  <2>5. QED
    BY <1>3, <2>3, <2>4
<1>13. ASSUME NEW q \in Repeaters, HandleProposal(q) \/ RepeaterRestart(q)
       PROVE  NextIsComing(r)'
  BY <1>3, <1>13 DEF HandleProposal, RepeaterRestart, prodVars, netVars
<1>14. CASE UNCHANGED vars
  BY <1>3, <1>14 DEF vars, prodVars, repVars, netVars
<1>15. ASSUME ProducerCrash \/ Lose \/ \E q \in Repeaters : RepeaterCrash(q) PROVE FALSE
  <2>1. faults' = faults + 1
    BY <1>15 DEF ProducerCrash, Lose, RepeaterCrash
  <2>2. QED
    BY <1>1, <2>1
<1>16. QED
  BY <1>5, <1>6, <1>7, <1>8, <1>9, <1>10, <1>11, <1>12, <1>13, <1>14, <1>15
  DEF Next, ProducerStep, RepeaterStep

\* The block a repeater needs next stays on its way until it is appended, as
\* long as nothing crashes, no connection fails and the producer has not lost
\* its chain: no order of arrival and no interleaving of handlers drops it.
THEOREM NextBlockArrives == Spec => NextIsNeverRefused
<1>1. Init => ProposesNext
  BY DEF Init, ProposesNext
<1>2. PrefixInv /\ CopyInv /\ InTurnIsTaken /\ [Next]_vars =>
        [\A r \in Repeaters :
           up[r] /\ NextIsComing(r) /\ faults' = faults /\ ~torn
             => NextIsComing(r)' \/ Len(mem'[r]) > Len(mem[r])]_vars
  BY ComingStep
<1>3. QED
  BY <1>1, <1>2, NothingInTurnIsRefused, PrefixInit, PrefixStep, CopyInit, CopyStep,
     PTL DEF Spec, NextIsNeverRefused
=============================================================================
