------------------------- MODULE SessionCacheProofs -------------------------
(* Proofs about SessionCache and about CachedPath, the node around it, for   *)
(* any finite set of sessions, any capacity of at least one entry, any       *)
(* timeout and any packets.                                                  *)
EXTENDS CachedPath, FiniteSetTheorems, TLAPS

LEMMA CachedFinite ==
  ASSUME NEW S \in SUBSET Sids
  PROVE  IsFiniteSet(S) /\ Cardinality(S) \in Nat
BY FiniteAssumption, FS_Subset, FS_CardinalityType

\* Every operation but add_session and clear drops entries, or none.
Drops == \/ \E gone \in SUBSET Sids : Drop(gone)
         \/ UNCHANGED <<cached, byNode>>

LEMMA StepKinds ==
  ASSUME TypeOK, [Next]_vars
  PROVE  \/ \E s \in Sids : AddSession(s)
         \/ \E stop \in BOOLEAN : Clear(stop)
         \/ Drops
<1>1. ASSUME NEW s \in Sids, GetSession(s) \/ RemoveSession(s) PROVE Drops
  <2>1. {s} \in SUBSET Sids
    OBVIOUS
  <2> QED
    BY <1>1, <2>1 DEF GetSession, RemoveSession, Drops
<1>2. ASSUME NEW n \in Nodes, GetSessionsForNode(n) PROVE Drops
  <2>1. {s \in byNode[n] : s \notin cached \/ Expired(s)} \in SUBSET Sids
    BY DEF TypeOK
  <2> QED
    BY <1>2, <2>1 DEF GetSessionsForNode, Drops
<1>3. ASSUME CleanupExpired PROVE Drops
  <2>1. {s \in cached : Expired(s)} \in SUBSET Sids
    BY DEF TypeOK
  <2> QED
    BY <1>3, <2>1 DEF CleanupExpired, Drops
<1>4. CASE Tick \/ UNCHANGED vars
  BY <1>4 DEF Tick, vars, Drops
<1> QED
  BY <1>1, <1>2, <1>3, <1>4 DEF Next

LEMMA EvictedAreCached ==
  ASSUME TypeOK, NEW gone \in Evicted
  PROVE  gone \in SUBSET cached
BY DEF Evicted, LeastRecent

LEMMA KeptTypes ==
  ASSUME TypeOK, NEW stay
  PROVE  /\ Kept(age, stay) \in [Sids -> 0 .. Timeout + 1]
         /\ Kept(idle, stay) \in [Sids -> 0 .. Timeout + 1]
<1>1. 0 \in 0 .. Timeout + 1
  BY CacheAssumption
<1> QED
  BY <1>1 DEF TypeOK, Kept

LEMMA TypeInit == Init => TypeOK
BY CacheAssumption DEF Init, TypeOK

LEMMA TypeStep == TypeOK /\ [Next]_vars => TypeOK'
<1> SUFFICES ASSUME TypeOK, [Next]_vars PROVE TypeOK'
  OBVIOUS
<1> USE CacheAssumption DEF TypeOK
<1>1. ASSUME NEW gone \in SUBSET Sids
      PROVE  /\ Without(gone) \subseteq Sids
             /\ IndexWithout(gone) \in [Nodes -> SUBSET Sids]
  BY DEF Without, IndexWithout
<1>2. ASSUME NEW gone \in SUBSET Sids, Drop(gone) PROVE TypeOK'
  BY <1>1, <1>2, KeptTypes DEF Drop
<1>3. ASSUME NEW s \in Sids, AddSession(s) PROVE TypeOK'
  <2>1. PICK gone \in Evicted :
          /\ cached' = Without(gone) \cup {s}
          /\ byNode' = [IndexWithout(gone) EXCEPT ![NodeOf[s]] = @ \cup {s}]
          /\ age' = Kept(age, Without(gone) \ {s})
          /\ idle' = Kept(idle, Without(gone) \ {s})
    BY <1>3 DEF AddSession
  <2>2. gone \in SUBSET Sids
    BY <2>1, EvictedAreCached
  <2>3. cached' \subseteq Sids /\ byNode' \in [Nodes -> SUBSET Sids]
    BY <1>1, <2>1, <2>2, NodeOfAssumption
  <2>4. /\ age' \in [Sids -> 0 .. Timeout + 1]
        /\ idle' \in [Sids -> 0 .. Timeout + 1]
    BY <2>1, KeptTypes
  <2> QED
    BY <1>3, <2>3, <2>4 DEF AddSession
<1>4. ASSUME NEW s \in Sids, GetSession(s) PROVE TypeOK'
  <2>1. CASE Drop({s})
    BY <1>2, <2>1
  <2>2. CASE idle' = [idle EXCEPT ![s] = 0]
             /\ UNCHANGED <<cached, byNode, age, running>>
    BY <2>2
  <2> QED
    BY <1>4, <2>1, <2>2 DEF GetSession
<1>5. ASSUME NEW s \in Sids, RemoveSession(s) PROVE TypeOK'
  BY <1>2, <1>5 DEF RemoveSession
<1>6. ASSUME NEW n \in Nodes, GetSessionsForNode(n) PROVE TypeOK'
  BY <1>2, <1>6 DEF GetSessionsForNode
<1>7. ASSUME CleanupExpired PROVE TypeOK'
  BY <1>2, <1>7 DEF CleanupExpired
<1>8. ASSUME NEW stop \in BOOLEAN, Clear(stop) PROVE TypeOK'
  BY <1>8, KeptTypes DEF Clear
<1>9. ASSUME Tick PROVE TypeOK'
  <2>1. age' \in [Sids -> 0 .. Timeout + 1]
    BY <1>9 DEF Tick, Expired
  <2>2. idle' \in [Sids -> 0 .. Timeout + 1]
    BY <1>9 DEF Tick
  <2> QED
    BY <1>9, <2>1, <2>2 DEF Tick
<1>10. CASE UNCHANGED vars
  BY <1>10 DEF vars
<1> QED
  BY <1>3, <1>4, <1>5, <1>6, <1>7, <1>8, <1>9, <1>10 DEF Next

THEOREM TypeCorrect == Spec => []TypeOK
BY TypeInit, TypeStep, PTL DEF Spec
-----------------------------------------------------------------------------
LEMMA AddOne ==
  ASSUME NEW S, IsFiniteSet(S), NEW x
  PROVE  /\ Cardinality(S) \in Nat
         /\ Cardinality(S \cup {x}) \in Nat
         /\ Cardinality(S \cup {x}) <= Cardinality(S) + 1
<1>1. Cardinality(S) \in Nat
  BY FS_CardinalityType
<1>2. CASE x \in S
  <2>1. S \cup {x} = S
    BY <1>2
  <2> QED
    BY <1>1, <2>1
<1>3. CASE x \notin S
  <2>1. Cardinality(S \cup {x}) = Cardinality(S) + 1
    BY <1>3, FS_AddElement
  <2> QED
    BY <1>1, <2>1
<1> QED
  BY <1>2, <1>3

(* The table never holds more than max_sessions entries. *)
THEOREM CapacityNeverExceeded == Spec => []CapacityKept
<1>1. Init => CapacityKept
  BY FS_EmptySet, CacheAssumption DEF Init, CapacityKept
<1>2. TypeOK /\ CapacityKept /\ [Next]_vars => CapacityKept'
  <2> SUFFICES ASSUME TypeOK, CapacityKept, [Next]_vars PROVE CapacityKept'
    OBVIOUS
  <2> USE CacheAssumption
  <2>1. IsFiniteSet(cached) /\ Cardinality(cached) \in Nat
    BY CachedFinite DEF TypeOK
  <2>2. CASE \E s \in Sids : AddSession(s)
    <3>1. PICK s \in Sids, gone \in Evicted : cached' = Without(gone) \cup {s}
      BY <2>2 DEF AddSession
    <3>2. CASE Cardinality(cached) >= Capacity
      <4>1. PICK e \in cached : gone = {e}
        BY <3>1, <3>2 DEF Evicted, LeastRecent
      <4> DEFINE rest == cached \ {e}
      <4>2. /\ IsFiniteSet(rest)
            /\ Cardinality(rest) = Cardinality(cached) - 1
        BY <2>1, <4>1, FS_RemoveElement
      <4>3. cached' = rest \cup {s}
        BY <3>1, <4>1 DEF Without
      <4> HIDE DEF rest
      <4>4. /\ Cardinality(rest \cup {s}) \in Nat
            /\ Cardinality(rest \cup {s}) <= Cardinality(rest) + 1
        BY <4>2, AddOne
      <4> QED
        BY <2>1, <4>2, <4>3, <4>4 DEF CapacityKept
    <3>3. CASE ~(Cardinality(cached) >= Capacity)
      <4>1. cached' = cached \cup {s}
        BY <3>1, <3>3 DEF Evicted, Without
      <4>2. /\ Cardinality(cached \cup {s}) \in Nat
            /\ Cardinality(cached \cup {s}) <= Cardinality(cached) + 1
        BY <2>1, AddOne
      <4> QED
        BY <2>1, <3>3, <4>1, <4>2 DEF CapacityKept
    <3> QED
      BY <3>2, <3>3
  <2>3. CASE \E stop \in BOOLEAN : Clear(stop)
    BY <2>3, FS_EmptySet DEF Clear, CapacityKept
  <2>4. CASE Drops
    <3>1. cached' \subseteq cached
      BY <2>4 DEF Drops, Drop, Without
    <3>2. Cardinality(cached') <= Cardinality(cached)
      BY <2>1, <3>1, FS_Subset
    <3>3. Cardinality(cached') \in Nat
      BY <2>1, <3>1, FS_Subset, FS_CardinalityType
    <3> QED
      BY <2>1, <3>2, <3>3 DEF CapacityKept
  <2> QED
    BY <2>2, <2>3, <2>4, StepKinds
<1> QED
  BY <1>1, <1>2, TypeCorrect, PTL DEF Spec
(* A live session leaves the table only when it is full, or on request. *)
THEOREM LiveSessionsAreKept == Spec => LiveSessionsStay
<1> DEFINE Leaves(s) == \/ Cardinality(cached) = Capacity
                        \/ RemoveSession(s)
                        \/ \E stop \in BOOLEAN : Clear(stop)
<1>1. TypeOK /\ CapacityKept /\ [Next]_vars
        => [\A s \in cached : ~Expired(s) /\ s \notin cached' => Leaves(s)]_vars
  <2> SUFFICES ASSUME TypeOK, CapacityKept, Next, NEW s \in cached,
                      ~Expired(s), s \notin cached'
               PROVE  Leaves(s)
    BY DEF vars
  <2>1. ASSUME NEW t \in Sids, AddSession(t) PROVE Leaves(s)
    <3>1. PICK gone \in Evicted : cached' = Without(gone) \cup {t}
      BY <2>1 DEF AddSession
    <3>2. Cardinality(cached) >= Capacity
      BY <3>1 DEF Evicted, Without
    <3>3. Cardinality(cached) \in Nat
      BY CachedFinite DEF TypeOK
    <3> QED
      BY <3>2, <3>3, CacheAssumption DEF CapacityKept
  <2>2. ASSUME NEW t \in Sids, GetSession(t) PROVE FALSE
    BY <2>2 DEF GetSession, Drop, Without
  <2>3. ASSUME NEW t \in Sids, RemoveSession(t) PROVE Leaves(s)
    BY <2>3 DEF RemoveSession, Drop, Without
  <2>4. ASSUME NEW n \in Nodes, GetSessionsForNode(n) PROVE FALSE
    BY <2>4 DEF GetSessionsForNode, Drop, Without
  <2>5. CASE CleanupExpired
    BY <2>5 DEF CleanupExpired, Drop, Without
  <2>6. CASE Tick
    BY <2>6 DEF Tick
  <2> QED
    BY <2>1, <2>2, <2>3, <2>4, <2>5, <2>6 DEF Next
<1> QED
  BY <1>1, TypeCorrect, CapacityNeverExceeded, PTL DEF Spec, LiveSessionsStay
-----------------------------------------------------------------------------
LEMMA WithoutKeepsExact ==
  ASSUME TypeOK, IndexExact, NEW gone \in SUBSET Sids, NEW n \in Nodes
  PROVE  IndexWithout(gone)[n] = {s \in Without(gone) : NodeOf[s] = n}
BY DEF IndexWithout, Without, IndexExact, TypeOK

(* The index by node and the table always agree. *)
THEOREM IndexAlwaysExact == Spec => []IndexExact
<1>1. Init => IndexExact
  BY DEF Init, IndexExact
<1>2. TypeOK /\ IndexExact /\ [Next]_vars => IndexExact'
  <2> SUFFICES ASSUME TypeOK, IndexExact, [Next]_vars PROVE IndexExact'
    OBVIOUS
  <2>1. CASE \E s \in Sids : AddSession(s)
    <3>1. PICK s \in Sids, gone \in Evicted :
            /\ cached' = Without(gone) \cup {s}
            /\ byNode' = [IndexWithout(gone) EXCEPT ![NodeOf[s]] = @ \cup {s}]
      BY <2>1 DEF AddSession
    <3>2. gone \in SUBSET Sids
      BY <3>1, EvictedAreCached DEF TypeOK
    <3>3. SUFFICES ASSUME NEW n \in Nodes
                   PROVE  byNode'[n] = {t \in cached' : NodeOf[t] = n}
      BY DEF IndexExact
    <3>4. IndexWithout(gone)[n] = {t \in Without(gone) : NodeOf[t] = n}
      BY <3>2, WithoutKeepsExact
    <3>5. byNode'[n] = IF n = NodeOf[s] THEN IndexWithout(gone)[n] \cup {s}
                                        ELSE IndexWithout(gone)[n]
      BY <3>1, NodeOfAssumption DEF IndexWithout
    <3> QED
      BY <3>1, <3>4, <3>5
  <2>2. CASE \E stop \in BOOLEAN : Clear(stop)
    BY <2>2 DEF Clear, IndexExact
  <2>3. CASE Drops
    <3>1. CASE UNCHANGED <<cached, byNode>>
      BY <3>1 DEF IndexExact
    <3>2. CASE \E gone \in SUBSET Sids : Drop(gone)
      <4>1. PICK gone \in SUBSET Sids : Drop(gone)
        BY <3>2
      <4> QED
        BY <4>1, WithoutKeepsExact DEF Drop, IndexExact
    <3> QED
      BY <2>3, <3>1, <3>2 DEF Drops
  <2> QED
    BY <2>1, <2>2, <2>3, StepKinds
<1> QED
  BY <1>1, <1>2, TypeCorrect, PTL DEF Spec
-----------------------------------------------------------------------------
(* The node around the cache.                                                *)

(* Every step of the node is a step of its cache, or leaves the cache alone. *)
LEMMA PathStepIsCacheStep == PathTypeOK /\ [PathNext]_pathVars => [Next]_vars
<1> SUFFICES ASSUME PathTypeOK, [PathNext]_pathVars PROVE [Next]_vars
  OBVIOUS
<1>1. \A p \in Packets : SidOf[p] \in Sids
  BY SidOfAssumption
<1>2. ASSUME NEW s \in Sids, CacheSession(s) PROVE Next
  BY <1>2 DEF CacheSession, Next
<1>3. ASSUME NEW p \in Packets, Arrive(p) \/ LoadRecord(p) PROVE UNCHANGED vars
  BY <1>3 DEF Arrive, LoadRecord
<1>4. ASSUME NEW p \in Packets, FirstLook(p) \/ SecondLook(p) PROVE [Next]_vars
  <2>1. LookUp(SidOf[p])
    BY <1>4 DEF FirstLook, SecondLook
  <2> QED
    BY <1>1, <2>1 DEF LookUp, Next
<1>5. ASSUME NEW p \in Packets, AddBack(p) PROVE Next
  BY <1>1, <1>5 DEF AddBack, Next
<1>6. ASSUME RestartNode PROVE Next
  BY <1>6 DEF RestartNode, Next
<1>7. CASE StoreBlock \/ PassTime \/ CleanUp \/ UNCHANGED pathVars
  BY <1>7 DEF StoreBlock, PassTime, CleanUp, pathVars, Next
<1> QED
  BY <1>2, <1>3, <1>4, <1>5, <1>6, <1>7 DEF PathNext, PacketThread

(* The variables the threads add.                                            *)
ThreadTypes ==
  /\ chain \subseteq Sids /\ caching \subseteq Sids
  /\ at \in [Packets -> InHand \cup {"new", "passed", "refused", "lost"}]
  /\ waited \in [Packets -> 0 .. Timeout + 1]

LEMMA ThreadTypesStep == ThreadTypes /\ [PathNext]_pathVars => ThreadTypes'
<1> SUFFICES ASSUME ThreadTypes, [PathNext]_pathVars PROVE ThreadTypes'
  OBVIOUS
<1> USE CacheAssumption DEF ThreadTypes, InHand
<1>1. ASSUME NEW p \in Packets, Arrive(p) \/ LoadRecord(p) \/ AddBack(p) \/ FirstLook(p)
      PROVE  ThreadTypes'
  BY <1>1 DEF Arrive, LoadRecord, AddBack, FirstLook, Goes
<1>2. ASSUME NEW p \in Packets, SecondLook(p) PROVE ThreadTypes'
  BY <1>2 DEF SecondLook, Goes
<1>3. CASE StoreBlock
  BY <1>3 DEF StoreBlock
<1>4. ASSUME NEW s \in Sids, CacheSession(s) PROVE ThreadTypes'
  BY <1>4 DEF CacheSession
<1>5. CASE PassTime
  BY <1>5 DEF PassTime
<1>6. CASE CleanUp \/ UNCHANGED pathVars
  BY <1>6 DEF CleanUp, pathVars
<1>7. CASE RestartNode
  BY <1>7 DEF RestartNode
<1> QED
  BY <1>1, <1>2, <1>3, <1>4, <1>5, <1>6, <1>7 DEF PathNext, PacketThread

LEMMA PathTypeStep == PathTypeOK /\ [PathNext]_pathVars => PathTypeOK'
<1>1. PathTypeOK <=> TypeOK /\ ThreadTypes
  BY DEF PathTypeOK, ThreadTypes
<1>2. PathTypeOK' <=> TypeOK' /\ ThreadTypes'
  BY DEF PathTypeOK, ThreadTypes
<1> QED
  BY <1>1, <1>2, PathStepIsCacheStep, TypeStep, ThreadTypesStep

LEMMA PathTypeInit == PathInit => PathTypeOK
BY TypeInit, CacheAssumption DEF PathInit, PathTypeOK, InHand

(* Cache, chain and threads of the node keep their types. *)
THEOREM PathTypeCorrect == PathSpec => []PathTypeOK
BY PathTypeInit, PathTypeStep, PTL DEF PathSpec
-----------------------------------------------------------------------------
\* A thread that waits between AddBack and SecondLook finds an entry no older
\* than its wait, or the entry had to go.
Held(p) ==
  IF SidOf[p] \in cached THEN age[SidOf[p]] <= waited[p]
                         ELSE Crowded \/ waited[p] > Timeout

OnChain ==
  /\ CachedOnChain /\ caching \subseteq chain
  /\ \A p \in Packets : at[p] \in {"found", "added"} => SidOf[p] \in chain

NodeInv ==
  /\ PathTypeOK /\ OnChain
  /\ \A p \in Packets : at[p] = "added" => Held(p)

LEMMA EvictedFromCrowd ==
  ASSUME TypeOK, chain \subseteq Sids, CachedOnChain, NEW gone \in Evicted, gone # {}
  PROVE  Crowded
<1>1. Cardinality(cached) >= Capacity
  BY DEF Evicted
<1>2. IsFiniteSet(chain) /\ Cardinality(chain) \in Nat /\ Cardinality(cached) \in Nat
  BY CachedFinite DEF TypeOK
<1>3. Cardinality(cached) <= Cardinality(chain)
  BY <1>2, FS_Subset DEF CachedOnChain
<1> QED
  BY <1>1, <1>2, <1>3, CacheAssumption DEF Crowded

LEMMA CrowdStays ==
  ASSUME chain \subseteq chain', chain' \subseteq Sids, Crowded
  PROVE  Crowded'
<1>1. IsFiniteSet(chain') /\ Cardinality(chain') \in Nat /\ Cardinality(chain) \in Nat
  BY CachedFinite
<1>2. Cardinality(chain) <= Cardinality(chain')
  BY <1>1, FS_Subset
<1> QED
  BY <1>1, <1>2, CacheAssumption DEF Crowded

LEMMA HeldThroughAdd ==
  ASSUME NodeInv, NEW s \in Sids, AddSession(s), UNCHANGED <<chain, waited>>,
         NEW p \in Packets, SidOf[p] = s \/ at[p] = "added"
  PROVE  Held(p)'
<1> USE CacheAssumption
<1>1. PICK gone \in Evicted : /\ cached' = Without(gone) \cup {s}
                              /\ age' = Kept(age, Without(gone) \ {s})
  BY DEF AddSession
<1>2. /\ age \in [Sids -> 0 .. Timeout + 1] /\ waited[p] \in 0 .. Timeout + 1
      /\ age'[s] = 0
      /\ \A t \in cached' \ {s} : t \in Sids => age'[t] = age[t]
      /\ waited'[p] = waited[p] /\ SidOf[p] \in Sids
  BY <1>1, SidOfAssumption DEF NodeInv, PathTypeOK, TypeOK, Kept
<1>3. CASE SidOf[p] = s
  BY <1>1, <1>2, <1>3 DEF Held
<1>4. CASE SidOf[p] # s /\ at[p] = "added"
  <2>1. (SidOf[p] \in cached' => age'[SidOf[p]] = age[SidOf[p]]) /\ Held(p)
    BY <1>2, <1>4 DEF NodeInv
  <2>2. CASE SidOf[p] \in cached'
    BY <1>1, <1>2, <1>4, <2>1, <2>2 DEF Held, Without
  <2>3. CASE SidOf[p] \notin cached'
    <3>1. CASE SidOf[p] \notin cached
      BY <1>2, <2>1, <2>3, <3>1 DEF Held, Crowded
    <3>2. CASE SidOf[p] \in cached
      <4>1. gone # {}
        BY <1>1, <2>3, <3>2 DEF Without
      <4>2. Crowded
        BY <1>1, <4>1, EvictedFromCrowd DEF NodeInv, PathTypeOK, OnChain
      <4> QED
        BY <2>3, <4>2 DEF Held, Crowded
    <3> QED
      BY <3>1, <3>2
  <2> QED
    BY <2>2, <2>3
<1> QED
  BY <1>3, <1>4

LEMMA HeldThroughDrop ==
  ASSUME NodeInv, NEW gone \in SUBSET Sids, \A s \in gone \cap cached : Expired(s),
         cached' = Without(gone), \A t \in cached' : age'[t] = age[t], chain' = chain,
         NEW p \in Packets, at[p] = "added", waited'[p] = waited[p]
  PROVE  Held(p)'
<1> USE CacheAssumption
<1>1. age[SidOf[p]] \in Nat /\ waited[p] \in Nat
  BY SidOfAssumption DEF NodeInv, PathTypeOK, TypeOK
<1>2. Held(p)
  BY DEF NodeInv
<1>3. CASE SidOf[p] \in cached'
  BY <1>2, <1>3 DEF Held, Without
<1>4. CASE SidOf[p] \notin cached'
  BY <1>1, <1>2, <1>4 DEF Held, Without, Expired, Crowded
<1> QED
  BY <1>3, <1>4

LEMMA DropKeepsAges ==
  ASSUME TypeOK, NEW gone, Drop(gone)
  PROVE  cached' = Without(gone) /\ \A t \in cached' : age'[t] = age[t]
BY DEF Drop, Kept, Without, TypeOK

LEMMA LookUpDrops ==
  ASSUME TypeOK, NEW s \in Sids, LookUp(s)
  PROVE  \E gone \in SUBSET Sids :
           /\ \A t \in gone \cap cached : Expired(t)
           /\ cached' = Without(gone) /\ \A t \in cached' : age'[t] = age[t]
<1>1. CASE Expired(s) /\ Drop({s})
  <2>1. {s} \in SUBSET Sids /\ (\A t \in {s} \cap cached : Expired(t))
    BY <1>1
  <2> QED
    BY <1>1, <2>1, DropKeepsAges
<1>2. CASE UNCHANGED <<cached, age>>
  <2>1. {} \in SUBSET Sids /\ cached' = Without({}) /\ \A t \in cached' : age'[t] = age[t]
    BY <1>2 DEF Without
  <2> QED
    BY <2>1
<1> QED
  BY <1>1, <1>2 DEF LookUp, GetSession, vars

LEMMA OnChainStep ==
  ASSUME NodeInv, [PathNext]_pathVars
  PROVE  OnChain'
<1> USE DEF OnChain, CachedOnChain
<1>1. /\ OnChain
      /\ at \in [Packets -> InHand \cup {"new", "passed", "refused", "lost"}]
      /\ \A p \in Packets : SidOf[p] \in Sids
  BY SidOfAssumption DEF NodeInv, PathTypeOK
<1>2. ASSUME NEW s \in chain, AddSession(s) PROVE cached' \subseteq chain
  <2>1. PICK gone : cached' = Without(gone) \cup {s}
    BY <1>2 DEF AddSession
  <2> QED
    BY <1>1, <2>1 DEF Without
<1>3. CASE StoreBlock
  BY <1>1, <1>3 DEF StoreBlock, vars
<1>4. ASSUME NEW s \in Sids, CacheSession(s) PROVE OnChain'
  BY <1>1, <1>2, <1>4 DEF CacheSession
<1>5. ASSUME NEW p \in Packets, Arrive(p) PROVE OnChain'
  BY <1>1, <1>5 DEF Arrive, Goes, vars
<1>6. ASSUME NEW p \in Packets, LoadRecord(p) PROVE OnChain'
  BY <1>1, <1>6 DEF LoadRecord, Goes, vars
<1>7. ASSUME NEW p \in Packets, AddBack(p) PROVE OnChain'
  <2>1. SidOf[p] \in chain
    BY <1>1, <1>7 DEF AddBack
  <2>2. cached' \subseteq chain'
    BY <1>2, <1>7, <2>1 DEF AddBack
  <2> QED
    BY <1>1, <1>7, <2>1, <2>2 DEF AddBack, Goes
<1>8. ASSUME NEW p \in Packets, FirstLook(p) \/ SecondLook(p) PROVE OnChain'
  <2>1. cached' \subseteq cached
    BY <1>1, <1>8, LookUpDrops DEF FirstLook, SecondLook, Without, NodeInv, PathTypeOK
  <2>2. \A q \in Packets : at'[q] \in {"found", "added"} => at[q] \in {"found", "added"}
    BY <1>1, <1>8 DEF FirstLook, SecondLook, Goes
  <2> QED
    BY <1>1, <1>8, <2>1, <2>2 DEF FirstLook, SecondLook
<1>9. CASE PassTime \/ CleanUp \/ UNCHANGED pathVars
  BY <1>1, <1>9 DEF PassTime, Tick, CleanUp, CleanupExpired, Drop, Without, pathVars, vars
<1>10. CASE RestartNode
  BY <1>1, <1>10 DEF RestartNode, Clear, InHand
<1> QED
  BY <1>3, <1>4, <1>5, <1>6, <1>7, <1>8, <1>9, <1>10 DEF PathNext, PacketThread

LEMMA HeldStep ==
  ASSUME NodeInv, [PathNext]_pathVars, NEW p \in Packets, at'[p] = "added"
  PROVE  Held(p)'
<1> USE CacheAssumption
<1>1. /\ at \in [Packets -> InHand \cup {"new", "passed", "refused", "lost"}]
      /\ age \in [Sids -> 0 .. Timeout + 1] /\ waited \in [Packets -> 0 .. Timeout + 1]
      /\ \A q \in Packets : SidOf[q] \in Sids
      /\ chain \subseteq Sids /\ (at[p] = "added" => Held(p))
  BY SidOfAssumption DEF NodeInv, PathTypeOK, TypeOK
<1>2. ASSUME at[p] = "added", UNCHANGED <<cached, age, waited>>,
             chain \subseteq chain', chain' \subseteq Sids
      PROVE  Held(p)'
  BY <1>1, <1>2, CrowdStays DEF Held
<1>3. CASE StoreBlock
  BY <1>1, <1>2, <1>3 DEF StoreBlock, vars
<1>4. ASSUME NEW s \in Sids, CacheSession(s) PROVE Held(p)'
  BY <1>4, HeldThroughAdd DEF CacheSession
<1>5. ASSUME NEW q \in Packets, Arrive(q) \/ LoadRecord(q) PROVE Held(p)'
  BY <1>1, <1>2, <1>5 DEF Arrive, LoadRecord, Goes, vars
<1>6. ASSUME NEW q \in Packets, AddBack(q) PROVE Held(p)'
  <2>1. SidOf[p] = SidOf[q] \/ at[p] = "added"
    BY <1>1, <1>6 DEF AddBack, Goes
  <2> QED
    BY <1>1, <1>6, <2>1, HeldThroughAdd DEF AddBack
<1>7. ASSUME NEW q \in Packets, FirstLook(q) \/ SecondLook(q) PROVE Held(p)'
  <2>1. at[p] = "added" /\ waited'[p] = waited[p] /\ chain' = chain
    BY <1>1, <1>7 DEF FirstLook, SecondLook, Goes
  <2>2. PICK gone \in SUBSET Sids :
          /\ \A t \in gone \cap cached : Expired(t)
          /\ cached' = Without(gone) /\ \A t \in cached' : age'[t] = age[t]
    BY <1>1, <1>7, LookUpDrops DEF FirstLook, SecondLook, NodeInv, PathTypeOK
  <2> QED
    BY <2>1, <2>2, HeldThroughDrop
<1>8. CASE CleanUp
  <2> DEFINE gone == {s \in cached : Expired(s)}
  <2>1. gone \in SUBSET Sids /\ \A s \in gone \cap cached : Expired(s)
    BY DEF NodeInv, PathTypeOK, TypeOK
  <2>2. Drop(gone) /\ chain' = chain /\ at[p] = "added" /\ waited'[p] = waited[p]
    BY <1>8 DEF CleanUp, CleanupExpired
  <2>3. cached' = Without(gone) /\ \A t \in cached' : age'[t] = age[t]
    BY <2>2, DropKeepsAges DEF NodeInv, PathTypeOK
  <2> HIDE DEF gone
  <2> QED
    BY <2>1, <2>2, <2>3, HeldThroughDrop
<1>9. CASE PassTime
  <2>1. at[p] = "added" /\ UNCHANGED <<cached, chain>>
    BY <1>9 DEF PassTime, Tick
  <2>2. /\ waited'[p] = IF waited[p] <= Timeout THEN waited[p] + 1 ELSE waited[p]
        /\ SidOf[p] \in cached => age'[SidOf[p]] = IF age[SidOf[p]] <= Timeout
             THEN age[SidOf[p]] + 1 ELSE age[SidOf[p]]
    BY <1>1, <1>9, <2>1 DEF PassTime, Tick
  <2>3. age[SidOf[p]] \in 0 .. Timeout + 1 /\ waited[p] \in 0 .. Timeout + 1
    BY <1>1
  <2> QED
    BY <1>1, <2>1, <2>2, <2>3 DEF Held, Crowded
<1>10. CASE RestartNode
  BY <1>1, <1>10 DEF RestartNode, InHand
<1>11. CASE UNCHANGED pathVars
  BY <1>1, <1>2, <1>11 DEF pathVars, vars
<1> QED
  BY <1>3, <1>4, <1>5, <1>6, <1>7, <1>8, <1>9, <1>10, <1>11 DEF PathNext, PacketThread

LEMMA NodeInvariant == PathSpec => []NodeInv
<1>1. PathInit => NodeInv
  BY PathTypeInit DEF PathInit, Init, NodeInv, OnChain, CachedOnChain
<1>2. NodeInv /\ [PathNext]_pathVars => NodeInv'
  <2> SUFFICES ASSUME NodeInv, [PathNext]_pathVars PROVE NodeInv'
    OBVIOUS
  <2>1. PathTypeOK'
    BY PathTypeStep DEF NodeInv
  <2> QED
    BY <2>1, OnChainStep, HeldStep DEF NodeInv
<1> QED
  BY <1>1, <1>2, PTL DEF PathSpec

(* Only sessions of the node's own chain are ever in its cache. *)
THEOREM CacheFollowsChain == PathSpec => []CachedOnChain
<1>1. NodeInv => CachedOnChain
  BY DEF NodeInv, OnChain
<1> QED
  BY <1>1, NodeInvariant, PTL

(* A thread that added its session finds it again, or has an excuse. *)
THEOREM ReloadsHold == PathSpec => []ReloadHolds
<1>1. NodeInv => ReloadHolds
  <2> SUFFICES ASSUME NodeInv, NEW p \in Packets, at[p] = "added", ~Fresh(SidOf[p])
               PROVE  Crowded \/ waited[p] > Timeout
    BY DEF ReloadHolds
  <2>1. Held(p) /\ age[SidOf[p]] \in Nat /\ waited[p] \in Nat
    BY SidOfAssumption, CacheAssumption DEF NodeInv, PathTypeOK, TypeOK
  <2> QED
    BY <2>1, CacheAssumption DEF Held, Fresh, Expired
<1> QED
  BY <1>1, NodeInvariant, PTL
-----------------------------------------------------------------------------
(* Cache and threads make no difference: the node is one that reads its      *)
(* chain for each packet.                                                    *)
THEOREM CachedPathImplementsVerifier == PathSpec => ImplementsVerifier
<1> DEFINE place == [p \in Packets |-> IF at[p] \in InHand THEN "open" ELSE at[p]]
<1>1. PathInit => Plain!Init
  BY DEF PathInit, Plain!Init, InHand
<1>2. NodeInv /\ ReloadHolds /\ [PathNext]_pathVars => [Plain!Next]_Plain!vars
  <2> SUFFICES ASSUME NodeInv, ReloadHolds, [PathNext]_pathVars
               PROVE  [Plain!Next]_Plain!vars
    OBVIOUS
  <2>1. /\ at \in [Packets -> InHand \cup {"new", "passed", "refused", "lost"}]
        /\ \A p \in Packets : at[p] \in {"found", "added"} => SidOf[p] \in chain
        /\ cached \subseteq chain
    BY DEF NodeInv, PathTypeOK, OnChain, CachedOnChain
  <2>2. ASSUME NEW p \in Packets, NEW to \in InHand, Goes(p, to), at[p] \in InHand,
               UNCHANGED chain
        PROVE  UNCHANGED Plain!vars
    BY <2>1, <2>2 DEF Goes, Plain!vars
  <2>3. ASSUME NEW p \in Packets, Goes(p, "passed"), at[p] \in InHand, UNCHANGED chain,
               SidOf[p] \in chain
        PROVE  Plain!Pass(p)
    BY <2>1, <2>3 DEF Goes, Plain!Pass, Plain!Known, InHand
  <2>4. ASSUME NEW p \in Packets, Goes(p, "refused"), at[p] \in InHand, UNCHANGED chain,
               SidOf[p] \notin chain \/ Crowded \/ waited[p] > Timeout
        PROVE  Plain!Refuse(p)
    BY <2>1, <2>4 DEF Goes, Plain!Refuse, Plain!Known, InHand
  <2>5. CASE StoreBlock
    BY <2>5 DEF StoreBlock, Plain!Next, Plain!Learn
  <2>6. ASSUME NEW s \in Sids, CacheSession(s) PROVE UNCHANGED Plain!vars
    BY <2>6 DEF CacheSession, Plain!vars
  <2>7. ASSUME NEW p \in Packets, Arrive(p) PROVE Plain!Take(p)
    BY <2>1, <2>7 DEF Arrive, Goes, Plain!Take, InHand
  <2>8. ASSUME NEW p \in Packets, FirstLook(p) PROVE [Plain!Next]_Plain!vars
    BY <2>1, <2>2, <2>3, <2>8 DEF FirstLook, Fresh, InHand, Plain!Next
  <2>9. ASSUME NEW p \in Packets, LoadRecord(p) PROVE [Plain!Next]_Plain!vars
    BY <2>2, <2>4, <2>9 DEF LoadRecord, InHand, Plain!Next
  <2>10. ASSUME NEW p \in Packets, AddBack(p) PROVE UNCHANGED Plain!vars
    BY <2>2, <2>10 DEF AddBack, InHand
  <2>11. ASSUME NEW p \in Packets, SecondLook(p) PROVE [Plain!Next]_Plain!vars
    <3>1. at[p] = "added" /\ SidOf[p] \in chain /\ UNCHANGED chain
      BY <2>1, <2>11 DEF SecondLook
    <3>2. CASE Fresh(SidOf[p])
      BY <2>3, <2>11, <3>1, <3>2 DEF SecondLook, InHand, Plain!Next
    <3>3. CASE ~Fresh(SidOf[p])
      BY <2>4, <2>11, <3>1, <3>3 DEF SecondLook, ReloadHolds, InHand, Plain!Next
    <3> QED
      BY <3>2, <3>3
  <2>12. CASE PassTime \/ CleanUp \/ UNCHANGED pathVars
    BY <2>12 DEF PassTime, CleanUp, pathVars, Plain!vars
  <2>13. CASE RestartNode
    <3>1. chain' \subseteq chain
      BY <2>13 DEF RestartNode
    <3>2. [p \in Packets |-> IF at'[p] \in InHand THEN "open" ELSE at'[p]]
          = [p \in Packets |-> IF place[p] = "open" THEN "lost" ELSE place[p]]
      BY <2>1, <2>13 DEF RestartNode, InHand
    <3> QED
      BY <3>1, <3>2 DEF Plain!Restart, Plain!Next
  <2> QED
    BY <2>5, <2>6, <2>7, <2>8, <2>9, <2>10, <2>11, <2>12, <2>13
    DEF PathNext, PacketThread, Plain!Next
<1> QED
  BY <1>1, <1>2, NodeInvariant, ReloadsHold, PTL
  DEF PathSpec, ImplementsVerifier, Plain!Spec
=============================================================================
