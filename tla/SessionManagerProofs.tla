------------------------ MODULE SessionManagerProofs ------------------------
(* Proofs about SessionManager, for any set of peers, sessions and limits. *)
EXTENDS SessionManager, TLAPS

(* The tables and clocks keep their types.                                   *)
THEOREM TypeCorrect == Spec => []TypeOK
<1>1. Init => TypeOK
  BY LimitsAssumption DEF Init, TypeOK, States
<1>2. TypeOK /\ [Next]_vars => TypeOK'
  <2> SUFFICES ASSUME TypeOK, [Next]_vars PROVE TypeOK'
    OBVIOUS
  <2> USE LimitsAssumption, NamesAssumption DEF TypeOK, States
  <2>1. ASSUME NEW p \in Peers, NEW i \in SessionIds, CreateReturns(p, i)
        PROVE  /\ peerOf' \in [SessionIds -> Peers \cup {NoPeer}]
               /\ state' \in [SessionIds -> States]
               /\ tracked' \subseteq SessionIds
               /\ byPeer' \in [Peers -> SessionIds \cup {NoSession}]
               /\ UNCHANGED <<age, idle, keyed>>
    BY <2>1 DEF CreateReturns, New, sessionVars, managerVars
  <2>2. ASSUME NEW gone \in SUBSET SessionIds, Remove(gone)
        PROVE  /\ tracked' \subseteq SessionIds
               /\ byPeer' \in [Peers -> SessionIds \cup {NoSession}]
    BY <2>2 DEF Remove
  <2>3. ASSUME NEW p \in Peers, CreateSession(p) PROVE TypeOK'
    BY <2>3, <2>1 DEF CreateSession, producerVars
  <2>4. ASSUME NEW p \in Peers, StartHandshake(p) PROVE TypeOK'
    BY <2>4, <2>1 DEF StartHandshake
  <2>5. ASSUME NEW p \in Peers, Send(p) PROVE TypeOK'
    BY <2>5 DEF Send, HasActive, managerVars, producerVars
  <2>6. ASSUME NEW i \in SessionIds, GetSession(i) PROVE TypeOK'
    BY <2>6, <2>2 DEF GetSession, sessionVars, producerVars
  <2>7. ASSUME NEW i \in SessionIds, CloseSession(i) PROVE TypeOK'
    BY <2>7, <2>2 DEF CloseSession, producerVars
  <2>8. ASSUME CleanupExpired PROVE TypeOK'
    BY <2>8, <2>2 DEF CleanupExpired, ToExpire, sessionVars, producerVars
  <2>9. ASSUME Shutdown PROVE TypeOK'
    BY <2>9 DEF Shutdown, producerVars
  <2>10. ASSUME FinishHandshake PROVE TypeOK'
    <3>1. /\ state' \in [SessionIds -> States]
          /\ idle' \in [SessionIds -> 0 .. MaxIdle + 1]
          /\ keyed' \in [SessionIds -> Nat]
      BY <2>10 DEF FinishHandshake
    <3>2. /\ inUse' \in [Peers -> SessionIds \cup {NoSession}]
          /\ handshake' \in SessionIds \cup {NoSession}
      BY <2>10 DEF FinishHandshake
    <3> QED
      BY <3>1, <3>2, <2>10 DEF FinishHandshake, managerVars
  <2>11. ASSUME FailHandshake PROVE TypeOK'
    BY <2>11 DEF FailHandshake, sessionVars, managerVars
  <2>12. ASSUME Tick PROVE TypeOK'
    <3>1. age' \in [SessionIds -> 0 .. Timeout + 1]
      BY <2>12 DEF Tick
    <3>2. idle' \in [SessionIds -> 0 .. MaxIdle + 1]
      BY <2>12 DEF Tick
    <3> QED
      BY <3>1, <3>2, <2>12 DEF Tick, managerVars, producerVars
  <2>13. CASE UNCHANGED vars
    BY <2>13 DEF vars, sessionVars, managerVars, producerVars
  <2> QED
    BY <2>3, <2>4, <2>5, <2>6, <2>7, <2>8, <2>9, <2>10, <2>11, <2>12, <2>13
       DEF Next
<1> QED
  BY <1>1, <1>2, PTL DEF Spec
-----------------------------------------------------------------------------
(* The index: an id is tracked only once it names a session.  Without this  *)
(* a new session could take over the id that another peer's entry holds.     *)
IndexInv == IndexSound /\ \A i \in tracked : state[i] # "NONE"

LEMMA RemoveKeepsIndex ==
  ASSUME TypeOK, IndexSound, NEW gone \in SUBSET SessionIds,
         Remove(gone), peerOf' = peerOf
  PROVE  IndexSound'
BY DEF Remove, IndexSound, TypeOK

LEMMA CreateKeepsIndex ==
  ASSUME TypeOK, IndexInv, NEW p \in Peers, NEW i \in SessionIds,
         CreateReturns(p, i)
  PROVE  IndexInv'
<1>1. CASE i = Existing(p) /\ UNCHANGED <<sessionVars, managerVars>>
  BY <1>1 DEF sessionVars, managerVars, IndexInv, IndexSound
<1>2. CASE New(p, i)
  BY <1>2, NamesAssumption DEF New, IndexInv, IndexSound, TypeOK
<1> QED
  BY <1>1, <1>2 DEF CreateReturns

LEMMA IndexStep == TypeOK /\ IndexInv /\ [Next]_vars => IndexInv'
<1> SUFFICES ASSUME TypeOK, IndexInv, [Next]_vars PROVE IndexInv'
  OBVIOUS
<1>1. ASSUME NEW p \in Peers, CreateSession(p) PROVE IndexInv'
  BY <1>1, CreateKeepsIndex DEF CreateSession
<1>2. ASSUME NEW p \in Peers, StartHandshake(p) PROVE IndexInv'
  BY <1>2, CreateKeepsIndex DEF StartHandshake
<1>3. ASSUME NEW i \in SessionIds, GetSession(i) PROVE IndexInv'
  <2>1. IndexSound'
    BY <1>3, RemoveKeepsIndex DEF GetSession, IndexInv, sessionVars
  <2> QED
    BY <1>3, <2>1 DEF GetSession, IndexInv, Remove, sessionVars
<1>4. ASSUME NEW i \in SessionIds, CloseSession(i) PROVE IndexInv'
  <2>1. IndexSound'
    BY <1>4, RemoveKeepsIndex DEF CloseSession, IndexInv
  <2> QED
    BY <1>4, <2>1 DEF CloseSession, IndexInv, Remove, TypeOK
<1>5. ASSUME CleanupExpired PROVE IndexInv'
  <2>1. IndexSound'
    BY <1>5, RemoveKeepsIndex
       DEF CleanupExpired, ToExpire, IndexInv, TypeOK, sessionVars
  <2> QED
    BY <1>5, <2>1 DEF CleanupExpired, IndexInv, Remove, sessionVars
<1>6. ASSUME Shutdown PROVE IndexInv'
  BY <1>6 DEF Shutdown, IndexInv, IndexSound
<1>7. ASSUME FinishHandshake PROVE IndexInv'
  BY <1>7 DEF FinishHandshake, IndexInv, IndexSound, TypeOK, managerVars
<1>8. ASSUME UNCHANGED <<peerOf, state, managerVars>> PROVE IndexInv'
  BY <1>8 DEF IndexInv, IndexSound, managerVars
<1>9. ASSUME NEW p \in Peers, Send(p) PROVE IndexInv'
  BY <1>8, <1>9 DEF Send
<1>10. CASE FailHandshake \/ Tick \/ UNCHANGED vars
  BY <1>8, <1>10 DEF FailHandshake, Tick, vars, sessionVars
<1> QED
  BY <1>1, <1>2, <1>3, <1>4, <1>5, <1>6, <1>7, <1>9, <1>10 DEF Next

(* An entry of _sessions_by_peer always names a tracked session of the peer. *)
THEOREM IndexNeverDangles == Spec => []IndexSound
<1>1. Init => IndexInv
  BY DEF Init, IndexInv, IndexSound
<1>2. IndexInv => IndexSound
  BY DEF IndexInv
<1> QED
  BY <1>1, <1>2, IndexStep, TypeCorrect, PTL DEF Spec
-----------------------------------------------------------------------------
(* Keys.  An established session is the one its peer's entry of             *)
(* active_sessions names, and while a handshake runs for a peer that entry   *)
(* names no established session; so a handshake never reaches one.           *)
KeyedInv ==
  /\ \A i \in SessionIds :
       /\ keyed[i] <= 1
       /\ state[i] \in {"NONE", "INIT"} => keyed[i] = 0
       /\ state[i] # "NONE" => peerOf[i] \in Peers
       /\ Active(i) => inUse[peerOf[i]] = i
  /\ handshake # NoSession =>
       /\ keyed[handshake] = 0
       /\ state[handshake] # "NONE"
       /\ ~HasActive(peerOf[handshake])

LEMMA KeyedStep == TypeOK /\ IndexInv /\ KeyedInv /\ [Next]_vars => KeyedInv'
<1> SUFFICES ASSUME TypeOK, IndexInv, KeyedInv, [Next]_vars PROVE KeyedInv'
  OBVIOUS
<1> USE NamesAssumption DEF KeyedInv, TypeOK, Active, HasActive
<1>1. ASSUME NEW p \in Peers, CreateSession(p) PROVE KeyedInv'
  <2>1. PICK i \in SessionIds : CreateReturns(p, i)
    BY <1>1 DEF CreateSession
  <2>2. CASE UNCHANGED sessionVars
    BY <1>1, <2>2 DEF CreateSession, producerVars, sessionVars
  <2>3. CASE New(p, i)
    BY <1>1, <2>3 DEF CreateSession, producerVars, New
  <2> QED
    BY <2>1, <2>2, <2>3 DEF CreateReturns
<1>2. ASSUME NEW p \in Peers, StartHandshake(p) PROVE KeyedInv'
  <2>1. PICK i \in SessionIds : CreateReturns(p, i) /\ handshake' = i
    BY <1>2 DEF StartHandshake
  <2>2. CASE i = Existing(p) /\ UNCHANGED <<sessionVars, managerVars>>
    <3>1. byPeer[p] = i /\ ~Expired(i) /\ i # NoSession
      BY <2>2 DEF Existing
    <3>2. peerOf[i] = p /\ state[i] = "INIT"
      BY <3>1, <1>2 DEF IndexInv, IndexSound, Expired, StartHandshake, States
    <3> QED
      BY <1>2, <2>1, <2>2, <3>2 DEF StartHandshake, sessionVars
  <2>3. CASE New(p, i)
    BY <1>2, <2>1, <2>3 DEF StartHandshake, New
  <2> QED
    BY <2>1, <2>2, <2>3 DEF CreateReturns
<1>3. ASSUME FinishHandshake PROVE KeyedInv'
  BY <1>3 DEF FinishHandshake
<1>4. ASSUME NEW i \in SessionIds, CloseSession(i) PROVE KeyedInv'
  BY <1>4 DEF CloseSession, IndexInv, producerVars
<1>5. ASSUME Shutdown PROVE KeyedInv'
  BY <1>5 DEF Shutdown, IndexInv, producerVars
<1>6. ASSUME UNCHANGED <<peerOf, state, keyed, producerVars>> PROVE KeyedInv'
  BY <1>6 DEF producerVars
<1>7. CASE \E i \in SessionIds : GetSession(i)
  BY <1>6, <1>7 DEF GetSession, sessionVars
<1>8. CASE \E p \in Peers : Send(p)
  BY <1>6, <1>8 DEF Send
<1>9. CASE CleanupExpired \/ Tick \/ UNCHANGED vars
  BY <1>6, <1>9 DEF CleanupExpired, Tick, vars, sessionVars
<1>10. CASE FailHandshake
  BY <1>10 DEF FailHandshake, sessionVars
<1> QED
  BY <1>1, <1>2, <1>3, <1>4, <1>5, <1>7, <1>8, <1>9, <1>10 DEF Next

(* establish() is called at most once for a session: no message counter     *)
(* restarts under a peer that has already seen it grow.                      *)
THEOREM EstablishedOnce == Spec => []KeyedOnce
<1>1. Init => IndexInv /\ KeyedInv
  BY DEF Init, IndexInv, IndexSound, KeyedInv, Active
<1>2. KeyedInv => KeyedOnce
  BY DEF KeyedInv, KeyedOnce
<1> QED
  BY <1>1, <1>2, IndexStep, KeyedStep, TypeCorrect, PTL DEF Spec
-----------------------------------------------------------------------------
(* No session lives twice.  Its age is never set back, by touch() or by a    *)
(* second establish(), an id is not given out again, and a session that has  *)
(* left the manager's table never comes back: not even when its handshake    *)
(* ends after it was closed.  So what EveryoneLeaves says of a session, that *)
(* it leaves, is said for good.                                              *)
NoSecondLife ==
  [][\A i \in SessionIds :
       /\ age'[i] >= age[i]
       /\ state[i] # "NONE" =>
            /\ state'[i] # "NONE" /\ peerOf'[i] = peerOf[i]
            /\ i \notin tracked => i \notin tracked']_vars

LEMMA CreationRevivesNone ==
  ASSUME TypeOK, IndexInv, NEW p \in Peers, NEW i \in SessionIds,
         CreateReturns(p, i), NEW j \in SessionIds
  PROVE  /\ age'[j] = age[j]
         /\ state[j] # "NONE" =>
              /\ state'[j] = state[j] /\ peerOf'[j] = peerOf[j]
              /\ j \notin tracked => j \notin tracked'
BY DEF CreateReturns, New, TypeOK, sessionVars, managerVars

LEMMA SecondLifeStep ==
  ASSUME TypeOK, IndexInv, [Next]_vars, NEW i \in SessionIds
  PROVE  /\ age'[i] >= age[i]
         /\ state[i] # "NONE" =>
              /\ state'[i] # "NONE" /\ peerOf'[i] = peerOf[i]
              /\ i \notin tracked => i \notin tracked'
<1> DEFINE Older == age'[i] >= age[i]
           Kept == state[i] # "NONE" =>
                     /\ state'[i] # "NONE" /\ peerOf'[i] = peerOf[i]
                     /\ i \notin tracked => i \notin tracked'
<1> SUFFICES Older /\ Kept
  OBVIOUS
<1>0. age[i] \in Nat
  BY LimitsAssumption DEF TypeOK
<1>1. ASSUME UNCHANGED age PROVE Older
  BY <1>0, <1>1
<1>2. ASSUME NEW p \in Peers, CreateSession(p) \/ StartHandshake(p)
      PROVE  Older /\ Kept
  <2>1. PICK j \in SessionIds : CreateReturns(p, j)
    BY <1>2 DEF CreateSession, StartHandshake
  <2> QED
    BY <1>0, <2>1, CreationRevivesNone
<1>3. CASE \E p \in Peers : Send(p)
  BY <1>0, <1>3 DEF Send, managerVars
<1>4. CASE \/ \E j \in SessionIds : GetSession(j)
           \/ CleanupExpired
  BY <1>0, <1>4 DEF GetSession, CleanupExpired, Remove, sessionVars
<1>5. CASE \E j \in SessionIds : CloseSession(j)
  BY <1>0, <1>5 DEF CloseSession, Remove, TypeOK
<1>6. CASE Shutdown
  BY <1>0, <1>6 DEF Shutdown
<1>7. CASE FinishHandshake
  <2>1. Older
    BY <1>0, <1>7 DEF FinishHandshake
  <2>2. Kept
    BY <1>7 DEF FinishHandshake, TypeOK, managerVars
  <2> QED
    BY <2>1, <2>2
<1>8. CASE FailHandshake \/ UNCHANGED vars
  BY <1>0, <1>8 DEF FailHandshake, vars, sessionVars, managerVars
<1>9. CASE Tick
  <2>1. Older
    BY <1>0, <1>9 DEF Tick
  <2>2. Kept
    BY <1>9 DEF Tick, managerVars
  <2> QED
    BY <2>1, <2>2
<1> QED
  BY <1>2, <1>3, <1>4, <1>5, <1>6, <1>7, <1>8, <1>9 DEF Next

(* A session keeps its id and its peer, only grows older, and once it has     *)
(* left the table of sessions it is not tracked again.                       *)
THEOREM NobodyLivesTwice == Spec => NoSecondLife
<1>1. Init => IndexInv
  BY DEF Init, IndexInv, IndexSound
<1>2. TypeOK /\ IndexInv /\ [Next]_vars =>
        \A i \in SessionIds :
          /\ age'[i] >= age[i]
          /\ state[i] # "NONE" =>
               /\ state'[i] # "NONE" /\ peerOf'[i] = peerOf[i]
               /\ i \notin tracked => i \notin tracked'
  BY SecondLifeStep
<1> QED
  BY <1>1, <1>2, IndexStep, TypeCorrect, PTL DEF Spec, NoSecondLife
=============================================================================
