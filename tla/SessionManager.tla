--------------------------- MODULE SessionManager ---------------------------
(***************************************************************************)
(* SessionManager of BlockchainRadioV4 and its user, the first ProducerNode *)
(* (network/producer.py).  The manager's operations hold its RLock; what    *)
(* the producer does with a Session object afterwards, establish() and      *)
(* touch(), does not.                                                       *)
(*                                                                          *)
(* Clocks are kept as the age and the idle time of each session, which stop *)
(* just above the limit that is_expired compares them with.                 *)
(***************************************************************************)
EXTENDS Naturals

CONSTANTS Peers, SessionIds,
          NoPeer, NoSession,   \* dict.get() returned None
          Timeout, MaxIdle     \* timeout_seconds, max_idle_seconds

ASSUME NamesAssumption == NoPeer \notin Peers /\ NoSession \notin SessionIds
ASSUME LimitsAssumption == Timeout \in Nat /\ MaxIdle \in Nat

VARIABLES
  peerOf,    \* Session.peer_node_id; NoPeer: the id was not generated yet
  state,     \* Session.state
  age, idle, \* time since created_at and since last_activity
  keyed,     \* history: calls of Session.establish
  tracked,   \* keys of SessionManager._sessions
  byPeer,    \* SessionManager._sessions_by_peer
  inUse,     \* ProducerNode.active_sessions
  handshake, \* the session get_or_establish_session is establishing
  running    \* ProducerNode.running and SessionManager._running

sessionVars == <<peerOf, state, age, idle, keyed>>
managerVars == <<tracked, byPeer>>
producerVars == <<inUse, handshake>>
vars == <<sessionVars, managerVars, producerVars, running>>

States == {"NONE", "INIT", "ESTABLISHED", "CLOSED"}

TypeOK ==
  /\ peerOf \in [SessionIds -> Peers \cup {NoPeer}]
  /\ state \in [SessionIds -> States]
  /\ age \in [SessionIds -> 0 .. Timeout + 1]
  /\ idle \in [SessionIds -> 0 .. MaxIdle + 1]
  /\ keyed \in [SessionIds -> Nat]
  /\ tracked \subseteq SessionIds
  /\ byPeer \in [Peers -> SessionIds \cup {NoSession}]
  /\ inUse \in [Peers -> SessionIds \cup {NoSession}]
  /\ handshake \in SessionIds \cup {NoSession}
  /\ running \in BOOLEAN

Init ==
  /\ peerOf = [i \in SessionIds |-> NoPeer]
  /\ state = [i \in SessionIds |-> "NONE"]
  /\ age = [i \in SessionIds |-> 0]
  /\ idle = [i \in SessionIds |-> 0]
  /\ keyed = [i \in SessionIds |-> 0]
  /\ tracked = {}
  /\ byPeer = [p \in Peers |-> NoSession]
  /\ inUse = [p \in Peers |-> NoSession]
  /\ handshake = NoSession
  /\ running = TRUE

Active(i) == state[i] = "ESTABLISHED"

\* EXPIRED is never assigned in the repository: nothing calls expire().
Expired(i) == \/ state[i] = "CLOSED"
              \/ age[i] > Timeout
              \/ idle[i] > MaxIdle

\* get_session_by_peer, without the removal
Existing(p) == IF byPeer[p] # NoSession /\ ~Expired(byPeer[p])
                 THEN byPeer[p] ELSE NoSession
-----------------------------------------------------------------------------
(* The manager.  _remove_session forgets the peer of every session it drops. *)

\* A bug: the peer's entry stays in _sessions_by_peer.
Remove_KeepIndex(gone) == tracked' = tracked \ gone /\ UNCHANGED byPeer

Remove(gone) ==
  /\ tracked' = tracked \ gone
  /\ byPeer' = [p \in Peers |-> IF \E i \in gone : peerOf[i] = p
                                  THEN NoSession ELSE byPeer[p]]

\* A bug: the index gets the peer and not the id.
New_Swapped(p, i) ==
  /\ state[i] = "NONE"
  /\ peerOf' = [peerOf EXCEPT ![i] = p]
  /\ state' = [state EXCEPT ![i] = "INIT"]
  /\ tracked' = tracked \cup {i}
  /\ byPeer' = [byPeer EXCEPT ![p] = p]
  /\ UNCHANGED <<age, idle, keyed>>

New(p, i) ==
  /\ state[i] = "NONE"
  /\ peerOf' = [peerOf EXCEPT ![i] = p]
  /\ state' = [state EXCEPT ![i] = "INIT"]
  /\ tracked' = tracked \cup {i}
  /\ byPeer' = [byPeer EXCEPT ![p] = i]
  /\ UNCHANGED <<age, idle, keyed>>

\* create_session returns i, an existing session or a new one.
CreateReturns(p, i) ==
  \/ i = Existing(p) /\ UNCHANGED <<sessionVars, managerVars>>
  \/ Existing(p) = NoSession /\ New(p, i)

CreateSession(p) ==
  /\ \E i \in SessionIds : CreateReturns(p, i)
  /\ UNCHANGED <<producerVars, running>>

\* get_session(i), which get_session_by_peer calls too.
GetSession(i) ==
  /\ i \in tracked /\ Expired(i)
  /\ Remove({i})
  /\ UNCHANGED <<sessionVars, producerVars, running>>

CloseSession(i) ==
  /\ i \in tracked
  /\ state' = [state EXCEPT ![i] = "CLOSED"]
  /\ Remove({i})
  /\ UNCHANGED <<peerOf, age, idle, keyed, producerVars, running>>

ToExpire == {i \in tracked : Expired(i)}

\* A bug: sessions that are still active are left in the table.
CleanupExpired_Inactive ==
  /\ running /\ \E i \in ToExpire : ~Active(i)
  /\ Remove({i \in ToExpire : ~Active(i)})
  /\ UNCHANGED <<sessionVars, producerVars, running>>

CleanupExpired ==
  /\ running /\ ToExpire # {}
  /\ Remove(ToExpire)
  /\ UNCHANGED <<sessionVars, producerVars, running>>

\* ProducerNode.shutdown; the radio thread may be inside an iteration.
Shutdown ==
  /\ running
  /\ running' = FALSE
  /\ state' = [i \in SessionIds |-> IF i \in tracked THEN "CLOSED" ELSE state[i]]
  /\ tracked' = {}
  /\ byPeer' = [p \in Peers |-> NoSession]
  /\ UNCHANGED <<peerOf, age, idle, keyed, producerVars>>
-----------------------------------------------------------------------------
(* The producer's radio thread, one handshake at a time.                     *)

\* A bug: get_or_establish_session does not look into active_sessions.
HasActive_Never(p) == FALSE

HasActive(p) == inUse[p] # NoSession /\ Active(inUse[p])

StartHandshake(p) ==
  /\ handshake = NoSession
  /\ ~HasActive(p)
  /\ \E i \in SessionIds : CreateReturns(p, i) /\ handshake' = i
  /\ UNCHANGED <<inUse, running>>

\* establish() has no guard on the state, and resets the message counters.
FinishHandshake ==
  /\ handshake # NoSession
  /\ state' = [state EXCEPT ![handshake] = "ESTABLISHED"]
  /\ idle' = [idle EXCEPT ![handshake] = 0]
  /\ keyed' = [keyed EXCEPT ![handshake] = @ + 1]
  /\ inUse' = [inUse EXCEPT ![peerOf[handshake]] = handshake]
  /\ handshake' = NoSession
  /\ UNCHANGED <<peerOf, age, managerVars, running>>

FailHandshake ==
  /\ handshake # NoSession
  /\ handshake' = NoSession
  /\ UNCHANGED <<sessionVars, managerVars, inUse, running>>

\* A bug: touch() sets created_at.
Send_Renews(p) ==
  /\ handshake = NoSession /\ HasActive(p)
  /\ idle' = [idle EXCEPT ![inUse[p]] = 0]
  /\ age' = [age EXCEPT ![inUse[p]] = 0]
  /\ UNCHANGED <<peerOf, state, keyed, managerVars, producerVars, running>>

\* create_authenticated_message asks is_active, not is_expired, and touches.
Send(p) ==
  /\ handshake = NoSession /\ HasActive(p)
  /\ idle' = [idle EXCEPT ![inUse[p]] = 0]
  /\ UNCHANGED <<peerOf, state, age, keyed, managerVars, producerVars, running>>

Tick ==
  /\ age' = [i \in SessionIds |-> IF state[i] = "NONE" \/ age[i] > Timeout
                                    THEN age[i] ELSE age[i] + 1]
  /\ idle' = [i \in SessionIds |-> IF state[i] = "NONE" \/ idle[i] > MaxIdle
                                     THEN idle[i] ELSE idle[i] + 1]
  /\ UNCHANGED <<peerOf, state, keyed, managerVars, producerVars, running>>
-----------------------------------------------------------------------------
Next ==
  \/ \E p \in Peers : CreateSession(p) \/ StartHandshake(p) \/ Send(p)
  \/ \E i \in SessionIds : GetSession(i) \/ CloseSession(i)
  \/ CleanupExpired \/ Shutdown
  \/ FinishHandshake \/ FailHandshake
  \/ Tick

Spec == Init /\ [][Next]_vars

\* Time passes, and the cleanup thread wakes up every cleanup_interval.
FairSpec == Spec /\ WF_vars(Tick) /\ WF_vars(CleanupExpired)
-----------------------------------------------------------------------------
(* The peer index never dangles: an entry names a session that the manager  *)
(* still tracks and that was created for that peer.  create_session replaces *)
(* entries and four operations remove them.                                 *)
IndexSound ==
  \A p \in Peers : byPeer[p] # NoSession =>
    byPeer[p] \in tracked /\ peerOf[byPeer[p]] = p

(* A session is given keys once: establish() restarts send_seq at 0, and a  *)
(* peer that has seen higher numbers would refuse what follows.  Only the   *)
(* look into active_sessions keeps create_session from handing an           *)
(* established session to a second handshake.                               *)
KeyedOnce == \A i \in SessionIds : keyed[i] <= 1

(* Every session leaves the manager's table, however often it is used: its  *)
(* age passes timeout_seconds and the cleanup thread finds it, unless the   *)
(* producer shuts down first.                                               *)
EveryoneLeaves ==
  \A i \in SessionIds : i \in tracked ~> (i \notin tracked \/ ~running)

(* session.py: "Get active session with a peer".  A session that is tracked *)
(* and has not expired is found by its peer.  Removing an older session of   *)
(* the same peer takes the newer one out of the index.                      *)
LiveSessionFound ==
  \A i \in tracked : ~Expired(i) => Existing(peerOf[i]) # NoSession
=============================================================================
