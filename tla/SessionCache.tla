---------------------------- MODULE SessionCache ----------------------------
(***************************************************************************)
(* SessionCache of BlockchainRadioV4, where every node keeps the sessions   *)
(* whose packets it verifies: a bounded table with an index by node, least  *)
(* recently used eviction, and expiry by age.  Every operation holds the    *)
(* lock.  As in SessionManager, ages stop just above the limit; those of    *)
(* sessions that are not cached are 0.  Entries with equal idle times stand *)
(* for any order of their last_used.  Nothing in the repository calls       *)
(* remove_session, get_sessions_for_node or shutdown: CachedPath, the node  *)
(* around the cache, does not take these steps, and what is proved of Spec  *)
(* here holds for callers that do.                                          *)
(***************************************************************************)
EXTENDS Naturals, FiniteSets

CONSTANTS Sids, Nodes,
          NodeOf,     \* the node_id each session is added with
          Capacity,   \* max_sessions
          Timeout     \* default_timeout

\* Every caller takes node_id from the session itself (radio_id of its record
\* in V2, the producer's sid in V1), so it is the same each time.
ASSUME NodeOfAssumption == NodeOf \in [Sids -> Nodes]
ASSUME FiniteAssumption == IsFiniteSet(Sids)
ASSUME CacheAssumption == Capacity \in Nat \ {0} /\ Timeout \in Nat

VARIABLES
  cached,    \* keys of _sessions
  byNode,    \* _sessions_by_node; a missing key is the empty set
  age,       \* time since created_at
  idle,      \* time since last_used
  running    \* _running

vars == <<cached, byNode, age, idle, running>>

TypeOK ==
  /\ cached \subseteq Sids
  /\ byNode \in [Nodes -> SUBSET Sids]
  /\ age \in [Sids -> 0 .. Timeout + 1]
  /\ idle \in [Sids -> 0 .. Timeout + 1]
  /\ running \in BOOLEAN

Init ==
  /\ cached = {}
  /\ byNode = [n \in Nodes |-> {}]
  /\ age = [s \in Sids |-> 0]
  /\ idle = [s \in Sids |-> 0]
  /\ running = TRUE

\* A bug: expiry counts from the last use.
Expired_Idle(s) == idle[s] > Timeout

Expired(s) == age[s] > Timeout
-----------------------------------------------------------------------------
\* _remove_session of each member of gone: the table and the index after it.
Without(gone) == cached \ gone

\* A bug: the session is discarded from no node's set.
IndexWithout_Kept(gone) == byNode

IndexWithout(gone) == [n \in Nodes |-> byNode[n] \ {s \in gone \cap cached : NodeOf[s] = n}]

\* _evict_oldest: what add_session may remove before it inserts.
LeastRecent == {s \in cached : \A t \in cached : idle[s] >= idle[t]}

\* A bug: one session too many.
Evicted_Late == IF Cardinality(cached) > Capacity
                  THEN {{s} : s \in LeastRecent} ELSE {{}}

\* A bug: every add evicts.
Evicted_Always == IF cached # {} THEN {{s} : s \in LeastRecent} ELSE {{}}

Evicted == IF Cardinality(cached) >= Capacity
             THEN {{s} : s \in LeastRecent} ELSE {{}}

\* The ages of what stays in the table.
Kept(ages, stay) == [s \in Sids |-> IF s \in stay THEN ages[s] ELSE 0]

\* A bug: the table is told the node instead of the session.
AddSession_Swapped(s) ==
  /\ \E gone \in Evicted :
       /\ cached' = Without(gone) \cup {NodeOf[s]}
       /\ byNode' = [IndexWithout(gone) EXCEPT ![NodeOf[s]] = @ \cup {s}]
       /\ age' = Kept(age, Without(gone) \ {s})
       /\ idle' = Kept(idle, Without(gone) \ {s})
  /\ UNCHANGED running

\* add_session makes room before it looks whether s is in the table already.
AddSession(s) ==
  /\ \E gone \in Evicted :
       /\ cached' = Without(gone) \cup {s}
       /\ byNode' = [IndexWithout(gone) EXCEPT ![NodeOf[s]] = @ \cup {s}]
       /\ age' = Kept(age, Without(gone) \ {s})
       /\ idle' = Kept(idle, Without(gone) \ {s})
  /\ UNCHANGED running

Drop(gone) ==
  /\ cached' = Without(gone)
  /\ byNode' = IndexWithout(gone)
  /\ age' = Kept(age, Without(gone))
  /\ idle' = Kept(idle, Without(gone))
  /\ UNCHANGED running

GetSession(s) ==
  /\ s \in cached
  /\ \/ Expired(s) /\ Drop({s})
     \/ /\ ~Expired(s)
        /\ idle' = [idle EXCEPT ![s] = 0]
        /\ UNCHANGED <<cached, byNode, age, running>>

GetSessionsForNode(n) == Drop({s \in byNode[n] : s \notin cached \/ Expired(s)})

RemoveSession(s) == s \in cached /\ Drop({s})

CleanupExpired == running /\ Drop({s \in cached : Expired(s)})

\* clear, which shutdown calls after it clears _running.
Clear(stop) ==
  /\ cached' = {}
  /\ byNode' = [n \in Nodes |-> {}]
  /\ age' = Kept(age, {})
  /\ idle' = Kept(idle, {})
  /\ running' = (running /\ ~stop)

Tick ==
  /\ age' = [s \in Sids |-> IF s \in cached /\ age[s] <= Timeout
                              THEN age[s] + 1 ELSE age[s]]
  /\ idle' = [s \in Sids |-> IF s \in cached /\ idle[s] <= Timeout
                               THEN idle[s] + 1 ELSE idle[s]]
  /\ UNCHANGED <<cached, byNode, running>>
-----------------------------------------------------------------------------
Next ==
  \/ \E s \in Sids : AddSession(s) \/ GetSession(s) \/ RemoveSession(s)
  \/ \E n \in Nodes : GetSessionsForNode(n)
  \/ \E stop \in BOOLEAN : Clear(stop)
  \/ CleanupExpired \/ Tick

Spec == Init /\ [][Next]_vars
-----------------------------------------------------------------------------
(* The table never outgrows max_sessions, although add_session compares     *)
(* before it inserts and _evict_oldest removes one session at most.         *)
CapacityKept == Cardinality(cached) <= Capacity

(* _sessions_by_node lists exactly the cached sessions of each node, after  *)
(* any mix of evictions, expiries found by three different operations, and  *)
(* sessions added again while they are cached.                              *)
IndexExact == \A n \in Nodes : byNode[n] = {s \in cached : NodeOf[s] = n}

(* A session in use is not forgotten: one that has not expired leaves the   *)
(* table only when add_session found it full, or on request.                *)
LiveSessionsStay ==
  [][\A s \in cached : ~Expired(s) /\ s \notin cached' =>
        \/ Cardinality(cached) = Capacity
        \/ RemoveSession(s)
        \/ \E stop \in BOOLEAN : Clear(stop)]_vars

(* cache.py: "Automatic expiration of stale sessions".  A session that is    *)
(* not added again is gone for good in the end, however often its packets    *)
(* look it up, as long as the cleanup thread runs.                          *)
NotAddedLeaves ==
  \A s \in Sids : <>[][~AddSession(s)]_vars => <>[](s \notin cached) \/ <>~running
=============================================================================
