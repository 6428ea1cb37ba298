----------------------------- MODULE CachedPath -----------------------------
(***************************************************************************)
(* One V2 node (RepeaterV2 or ReceiverV2): its session cache, its chain and *)
(* the threads between them.  A thread per packet looks the session up,     *)
(* takes it from the chain if the cache has none, adds it and looks it up   *)
(* again; a thread per block stores the block and then caches its sessions. *)
(* Only the operations of the cache are atomic.                             *)
(*                                                                          *)
(* No packet here is corrupted: once a thread has its CachedSession, hash   *)
(* and tag verify, also when the entry has left the table meanwhile.  Which *)
(* blocks are accepted and saved is module Consensus.                       *)
(***************************************************************************)
EXTENDS SessionCache

CONSTANTS Packets,   \* the packets the node has in hand, each in a thread
          SidOf      \* the session each packet names

ASSUME SidOfAssumption == SidOf \in [Packets -> Sids]

VARIABLES
  chain,     \* storage: the sessions of the stored blocks
  caching,   \* sessions of stored blocks that their threads have yet to cache
  at,        \* where each packet's thread is
  waited     \* time since the thread has added the session to the cache

pathVars == <<vars, chain, caching, at, waited>>

InHand == {"arrived", "missed", "found", "added"}

PathTypeOK ==
  /\ TypeOK
  /\ chain \subseteq Sids /\ caching \subseteq Sids
  /\ at \in [Packets -> InHand \cup {"new", "passed", "refused", "lost"}]
  /\ waited \in [Packets -> 0 .. Timeout + 1]

PathInit ==
  /\ Init
  /\ chain = {} /\ caching = {}
  /\ at = [p \in Packets |-> "new"]
  /\ waited = [p \in Packets |-> 0]

Goes(p, to) == at' = [at EXCEPT ![p] = to]

Fresh(s) == s \in cached /\ ~Expired(s)
-----------------------------------------------------------------------------
(* The block threads.                                                        *)

\* receive_finalized_block has stored a block.
StoreBlock ==
  /\ \E new \in SUBSET (Sids \ chain) :
       /\ chain' = chain \cup new
       /\ caching' = caching \cup new
  /\ UNCHANGED <<vars, at, waited>>

CacheSession(s) ==
  /\ s \in caching
  /\ caching' = caching \ {s}
  /\ AddSession(s)
  /\ UNCHANGED <<chain, at, waited>>
-----------------------------------------------------------------------------
(* The packet threads.                                                       *)

\* Packets of one session come again and again; the next one takes the place
\* of one the node is done with.
Arrive(p) ==
  /\ at[p] \notin InHand /\ Goes(p, "arrived")
  /\ UNCHANGED <<vars, chain, caching, waited>>

\* get_session: an entry that has expired is removed and counts as missing.
LookUp(s) == IF s \in cached THEN GetSession(s) ELSE UNCHANGED vars

FirstLook(p) ==
  /\ at[p] = "arrived"
  /\ LookUp(SidOf[p])
  /\ Goes(p, IF Fresh(SidOf[p]) THEN "passed" ELSE "missed")
  /\ UNCHANGED <<chain, caching, waited>>

\* A bug: the cache is all that is asked.
LoadRecord_CacheOnly(p) ==
  /\ at[p] = "missed" /\ Goes(p, "refused")
  /\ UNCHANGED <<vars, chain, caching, waited>>

\* storage.get_session
LoadRecord(p) ==
  /\ at[p] = "missed"
  /\ Goes(p, IF SidOf[p] \in chain THEN "found" ELSE "refused")
  /\ UNCHANGED <<vars, chain, caching, waited>>

\* cache_session_from_record; expires_at of the record is not looked at.
AddBack(p) ==
  /\ at[p] = "found" /\ Goes(p, "added")
  /\ AddSession(SidOf[p])
  /\ UNCHANGED <<chain, caching, waited>>

\* A bug: the record is looked up once only.
SecondLook_Refuse(p) ==
  /\ at[p] = "added"
  /\ Goes(p, "refused")
  /\ waited' = [waited EXCEPT ![p] = 0]
  /\ UNCHANGED <<vars, chain, caching>>

\* The entry may have been evicted or have expired again.
SecondLook(p) ==
  /\ at[p] = "added"
  /\ LookUp(SidOf[p])
  /\ Goes(p, IF Fresh(SidOf[p]) THEN "passed" ELSE "refused")
  /\ waited' = [waited EXCEPT ![p] = 0]
  /\ UNCHANGED <<chain, caching>>

PacketThread(p) == FirstLook(p) \/ LoadRecord(p) \/ AddBack(p) \/ SecondLook(p)
-----------------------------------------------------------------------------
PassTime ==
  /\ Tick
  /\ waited' = [p \in Packets |-> IF at[p] = "added" /\ waited[p] <= Timeout
                                    THEN waited[p] + 1 ELSE waited[p]]
  /\ UNCHANGED <<chain, caching, at>>

CleanUp == CleanupExpired /\ UNCHANGED <<chain, caching, at, waited>>

\* A bug: the cache survives while the chain is read back.
RestartNode_KeepCache ==
  /\ UNCHANGED vars
  /\ chain' \in SUBSET chain
  /\ caching' = {}
  /\ at' = [p \in Packets |-> IF at[p] \in InHand THEN "lost" ELSE at[p]]
  /\ waited' = [p \in Packets |-> 0]

\* A new process: no threads, an empty cache, and the chain that _load finds.
RestartNode ==
  /\ Clear(FALSE)
  /\ chain' \in SUBSET chain
  /\ caching' = {}
  /\ at' = [p \in Packets |-> IF at[p] \in InHand THEN "lost" ELSE at[p]]
  /\ waited' = [p \in Packets |-> 0]

PathNext ==
  \/ StoreBlock \/ (\E s \in Sids : CacheSession(s))
  \/ \E p \in Packets : Arrive(p) \/ PacketThread(p)
  \/ PassTime \/ CleanUp \/ RestartNode

PathSpec == PathInit /\ [][PathNext]_pathVars

\* The packet threads run, time passes, and the cleanup thread wakes up every
\* cleanup_interval.
FairPathSpec ==
  /\ PathSpec
  /\ \A p \in Packets : WF_pathVars(PacketThread(p))
  /\ WF_pathVars(PassTime) /\ WF_pathVars(CleanUp)
-----------------------------------------------------------------------------
(* The cache holds sessions of the node's own chain only, whatever threads   *)
(* are between a look at the chain and the addition, or at a restart.        *)
CachedOnChain == cached \subseteq chain

\* The chain alone can fill the cache, so that any addition may evict.
Crowded == Cardinality(chain) >= Capacity

(* Between adding a session and looking it up again a thread loses it only   *)
(* to a cache that the node's sessions fill, or by sleeping for a whole      *)
(* lifetime of an entry.                                                     *)
ReloadHolds ==
  \A p \in Packets :
    at[p] = "added" /\ ~Fresh(SidOf[p]) => Crowded \/ waited[p] > Timeout

(* Neither the cache nor its threads make a difference: evictions, expiry    *)
(* and reloads by several threads at once leave a node that reads its chain  *)
(* for each packet.  What the chain's record says of the session's own      *)
(* expiry is no part of this; see module DataPath.                           *)
Plain == INSTANCE Verifier WITH
  at <- [p \in Packets |-> IF at[p] \in InHand THEN "open" ELSE at[p]],
  excused <- {p \in Packets : Crowded \/ waited[p] > Timeout}
ImplementsVerifier == Plain!Spec

(* A packet of a session on the chain passes, if the process lives, although *)
(* the session's entry may be evicted or expire at any moment.               *)
KnownPasses ==
  \A p \in Packets :
    (at[p] = "arrived" /\ SidOf[p] \in chain)
      ~> (at[p] \in {"passed", "lost"} \/ Crowded \/ waited[p] > Timeout)
=============================================================================
