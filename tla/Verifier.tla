------------------------------ MODULE Verifier ------------------------------
(***************************************************************************)
(* What a V2 node promises about the packets it verifies, as if it read its *)
(* chain for each of them: a packet passes exactly when its session is on   *)
(* the chain, unless the node has an excuse to refuse it.                   *)
(***************************************************************************)
CONSTANTS Packets, Sids, SidOf

VARIABLES chain,     \* sessions of the node's stored blocks
          at,        \* where each packet is
          excused    \* packets that may be refused though they are known

vars == <<chain, at>>

Known(p) == SidOf[p] \in chain

Init == chain = {} /\ at = [p \in Packets |-> "new"]

Learn == chain \subseteq chain' /\ UNCHANGED at

Take(p) ==
  /\ at[p] # "open"
  /\ at' = [at EXCEPT ![p] = "open"]
  /\ UNCHANGED chain

Pass(p) ==
  /\ at[p] = "open" /\ Known(p)
  /\ at' = [at EXCEPT ![p] = "passed"]
  /\ UNCHANGED chain

Refuse(p) ==
  /\ at[p] = "open" /\ (~Known(p) \/ p \in excused)
  /\ at' = [at EXCEPT ![p] = "refused"]
  /\ UNCHANGED chain

\* A restart loses the packets in hand, and perhaps unsaved blocks.
Restart ==
  /\ chain' \subseteq chain
  /\ at' = [p \in Packets |-> IF at[p] = "open" THEN "lost" ELSE at[p]]

Next ==
  \/ Learn \/ Restart
  \/ \E p \in Packets : Take(p) \/ Pass(p) \/ Refuse(p)

Spec == Init /\ [][Next]_vars
=============================================================================
