------------------------------- MODULE Ledger ------------------------------
(***************************************************************************)
(* What the session blockchain promises: one append-only log of blocks     *)
(* signed by a majority, and readers that see a prefix of it, move one     *)
(* block forward at a time, and after a restart may have fallen back to an *)
(* earlier prefix of what they had, never to another history.              *)
(*                                                                         *)
(* The one exception is the writer's own crash while it stores: the log    *)
(* may then start over from genesis, and from there on readers keep what   *)
(* they have, and add majority-signed blocks only, but need not agree.     *)
(***************************************************************************)
EXTENDS Chain

VARIABLES log,      \* the blocks that are stored permanently
          view,     \* view[r]: what r knows of the log
          intact    \* the log has never started over

vars == <<log, view, intact>>

Init == /\ log = <<Genesis>>
        /\ view = [r \in Repeaters |-> <<Genesis>>]
        /\ intact = TRUE

\* A block that carries a majority's signatures is stored.
Extend ==
  /\ Len(log') = Len(log) + 1
  /\ IsPrefix(log, log')
  /\ AddBlockOK(log, Last(log'), Majority)
  /\ UNCHANGED <<view, intact>>

\* The writer's file was truncated.
StartOver ==
  /\ log' = <<Genesis>>
  /\ intact' = FALSE
  /\ UNCHANGED view

Learn(r) ==
  /\ view' = [view EXCEPT ![r] = Append(@, Last(view'[r]))]
  /\ Cardinality(Last(view'[r]).sigs) >= Majority
  /\ intact => IsPrefix(view'[r], log)
  /\ UNCHANGED <<log, intact>>

FallBack(r) ==
  /\ \E n \in 1 .. Len(view[r]) :
        view' = [view EXCEPT ![r] = SubSeq(@, 1, n)]
  /\ UNCHANGED <<log, intact>>

Next == Extend \/ StartOver \/ \E r \in Repeaters : Learn(r) \/ FallBack(r)

Spec == Init /\ [][Next]_vars
=============================================================================
