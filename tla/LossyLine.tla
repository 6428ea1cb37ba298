------------------------------ MODULE LossyLine ------------------------------
(***************************************************************************)
(* What a line of buffers promises, and what an authenticated session makes  *)
(* of a network: messages may get lost, but none is delivered twice, none    *)
(* comes back, and one that is overtaken is lost.                            *)
(***************************************************************************)
EXTENDS Naturals, Sequences

VARIABLES sent,       \* messages put in so far; they are numbered from 1
          transit,    \* messages on their way
          delivered   \* messages taken out, in order

vars == <<sent, transit, delivered>>

Init == sent = 0 /\ transit = {} /\ delivered = <<>>

Send ==
  /\ sent' = sent + 1
  /\ transit' \in {transit, transit \cup {sent'}}
  /\ UNCHANGED delivered

Lose ==
  /\ transit' \in SUBSET transit
  /\ UNCHANGED <<sent, delivered>>

\* A message leaves the line; those before it are lost.
Deliver ==
  \E m \in transit :
    /\ transit' = {k \in transit : m < k}
    /\ delivered' = Append(delivered, m)
    /\ UNCHANGED sent

Next == Send \/ Lose \/ Deliver

Spec == Init /\ [][Next]_vars
=============================================================================
