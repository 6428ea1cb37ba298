---------------------------- MODULE MCCachedPath ----------------------------
(* A node for TLC: sessions of two radios, and packets of two sessions of    *)
(* one radio.                                                                *)
EXTENDS CachedPath

Owner == [s \in Sids |-> IF s \in {"s1", "s2"} THEN "radio1" ELSE "radio2"]
Names == [p \in Packets |-> IF p = "p1" THEN "s1" ELSE "s2"]
=============================================================================
