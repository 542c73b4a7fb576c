----------------------------- MODULE MCDiscovery -----------------------------
(* Small instances of Discovery for TLC.                                   *)
EXTENDS Discovery, TLC

CONSTANTS n1, n2, h1, v1, v2, bad

(* A node and a height, two nodes.                                         *)
NodeAndHeight == (n1 :> "node") @@ (h1 :> "height")
TwoNodes == (n1 :> "node") @@ (n2 :> "node")

AllDecode == [k \in Keys |-> {}]
BadFails  == [k \in Keys |-> {bad}]
=============================================================================
