--------------------------- MODULE MCGatewayAdmin ----------------------------
(* Instances of GatewayAdmin.                                              *)
EXTENDS GatewayAdmin, TLC

CONSTANTS h1, h2, k1, k2, m1, absent

O(kind, k, w, inc, exc) ==
  [kind |-> kind, key |-> k, weight |-> w, method |-> m1, include |-> inc, exclude |-> exc]

(* Edits of the same and of different parts of the configuration.          *)
EditOps ==
  {O("setWeight", k1, 0, {}, {}), O("deleteWeight", k1, 0, {}, {}),
   O("addNode", k1, 100, {}, {}), O("addNode", k2, 0, {}, {}),
   O("deleteNode", k1, 0, {}, {}), O("updateNode", k1, 0, {}, {}),
   O("addMethodRoute", k1, 0, {k1}, {}), O("addMethodRoute", k1, 0, {}, {k1, k2}),
   O("removeMethodRoute", k1, 0, {k1}, {k2}), O("deleteMethodRoute", k1, 0, {}, {})}

NodeOps == {O("deleteNode", k1, 0, {}, {}), O("updateNode", k1, 0, {}, {})}
Symmetry == Permutations({h1, h2})
=============================================================================
