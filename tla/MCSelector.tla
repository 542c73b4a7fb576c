----------------------------- MODULE MCSelector ------------------------------
(* Instances of Selector.                                                  *)
EXTENDS Selector

CONSTANTS k1, k2, m1

N(p, k, up) == [pool |-> p, node |-> [key |-> k, up |-> up]]

(* Two keys in every pool, one of them down or going down.                 *)
SomeUpserts ==
  {N("state", k1, TRUE), N("state", k1, FALSE), N("state", k2, TRUE),
   N("archive", k1, TRUE), N("archive", k2, TRUE), N("archive", k2, FALSE),
   N("native", k1, TRUE), N("native", k2, FALSE)}

(* Weights 0 (drained), 1 and 3 against a default of 2, alone and with     *)
(* routes for the method.                                                  *)
W(w1, w2) == [k \in {k1, k2} |-> IF k = k1 THEN w1 ELSE w2]
R(inc, exc) == [m \in {m1} |-> [include |-> inc, exclude |-> exc]]
SomeGateways ==
  {[weights |-> W(1, 0), routes |-> R({k1}, {k1})],
   [weights |-> [k \in {k2} |-> 3], routes |-> R({}, {k1})],
   [weights |-> W(1, 3), routes |-> <<>>],
   [weights |-> W(0, 0), routes |-> <<>>]}
=============================================================================
