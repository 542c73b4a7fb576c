--------------------------- MODULE MCNodeLifecycle ---------------------------
(* Small instances of NodeLifecycle for TLC.                               *)
EXTENDS NodeLifecycle, TLC

CONSTANTS k1, a0, a1, a2, a3

(* k1 names an archive node and a native node; no PUT changes the role.    *)
StableUpdates ==
  [id \in NodeIds |->
     IF id.native THEN [addr : {a1}, role : {"archive"}, up : {TRUE}]
     ELSE [addr : {a1, a2}, role : {"archive"}, up : BOOLEAN]]

(* The regular node changes its role and its address, and some of its      *)
(* values cannot be built.                                                 *)
AnyUpdates ==
  [id \in NodeIds |->
     IF id.native THEN {}
     ELSE [addr : {a1, a2}, role : Roles, up : BOOLEAN]
          \cup [addr : Unbuildable, role : {"state"}, up : BOOLEAN]]
=============================================================================
