----------------------------- MODULE ConfigFeed ------------------------------
(***************************************************************************)
(* What etcd discovery promises to the load balancer: for every key, the   *)
(* load balancer moves forward through the values the key has had in etcd. *)
(* It may be behind and it may skip values, but it never goes back to an   *)
(* older value and never sees one that was not stored.                     *)
(***************************************************************************)
EXTENDS Naturals, Sequences, FiniteSetsExt

CONSTANTS
  Keys,       (* etcd keys under the configured prefix                      *)
  Values,     (* stored values                                              *)
  Malformed,  (* Malformed[k]: values the key's handler cannot decode       *)
  NoVal       (* absence of a key                                           *)

VARIABLES
  log,   (* log[r]: the keys revision r changed, with their new values      *)
  view,  (* the value the load balancer has for each key                    *)
  seen   (* the revision that value is from                                 *)

(* The revisions up to r that changed k.                                   *)
Changes(k, r) == {i \in 1..r : k \in DOMAIN log[i]}

LastChange(k, r) == IF Changes(k, r) = {} THEN 0 ELSE Max(Changes(k, r))

ValueAt(k, r) == IF Changes(k, r) = {} THEN NoVal ELSE log[LastChange(k, r)][k]

Init ==
  /\ log = <<>>
  /\ view = [k \in Keys |-> NoVal]
  /\ seen = [k \in Keys |-> 0]

(* An etcd transaction; a deletion needs a key to delete.                  *)
Write(txn) ==
  /\ \A k \in DOMAIN txn : txn[k] = NoVal => ValueAt(k, Len(log)) # NoVal
  /\ log' = Append(log, txn)
  /\ UNCHANGED <<view, seen>>

(* The load balancer learns the value k had at a later revision.           *)
Advance(k) ==
  /\ \E r \in seen[k] + 1 .. Len(log) :
       /\ ValueAt(k, r) \notin Malformed[k]
       /\ seen' = [seen EXCEPT ![k] = r]
       /\ view' = [view EXCEPT ![k] = ValueAt(k, r)]
  /\ UNCHANGED log

Txns == UNION {[S -> Values \cup {NoVal}] : S \in SUBSET Keys \ {{}}}

Next == (\E txn \in Txns : Write(txn)) \/ (\E k \in Keys : Advance(k))

Spec == Init /\ [][Next]_<<log, view, seen>>
=============================================================================
