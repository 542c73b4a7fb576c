---------------------------- MODULE GatewayAdmin -----------------------------
(***************************************************************************)
(* The management handlers of http_handler/handler.go that edit a chain's  *)
(* nodes and gateway configuration in etcd.  A handler reads what it needs *)
(* in one or two steps, computes the new configuration and commits it in a *)
(* transaction guarded by the revision it read.  Several handlers, of this *)
(* proxy or of others, run at the same time, and the registrar of official *)
(* nodes writes to the same keys.                                          *)
(***************************************************************************)
EXTENDS Naturals

CONSTANTS
  Handlers,       (* running management requests                            *)
  Keys,           (* node keys                                              *)
  Methods,        (* JSON-RPC methods                                       *)
  Weights,        (* weights, with DefaultWeight                            *)
  DefaultWeight,  (* types.DefaultWeight                                    *)
  Ops,            (* the requests made, see Op                              *)
  Absent,         (* there is no node under the key                         *)
  MaxRev          (* bound: the etcd revision                               *)

Sources == {"manual", "official"}
Route == [include : SUBSET Keys, exclude : SUBSET Keys]

(* A management request; fields that its kind does not use are arbitrary.  *)
Kinds == {"setWeight", "deleteWeight", "addNode", "deleteNode", "updateNode",
          "addMethodRoute", "deleteMethodRoute", "removeMethodRoute"}
Op == [kind : Kinds, key : Keys, weight : Weights, method : Methods,
       include : SUBSET Keys, exclude : SUBSET Keys]

ASSUME ConstantsOK ==
  /\ DefaultWeight \in Weights /\ Weights \subseteq Nat
  /\ Ops \subseteq Op /\ Absent \notin Sources /\ MaxRev \in Nat

VARIABLES
  nodes,    (* etcd: the source of the node under each key, or Absent       *)
  gateway,  (* etcd: weights and routes, and the revision of the key, 0 if  *)
            (* it is missing                                                *)
  rev,      (* the etcd revision                                            *)
  view,     (* the keys in the selector of the proxy                        *)
  op        (* op[h]: the request of h, where it is, what it read and what  *)
            (* its commit replaced                                          *)

vars == <<nodes, gateway, rev, view, op>>

NoConfig == [weights |-> [k \in {} |-> 0], routes |-> [m \in {} |-> {}]]
NoOp == [pc |-> "idle"]

Init ==
  /\ nodes \in [Keys -> Sources \cup {Absent}]
  /\ gateway = [config |-> NoConfig, rev |-> 0]
  /\ rev = 1
  /\ view = {k \in Keys : nodes[k] # Absent}
  /\ op = [h \in Handlers |-> NoOp]

-----------------------------------------------------------------------------
(* The edits of a configuration.                                           *)

Drop(f, x) == [y \in DOMAIN f \ {x} |-> f[y]]
Put(f, x, v) == [y \in DOMAIN f \cup {x} |-> IF y = x THEN v ELSE f[y]]

(* Gateway.SetWeight: the default weight is not stored.                    *)
SetWeight(c, k, w) ==
  [c EXCEPT !.weights = IF w = DefaultWeight THEN Drop(@, k) ELSE Put(@, k, w)]

IsEmpty(route) == route.include = {} /\ route.exclude = {}
Minus(route, inc, exc) == [include |-> route.include \ inc, exclude |-> route.exclude \ exc]

(* Gateway.ClearMethodRoute.                                               *)
ClearMethodRoute(c, k) ==
  LET cleared(m) == Minus(c.routes[m], {k}, {k})
  IN [c EXCEPT !.routes = [m \in {n \in DOMAIN c.routes : ~IsEmpty(cleared(n))} |-> cleared(m)]]

(* An existing route is extended.                                          *)
AddMethodRoute(c, o) ==
  LET old == IF o.method \in DOMAIN c.routes THEN c.routes[o.method]
             ELSE [include |-> {}, exclude |-> {}]
  IN [c EXCEPT !.routes = Put(@, o.method, [include |-> old.include \cup o.include,
                                            exclude |-> old.exclude \cup o.exclude])]

(* Fault: a route without nodes is kept.                                   *)
FaultyRemoveMethodRoute(c, o) ==
  [c EXCEPT !.routes = Put(@, o.method, Minus(c.routes[o.method], o.include, o.exclude))]

RemoveMethodRoute(c, o) ==
  LET new == Minus(c.routes[o.method], o.include, o.exclude)
  IN [c EXCEPT !.routes = IF IsEmpty(new) THEN Drop(@, o.method) ELSE Put(@, o.method, new)]

(* What a request that edits the configuration makes of it.                *)
Edit(o, c) ==
  CASE o.kind \in {"setWeight", "addNode"} -> SetWeight(c, o.key, o.weight)
    [] o.kind = "deleteWeight" -> SetWeight(c, o.key, DefaultWeight)
    [] o.kind = "deleteNode" -> ClearMethodRoute(SetWeight(c, o.key, DefaultWeight), o.key)
    [] o.kind = "addMethodRoute" -> AddMethodRoute(c, o)
    [] o.kind = "deleteMethodRoute" -> [c EXCEPT !.routes = Drop(@, o.method)]
    [] o.kind = "removeMethodRoute" -> RemoveMethodRoute(c, o)

(* The transaction of addNode has the gateway key in it unless the weight  *)
(* is the default; that of any other request always has.                   *)
EditsGateway(o) == ~(o.kind = "addNode" /\ o.weight = DefaultWeight)

EditsNode(o) == o.kind \in {"addNode", "deleteNode"}

-----------------------------------------------------------------------------
(* The first checks of a handler.  Those for weights and routes look in    *)
(* the proxy's own pools, those for nodes in etcd.                         *)

findNode(k) == k \in view

checkNodeExist(o) ==
  o.include \cup o.exclude # {} /\ o.include \cup o.exclude \subseteq view

Start(h, o, pc) ==
  /\ op[h].pc = "idle"
  /\ op' = [op EXCEPT ![h] = [pc |-> pc, req |-> o, config |-> NoConfig, rev |-> 0]]
  /\ UNCHANGED <<nodes, gateway, rev, view>>

BeginSetWeight(h, o) == o.kind = "setWeight" /\ findNode(o.key) /\ Start(h, o, "get")

BeginDeleteWeight(h, o) == o.kind = "deleteWeight" /\ findNode(o.key) /\ Start(h, o, "get")

BeginAddNode(h, o) ==
  /\ o.kind = "addNode" /\ nodes[o.key] = Absent
  /\ Start(h, o, IF EditsGateway(o) THEN "get" ELSE "commit")

BeginDeleteNode(h, o) ==
  o.kind = "deleteNode" /\ nodes[o.key] = "manual" /\ Start(h, o, "get")

BeginUpdateNode(h, o) ==
  o.kind = "updateNode" /\ nodes[o.key] = "manual" /\ Start(h, o, "put")

BeginAddMethodRoute(h, o) ==
  o.kind = "addMethodRoute" /\ checkNodeExist(o) /\ Start(h, o, "get")

BeginRemoveMethodRoute(h, o) ==
  o.kind = "removeMethodRoute" /\ checkNodeExist(o) /\ Start(h, o, "get")

BeginDeleteMethodRoute(h, o) == o.kind = "deleteMethodRoute" /\ Start(h, o, "get")

RouteMissing(o, c) ==
  o.kind \in {"deleteMethodRoute", "removeMethodRoute"} /\ o.method \notin DOMAIN c.routes

(* getGatewayConfig and the edit of the copy.                              *)
GetGateway(h) ==
  /\ op[h].pc = "get"
  /\ op' = [op EXCEPT ![h] =
       IF RouteMissing(@.req, gateway.config) THEN NoOp
       ELSE [@ EXCEPT !.pc = "commit", !.rev = gateway.rev,
                      !.config = Edit(op[h].req, gateway.config)]]
  /\ UNCHANGED <<nodes, gateway, rev, view>>

(* Fault: the gateway's revision is not compared.                          *)
FaultyUnchanged(h) == op[h].req.kind = "addNode" => nodes[op[h].req.key] = Absent

(* Fault: AddNode relies on its first look at the key.                     *)
FaultyUnchangedNode(h) == EditsGateway(op[h].req) => gateway.rev = op[h].rev

(* The If part of the transaction.  DeleteNode compares the gateway only.  *)
Unchanged(h) ==
  /\ EditsGateway(op[h].req) => gateway.rev = op[h].rev
  /\ op[h].req.kind = "addNode" => nodes[op[h].req.key] = Absent

(* Fault: a deleted node leaves a marker.                                  *)
FaultyNodeAfter(o) == IF o.kind = "deleteNode" THEN "deleted" ELSE "manual"

NodeAfter(o) == IF o.kind = "deleteNode" THEN Absent ELSE "manual"

(* The transaction goes through; the answer may still be lost.             *)
Commit(h) ==
  LET o == op[h].req IN
    /\ op[h].pc = "commit" /\ Unchanged(h)
    /\ rev < MaxRev /\ rev' = rev + 1
    /\ gateway' = IF EditsGateway(o) THEN [config |-> op[h].config, rev |-> rev'] ELSE gateway
    /\ nodes' = IF EditsNode(o) THEN [nodes EXCEPT ![o.key] = NodeAfter(o)] ELSE nodes
    /\ op' = [op EXCEPT ![h] = [pc |-> "done", req |-> o, replaced |-> nodes[o.key]]]
    /\ UNCHANGED view

(* UpdateNode has no transaction: it puts what it made of its first read.  *)
PutNode(h) ==
  LET o == op[h].req IN
    /\ op[h].pc = "put"
    /\ rev < MaxRev /\ rev' = rev + 1
    /\ nodes' = [nodes EXCEPT ![o.key] = "manual"]
    /\ op' = [op EXCEPT ![h] = [pc |-> "done", req |-> o, replaced |-> nodes[o.key]]]
    /\ UNCHANGED <<gateway, view>>

(* "concurrent modification detected, please retry".                       *)
Conflict(h) ==
  /\ op[h].pc = "commit" /\ ~Unchanged(h)
  /\ op' = [op EXCEPT ![h] = NoOp]
  /\ UNCHANGED <<nodes, gateway, rev, view>>

(* An etcd call fails before it takes effect.                              *)
Fail(h) ==
  /\ op[h].pc \in {"get", "commit", "put"}
  /\ op' = [op EXCEPT ![h] = NoOp]
  /\ UNCHANGED <<nodes, gateway, rev, view>>

Respond(h) ==
  /\ op[h].pc = "done"
  /\ op' = [op EXCEPT ![h] = NoOp]
  /\ UNCHANGED <<nodes, gateway, rev, view>>

-----------------------------------------------------------------------------
(* Official nodes come and go, the gateway key may be deleted by hand, and *)
(* the proxy's pools follow etcd with a delay.                             *)
Register(k, source) ==
  /\ rev < MaxRev /\ rev' = rev + 1
  /\ nodes' = [nodes EXCEPT ![k] = source]
  /\ UNCHANGED <<gateway, view, op>>

DropGateway ==
  /\ gateway.rev # 0
  /\ rev < MaxRev /\ rev' = rev + 1
  /\ gateway' = [config |-> NoConfig, rev |-> 0]
  /\ UNCHANGED <<nodes, view, op>>

Refresh(k) ==
  /\ view' = IF nodes[k] = Absent THEN view \ {k} ELSE view \cup {k}
  /\ UNCHANGED <<nodes, gateway, rev, op>>

Next ==
  \/ \E h \in Handlers : \E o \in Ops :
       \/ BeginSetWeight(h, o)
       \/ BeginDeleteWeight(h, o)
       \/ BeginAddNode(h, o)
       \/ BeginDeleteNode(h, o)
       \/ BeginUpdateNode(h, o)
       \/ BeginAddMethodRoute(h, o)
       \/ BeginRemoveMethodRoute(h, o)
       \/ BeginDeleteMethodRoute(h, o)
  \/ \E h \in Handlers :
       \/ GetGateway(h)
       \/ Commit(h)
       \/ PutNode(h)
       \/ Conflict(h)
       \/ Fail(h)
       \/ Respond(h)
  \/ \E k \in Keys : \E s \in {"official", Absent} : Register(k, s)
  \/ DropGateway
  \/ \E k \in Keys : Refresh(k)

Spec == Init /\ [][Next]_vars

-----------------------------------------------------------------------------
(* Properties.                                                             *)

TypeOK ==
  /\ nodes \in [Keys -> Sources \cup {Absent}]
  /\ rev \in 1 .. MaxRev /\ gateway.rev \in 0 .. rev
  /\ DOMAIN gateway.config.weights \subseteq Keys /\ DOMAIN gateway.config.routes \subseteq Methods
  /\ view \subseteq Keys
  /\ \A h \in Handlers : op[h].pc \in {"idle", "get", "commit", "put", "done"}

(* No edit is lost (handler.go:354 "Without the revision check a           *)
(* concurrent gateway edit would be lost"): although a handler edits a     *)
(* copy it read earlier, its commit has the effect of the edit on the      *)
(* configuration in etcd at that moment, also after the key was deleted    *)
(* and written again in between.                                           *)
EditsAreAtomic ==
  [][\A h \in Handlers : (op[h].pc = "commit" /\ op'[h].pc = "done") =>
       (EditsGateway(op[h].req) => gateway'.config = Edit(op[h].req, gateway.config))]_vars

(* AddNode never takes the place of a node that was registered between its *)
(* check and its commit.                                                   *)
AddReplacesNothing ==
  \A h \in Handlers :
    (op[h].pc = "done" /\ op[h].req.kind = "addNode") => op[h].replaced = Absent

(* A route in etcd names at least one node and a stored weight is not the  *)
(* default, whatever edits were combined: an empty route would be read as  *)
(* no route, and a stored default weight would survive a change of it.     *)
ConfigIsNormal ==
  /\ \A m \in DOMAIN gateway.config.routes : ~IsEmpty(gateway.config.routes[m])
  /\ \A k \in DOMAIN gateway.config.weights : gateway.config.weights[k] # DefaultWeight

(* "only manual nodes can be deleted" (handler.go:421) and "only manual    *)
(* nodes can be updated" (handler.go:511): no successful DeleteNode or     *)
(* UpdateNode took the place of an official node.                          *)
OfficialIsKept ==
  \A h \in Handlers :
    (op[h].pc = "done" /\ op[h].req.kind \in {"deleteNode", "updateNode"}) =>
      op[h].replaced # "official"
=============================================================================
