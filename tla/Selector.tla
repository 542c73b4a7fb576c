------------------------------ MODULE Selector -------------------------------
(***************************************************************************)
(* Node selection for one chain: the pools of lb/selector/random as        *)
(* ordered lists, the chain height, the weights and method routes of       *)
(* lb/jsonrpc/gateway_map.go, and GetNode.  GetNode holds the read lock of *)
(* the pools from the pool choice to the weighted draw, but reads the      *)
(* routes and the weights of the gateway under the gateway's own lock, one *)
(* after the other, so a gateway update can fall between the two.          *)
(***************************************************************************)
EXTENDS Integers, Sequences, SequencesExt, FiniteSets, FiniteSetsExt

CONSTANTS
  Keys,           (* node keys                                              *)
  Methods,        (* JSON-RPC methods                                       *)
  Upserts,        (* the nodes published, each with its pool                *)
  Heights,        (* heights the chain may have                             *)
  Gateways,       (* gateway configurations published                       *)
  Blocks,         (* block numbers a request may be pinned to               *)
  DefaultWeight,  (* types.DefaultWeight                                    *)
  StateWindow,    (* the number of latest blocks state nodes keep           *)
  NoHeight,       (* no height is known                                     *)
  NoNode,         (* the NoAvailableNode error                              *)
  NoCall          (* no GetNode is running                                  *)

Pools == {"archive", "state", "native"}
Node == [key : Keys, up : BOOLEAN]

(* The key sets of a discovery.MethodRoute.                                *)
Route == [include : SUBSET Keys, exclude : SUBSET Keys]

ASSUME ConstantsOK ==
  /\ Upserts \subseteq [pool : Pools, node : Node]
  /\ Heights \subseteq Nat /\ NoHeight \notin Heights
  /\ \A g \in Gateways :
       /\ DOMAIN g.weights \subseteq Keys /\ \A k \in DOMAIN g.weights : g.weights[k] \in Nat
       /\ DOMAIN g.routes \subseteq Methods /\ \A m \in DOMAIN g.routes : g.routes[m] \in Route
  /\ Blocks \subseteq Nat /\ StateWindow \in Nat /\ DefaultWeight \in Nat \ {0}
  /\ NoNode \notin Node

VARIABLES
  nodes,    (* nodes[p]: the list of pool p                                 *)
  height,   (* Random.chainHeight of the chain, or NoHeight                 *)
  gateway,  (* the chain's entries in weightMap and methodRouteMap          *)
  call,     (* the GetNode between its filter and its draw: the request and *)
            (* the candidates                                               *)
  picked    (* what the latest GetNode returned, until the next one starts  *)

vars == <<nodes, height, gateway, call, picked>>

NoGateway == [weights |-> <<>>, routes |-> <<>>]

-----------------------------------------------------------------------------
(* utils.PickNodes.                                                        *)

(* What the pool choice needs of a request's block context: whether it is  *)
(* an Equals context with a block number other than latest and pending,    *)
(* and the number.  finalized and safe are the negative numbers of         *)
(* go-ethereum's rpc package.                                              *)
Recent == [pinned |-> FALSE, block |-> 0]
Pinned(b) == [pinned |-> TRUE, block |-> b]
finalized == -3
safe == -4
Contexts == {Recent} \cup {Pinned(b) : b \in Blocks \cup {finalized, safe}}

(* ctx.Archive and requestKey = "native" force a pool.                     *)
Request == [ctx : Contexts, method : Methods, batch : BOOLEAN,
            force : {"none", "archive", "native"}]

preferAvailableNodes(list) ==
  LET available == SelectSeq(list, LAMBDA n : n.up)
  IN IF available = <<>> THEN list ELSE available


InStateWindow(block) == block >= height - StateWindow

PickNodes(req) ==
  LET archive  == preferAvailableNodes(nodes["archive"])
      state    == preferAvailableNodes(nodes["state"])
      onePool  == archive = <<>> \/ state = <<>>
      state2   == IF state = <<>> THEN archive ELSE state
  IN CASE req.force = "native"  -> preferAvailableNodes(nodes["native"])
       [] req.force = "archive" -> archive
       [] req.force = "none" ->
            IF onePool \/ ~req.ctx.pinned THEN state2
            ELSE IF height = NoHeight THEN archive
            ELSE IF InStateWindow(req.ctx.block) THEN state2
            ELSE archive

-----------------------------------------------------------------------------
(* gatewayStrategy.FilterNodesByMethod.                                    *)

applyMethodRoutes(route, list) ==
  IF route.include # {} THEN SelectSeq(list, LAMBDA n : n.key \in route.include)
  ELSE IF route.exclude # {} THEN SelectSeq(list, LAMBDA n : n.key \notin route.exclude)
  ELSE list

FilterNodesByMethod(method, list) ==
  IF method \in DOMAIN gateway.routes
  THEN applyMethodRoutes(gateway.routes[method], list)
  ELSE list

Candidates(req) ==
  IF req.batch THEN PickNodes(req) ELSE FilterNodesByMethod(req.method, PickNodes(req))

-----------------------------------------------------------------------------
(* The weighted draw of Random.GetNode.                                    *)

nodeWeight(k) ==
  IF k \in DOMAIN gateway.weights THEN gateway.weights[k] ELSE DefaultWeight

(* The sum of the weights of the first i nodes.                            *)
curWeight(list, i) ==
  FoldLeft(LAMBDA sum, n : sum + nodeWeight(n.key), 0, SubSeq(list, 1, i))

weightSum(list) == curWeight(list, Len(list))

(* utils.RangeRandom(0, weightSum) draws one of these.                     *)
TargetWeights(list) == 0 .. weightSum(list) - 1

(* Fault: the comparison includes equality.                                *)
FaultyOwner(list, targetWeight) ==
  LET over == {i \in DOMAIN list : curWeight(list, i) >= targetWeight}
  IN IF over = {} THEN NoNode ELSE list[Min(over)]

(* The first node whose running sum exceeds targetWeight.                  *)
Owner(list, targetWeight) ==
  LET over == {i \in DOMAIN list : curWeight(list, i) > targetWeight}
  IN IF over = {} THEN NoNode ELSE list[Min(over)]

-----------------------------------------------------------------------------
Init ==
  /\ nodes = [p \in Pools |-> <<>>]
  /\ height = NoHeight
  /\ gateway = NoGateway
  /\ call = NoCall
  /\ picked = NoNode

(* Fault: GetNode does not hold the lock.                                  *)
FaultyUnlocked == TRUE

(* The read lock is held by a running GetNode.                             *)
Unlocked == call = NoCall

IndexOf(list, k) == SelectInSeq(list, LAMBDA n : n.key = k)

(* Fault: a published node is always appended.                             *)
FaultyUpsertInto(list, n) == Append(list, n)

(* lbnode.UpsertInto: the first node with the key is updated or replaced   *)
(* where it stands, a new key goes to the end.                             *)
UpsertInto(list, n) ==
  LET i == IndexOf(list, n.key)
  IN IF i = 0 THEN Append(list, n) ELSE [list EXCEPT ![i] = n]

UpsertNode(u) ==
  /\ Unlocked
  /\ nodes' = [nodes EXCEPT ![u.pool] = UpsertInto(@, u.node)]
  /\ UNCHANGED <<height, gateway, call, picked>>

(* Random.RemoveNode removes the first node with the key, if there is one. *)
Without(list, k) ==
  LET i == IndexOf(list, k)
  IN IF i = 0 THEN list ELSE RemoveAt(list, i)

RemoveNode(p, k) ==
  /\ Unlocked
  /\ nodes' = [nodes EXCEPT ![p] = Without(@, k)]
  /\ UNCHANGED <<height, gateway, call, picked>>

(* Fault: the height is off by one.                                        *)
FaultyUpdateChainHeight(h) ==
  /\ Unlocked
  /\ height' = h - 1
  /\ UNCHANGED <<nodes, gateway, call, picked>>

UpdateChainHeight(h) ==
  /\ Unlocked
  /\ height' = h
  /\ UNCHANGED <<nodes, gateway, call, picked>>

(* A gateway PUT replaces weights and routes, a gateway DELETE drops both. *)
(* Neither takes the lock of the pools.                                    *)
UpdateGateway(g) ==
  /\ gateway' = g
  /\ UNCHANGED <<nodes, height, call, picked>>

DeleteGateway ==
  /\ gateway' = NoGateway
  /\ UNCHANGED <<nodes, height, call, picked>>

(* GetNode up to the method filter; without a candidate it returns.        *)
GetNodeFilter(req) ==
  /\ call = NoCall
  /\ picked' = NoNode
  /\ call' = IF Candidates(req) = <<>> THEN NoCall
             ELSE [req |-> req, list |-> Candidates(req), routes |-> gateway.routes]
  /\ UNCHANGED <<nodes, height, gateway>>

(* GetNode from the weights on: an error when they sum to zero, otherwise  *)
(* the owner of a random target weight.                                    *)
GetNodeDraw ==
  /\ call # NoCall
  /\ \/ /\ weightSum(call.list) = 0
        /\ picked' = NoNode
     \/ \E t \in TargetWeights(call.list) : picked' = Owner(call.list, t)
  /\ call' = NoCall
  /\ UNCHANGED <<nodes, height, gateway>>

Next ==
  \/ \E u \in Upserts : UpsertNode(u)
  \/ \E p \in Pools : \E k \in Keys : RemoveNode(p, k)
  \/ \E h \in Heights : UpdateChainHeight(h)
  \/ \E g \in Gateways : UpdateGateway(g)
  \/ DeleteGateway
  \/ \E req \in Request : GetNodeFilter(req)
  \/ GetNodeDraw

Spec == Init /\ [][Next]_vars

-----------------------------------------------------------------------------
(* Properties.                                                             *)

TypeOK ==
  /\ nodes \in [Pools -> Seq(Node)]
  /\ height \in Heights \cup {NoHeight}
  /\ gateway \in Gateways \cup {NoGateway}
  /\ picked \in Node \cup {NoNode}
  /\ call # NoCall => /\ call.req \in Request
                      /\ call.list \in Seq(Node) \ {<<>>}

(* A pool lists a key at most once whatever updates and removals came      *)
(* before, so that Random.RemoveNode, which stops at the first match,      *)
(* leaves no second entry behind.                                          *)
UniqueKeys ==
  \A p \in Pools : \A i, j \in DOMAIN nodes[p] :
    nodes[p][i].key = nodes[p][j].key => i = j

(* The pool of a request: a forced one even if it is empty, as in          *)
(* pick_nodes.go:54-59, or the preferred one of state and archive of       *)
(* docs/architecture.md:94-102 unless it is empty.                         *)
NeedsArchive(ctx) ==
  ctx.pinned /\ (height = NoHeight \/ height - ctx.block > StateWindow)

IdealPool(req) ==
  LET preferred == IF NeedsArchive(req.ctx) THEN "archive" ELSE "state"
      other     == IF NeedsArchive(req.ctx) THEN "state" ELSE "archive"
  IN IF req.force # "none" THEN req.force
     ELSE IF nodes[preferred] # <<>> THEN preferred ELSE other

Allowed(route, k) == IF route.include # {} THEN k \in route.include ELSE k \notin route.exclude

RoutesAllow(routes, req, k) ==
  ~req.batch /\ req.method \in DOMAIN routes => Allowed(routes[req.method], k)

Preferred(list) ==
  {n \in ToSet(list) : n.up \/ \A m \in ToSet(list) : ~m.up}


(* The draw is exact: under the weights in force each candidate owns as    *)
(* many target weights as its weight, a node of weight zero none, and no   *)
(* target weight is left over (random.go:106 "This should never happen"),  *)
(* also when the gateway changed after the candidates were filtered.       *)
DrawIsProportional ==
  call # NoCall =>
    LET owned(n) == {t \in TargetWeights(call.list) : Owner(call.list, t) = n}
    IN /\ \A n \in ToSet(call.list) : Cardinality(owned(n)) = nodeWeight(n.key)
       /\ owned(NoNode) = {}

(* The node GetNode returns is at that moment a member of the pool its     *)
(* request calls for, as available as that pool can offer, allowed by the  *)
(* routes the call read and not drained by the weights: no removal or      *)
(* downgrade takes effect between the choice and the return.               *)
ReturnsEligibleNode ==
  [][GetNodeDraw /\ picked' # NoNode =>
       /\ picked' \in Preferred(nodes'[IdealPool(call.req)])
       /\ RoutesAllow(call.routes, call.req, picked'.key)
       /\ nodeWeight(picked'.key) # 0]_vars
=============================================================================
