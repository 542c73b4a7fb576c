---------------------------- MODULE NodeLifecycle ----------------------------
(***************************************************************************)
(* How a discovered node gets into, changes in and leaves the selector     *)
(* pools of one chain: the node branch of LoadBalancer.BackgroundRefresh-  *)
(* Node (lb/lb.go), the generation table that invalidates health checks    *)
(* (lb/node_generation.go), the health check goroutines (lb/node_health.go)*)
(* and the pools of lb/selector/random.  The producers of nodeChannel are  *)
(* etcd discovery and the two local-node handlers of http_handler.         *)
(*                                                                         *)
(* The event loop is serial, but its handlers are several steps: each      *)
(* step below holds one lock (nodeGenerations.mu or Random.lock), and the  *)
(* health checks and the handlers run between any two of them.             *)
(***************************************************************************)
EXTENDS Naturals, Sequences

CONSTANTS
  Keys,         (* node keys of the chain                                   *)
  Addrs,        (* <ip>:<port> addresses                                    *)
  Unbuildable,  (* addresses for which lbnode.New returns an error          *)
  ZeroAddr,     (* the address of a TargetNode nothing was decoded into     *)
  Updates,      (* Updates[id]: the values PUT events of id may carry       *)
  NoNode,       (* absence of a node                                        *)
  ChannelCap,   (* capacity of nodeChannel                                  *)
  MaxEvents     (* bound: events sent to nodeChannel in one behaviour       *)

Roles == {"state", "archive"}
Pools == {"state", "archive", "native"}

(* A discovery.TargetNode: what the pools and the checks tell apart.  The  *)
(* state is StateAvailable (1) or one of delay (2) and offline (3), which  *)
(* the code treats alike.                                                  *)
Node == [addr : Addrs, role : Roles, up : BOOLEAN]

(* nodeIdentity of one chain: native nodes are a namespace of their own.   *)
NodeIds == [key : Keys, native : BOOLEAN]

ASSUME ConstantsOK ==
  /\ Unbuildable \subseteq Addrs
  /\ ZeroAddr \in Addrs
  /\ Updates \in [NodeIds -> SUBSET Node]
  /\ NoNode \notin Node
  /\ ChannelCap \in Nat \ {0}
  /\ MaxEvents \in Nat

Event == [op : {"put", "delete"}, id : NodeIds, node : Node]
NoEvent == [op |-> "none"]

VARIABLES
  nodeChannel,  (* events sent and not yet taken by the event loop          *)
  localDelete,  (* event DeleteLocalNode has built and not yet sent         *)
  seq,          (* nodeGenerations.seq                                      *)
  gens,         (* nodeGenerations.gens; 0 stands for a missing entry       *)
  loop,         (* what the event loop is doing: its step, event, generation*)
  checks,       (* health check goroutines                                  *)
  pool,         (* Random.stateNodes, archiveNodes and nativeNodes          *)
  feed,         (* discovery's knownKeys: the values it delivered last      *)
  recv,         (* history: last event the loop took for each identity      *)
  verified,     (* history: addresses that passed a check for an identity   *)
  failed,       (* history: generations whose health check failed           *)
  events        (* history: number of events sent                           *)

vars == <<nodeChannel, localDelete, seq, gens, loop, checks, pool, feed,
          recv, verified, failed, events>>

producerVars == <<nodeChannel, localDelete, feed, events>>
genVars      == <<seq, gens>>

Check == [gen : Nat, id : NodeIds, node : Node, passed : BOOLEAN]

TypeOK ==
  /\ nodeChannel \in Seq(Event)
  /\ localDelete \in Event \cup {NoEvent}
  /\ seq \in Nat
  /\ gens \in [NodeIds -> Nat]
  /\ loop \in [pc : {"idle"}, ev : {NoEvent}, gen : {0}]
              \cup [pc : {"put", "apply", "delete"}, ev : Event, gen : Nat]
  /\ checks \subseteq Check
  /\ pool \in [Pools -> [Keys -> Node \cup {NoNode}]]
  /\ feed \in [NodeIds -> Node \cup {NoNode}]
  /\ recv \in [NodeIds -> Event \cup {NoEvent}]
  /\ verified \subseteq NodeIds \X Addrs
  /\ failed \subseteq Nat
  /\ events \in Nat

Idle == [pc |-> "idle", ev |-> NoEvent, gen |-> 0]

Init ==
  /\ nodeChannel = <<>>
  /\ localDelete = NoEvent
  /\ seq = 0
  /\ gens = [id \in NodeIds |-> 0]
  /\ loop = Idle
  /\ checks = {}
  /\ pool = [p \in Pools |-> [k \in Keys |-> NoNode]]
  /\ feed = [id \in NodeIds |-> NoNode]
  /\ recv = [id \in NodeIds |-> NoEvent]
  /\ verified = {}
  /\ failed = {}
  /\ events = 0

-----------------------------------------------------------------------------
(* The pools: Random.UpsertNode and RemoveNode.                            *)

(* The list UpsertNode and RemoveNode work on: native nodes by source, the *)
(* others by role.                                                         *)
PoolOf(id, node) ==
  IF id.native THEN "native"
  ELSE IF node.role = "archive" THEN "archive" ELSE "state"

(* UpsertInto: whether the pooled object is updated in place or replaced,  *)
(* the list ends up with exactly one node under this key and it has the    *)
(* new values.                                                             *)
UpsertNode(id, node) ==
  pool' = [pool EXCEPT ![PoolOf(id, node)][id.key] = node]

(* Fault: the node is not found in the list.                               *)
FaultyRemoveNode(id, node) == UNCHANGED pool

RemoveNode(id, node) ==
  pool' = [pool EXCEPT ![PoolOf(id, node)][id.key] = NoNode]

(* The pools an identity can be found in.                                  *)
PoolsOf(id) == IF id.native THEN {"native"} ELSE {"state", "archive"}

nodeInPool(id) == \E p \in PoolsOf(id) : pool[p][id.key] # NoNode

(* lbnode.New succeeds.                                                    *)
Buildable(node) == node.addr \notin Unbuildable

-----------------------------------------------------------------------------
(* Producers of nodeChannel.                                               *)

(* A channel send.  discovery blocks while the channel is full; a local    *)
(* handler gives up after a second, and for AddLocalNode that leaves       *)
(* everything unchanged.                                                   *)
Send(ev) ==
  /\ Len(nodeChannel) < ChannelCap
  /\ events < MaxEvents
  /\ nodeChannel' = Append(nodeChannel, ev)
  /\ events' = events + 1

(* etcd discovery delivers a PUT of the node's key.                        *)
DiscoveryPut(id, node) ==
  /\ Send([op |-> "put", id |-> id, node |-> node])
  /\ feed' = [feed EXCEPT ![id] = node]
  /\ UNCHANGED <<localDelete, genVars, loop, checks, pool, recv, verified, failed>>

(* What a DELETE carries when the value etcd names as the previous one did *)
(* not decode: the fields json.Unmarshal had filled before it failed, and  *)
(* zeros for the others.  A zero role is not archive, so the selector      *)
(* takes it for state; of the address only whether lbnode.New accepts it   *)
(* matters.                                                                *)
Undecoded == [addr : {ZeroAddr} \cup Unbuildable, role : Roles, up : {FALSE}]

(* etcd discovery delivers a DELETE.  It carries the value delivered last  *)
(* if the key still had it or etcd left the previous value out; but a PUT  *)
(* that did not decode, which discovery drops, may have come in between,   *)
(* or be all the key ever had.                                             *)
DiscoveryDelete(id) ==
  /\ \E node \in Undecoded \cup ({feed[id]} \ {NoNode}) :
       Send([op |-> "delete", id |-> id, node |-> node])
  /\ feed' = [feed EXCEPT ![id] = NoNode]
  /\ UNCHANGED <<localDelete, genVars, loop, checks, pool, recv, verified, failed>>

(* Handler.AddLocalNode: a PUT that never reaches etcd.                    *)
AddLocalNode(key, node) ==
  /\ Send([op |-> "put", id |-> [key |-> key, native |-> FALSE], node |-> node])
  /\ UNCHANGED <<localDelete, feed, genVars, loop, checks, pool, recv, verified, failed>>

(* Handler.findNode searches GetAllNodes: archive, state, native.          *)
FoundIn(key) ==
  IF pool["archive"][key] # NoNode THEN "archive"
  ELSE IF pool["state"][key] # NoNode THEN "state" ELSE "native"

Found(key) ==
  [op |-> "delete",
   id |-> [key |-> key, native |-> FoundIn(key) = "native"],
   node |-> pool[FoundIn(key)][key]]

(* Handler.DeleteLocalNode: find the pooled node and build the event ...   *)
DeleteLocalNodeFind(key) ==
  /\ localDelete = NoEvent
  /\ \E p \in Pools : pool[p][key] # NoNode
  /\ localDelete' = Found(key)
  /\ UNCHANGED <<nodeChannel, feed, events, genVars, loop, checks, pool, recv, verified, failed>>

(* ... and send it ...                                                     *)
DeleteLocalNodeSend ==
  /\ localDelete # NoEvent
  /\ Send(localDelete)
  /\ localDelete' = NoEvent
  /\ UNCHANGED <<feed, genVars, loop, checks, pool, recv, verified, failed>>

(* ... or answer 500 when the channel stayed full for a second.            *)
DeleteLocalNodeGivesUp ==
  /\ localDelete # NoEvent
  /\ Len(nodeChannel) = ChannelCap
  /\ localDelete' = NoEvent
  /\ UNCHANGED <<nodeChannel, feed, events, genVars, loop, checks, pool, recv, verified, failed>>

-----------------------------------------------------------------------------
(* nodeGenerations.                                                        *)

(* Fault: every identity counts its own generations.                       *)
FaultyBump(id) ==
  /\ seq' = seq + 1
  /\ gens' = [gens EXCEPT ![id] = @ + 1]

Bump(id) ==
  /\ seq' = seq + 1
  /\ gens' = [gens EXCEPT ![id] = seq + 1]

(* Fault: the entry survives the DELETE.                                   *)
FaultyForget(id) == UNCHANGED genVars

(* Fault: the entry is set back instead of removed.                        *)
FaultyForgetDecrements(id) ==
  /\ gens' = [gens EXCEPT ![id] = @ - 1]
  /\ UNCHANGED seq

Forget(id) ==
  /\ gens' = [gens EXCEPT ![id] = 0]
  /\ UNCHANGED seq

(* Fault: the result is applied without a look at the generation.          *)
FaultyCurrent(id, gen) == TRUE

Current(id, gen) == gens[id] = gen

-----------------------------------------------------------------------------
(* The event loop.                                                         *)

(* Take an event; a PUT bumps the identity's generation, a DELETE forgets  *)
(* it.                                                                     *)
LoopReceive ==
  /\ loop.pc = "idle"
  /\ nodeChannel # <<>>
  /\ LET ev == Head(nodeChannel) IN
       /\ nodeChannel' = Tail(nodeChannel)
       /\ recv' = [recv EXCEPT ![ev.id] = ev]
       /\ \/ /\ ev.op = "put"
             /\ Bump(ev.id)
             /\ loop' = [pc |-> "put", ev |-> ev, gen |-> seq + 1]
          \/ /\ ev.op = "delete"
             /\ Forget(ev.id)
             /\ loop' = [pc |-> "delete", ev |-> ev, gen |-> 0]
  /\ UNCHANGED <<localDelete, feed, events, checks, pool, verified, failed>>

(* Fault: every update of a pooled node skips the health check.            *)
FaultyDowngrade(ev) == nodeInPool(ev.id)

(* Fault: every update waits for a health check.                           *)
FaultyDowngradeWaits(ev) == FALSE

(* A downgrade of a pooled node is applied at once ...                     *)
Downgrade(ev) == ~ev.node.up /\ nodeInPool(ev.id)

LoopDowngrade ==
  /\ loop.pc = "put"
  /\ Downgrade(loop.ev)
  /\ loop' = [loop EXCEPT !.pc = "apply"]
  /\ UNCHANGED <<producerVars, genVars, checks, pool, recv, verified, failed>>

(* ... any other PUT starts a health check goroutine.                      *)
LoopStartCheck ==
  /\ loop.pc = "put"
  /\ ~Downgrade(loop.ev)
  /\ checks' = checks \cup {[gen |-> loop.gen, id |-> loop.ev.id,
                             node |-> loop.ev.node, passed |-> FALSE]}
  /\ loop' = Idle
  /\ UNCHANGED <<producerVars, genVars, pool, recv, verified, failed>>

(* applyNodeState.                                                         *)
LoopApply ==
  /\ loop.pc = "apply"
  /\ IF Buildable(loop.ev.node) THEN UpsertNode(loop.ev.id, loop.ev.node)
                                ELSE UNCHANGED pool
  /\ loop' = Idle
  /\ UNCHANGED <<producerVars, genVars, checks, recv, verified, failed>>

(* The rest of the DELETE handler.                                         *)
LoopRemove ==
  /\ loop.pc = "delete"
  /\ IF Buildable(loop.ev.node) THEN RemoveNode(loop.ev.id, loop.ev.node)
                                ELSE UNCHANGED pool
  /\ loop' = Idle
  /\ UNCHANGED <<producerVars, genVars, checks, recv, verified, failed>>

-----------------------------------------------------------------------------
(* Health checks.  CheckNodeHealth repeats processHealthCheck every five   *)
(* seconds until an attempt succeeds or maxWaitTime has passed; it looks   *)
(* neither at the generation nor at the pools, so only its outcome counts. *)

CheckPasses(c) ==
  /\ ~c.passed
  /\ Buildable(c.node)
  /\ checks' = (checks \ {c}) \cup {[c EXCEPT !.passed = TRUE]}
  /\ verified' = verified \cup {<<c.id, c.node.addr>>}
  /\ UNCHANGED <<producerVars, genVars, loop, pool, recv, failed>>

CheckFails(c) ==
  /\ ~c.passed
  /\ checks' = checks \ {c}
  /\ failed' = failed \cup {c.gen}
  /\ UNCHANGED <<producerVars, genVars, loop, pool, recv, verified>>

(* ApplyIfCurrent: the result is published only if no newer PUT or DELETE  *)
(* of the identity was taken since the check started.                      *)
CheckApplies(c) ==
  /\ c.passed
  /\ checks' = checks \ {c}
  /\ IF Current(c.id, c.gen) THEN UpsertNode(c.id, c.node) ELSE UNCHANGED pool
  /\ UNCHANGED <<producerVars, genVars, loop, recv, verified, failed>>

-----------------------------------------------------------------------------
Produce ==
  \/ \E id \in NodeIds : \/ \E node \in Updates[id] : DiscoveryPut(id, node)
                         \/ DiscoveryDelete(id)
  \/ \E key \in Keys :
       \/ \E node \in Updates[[key |-> key, native |-> FALSE]] : AddLocalNode(key, node)
       \/ DeleteLocalNodeFind(key)
  \/ DeleteLocalNodeSend
  \/ DeleteLocalNodeGivesUp

Loop == LoopReceive \/ LoopDowngrade \/ LoopStartCheck \/ LoopApply \/ LoopRemove

CheckStep == \E c \in checks : CheckPasses(c) \/ CheckFails(c) \/ CheckApplies(c)

Next == Produce \/ Loop \/ CheckStep

Spec == Init /\ [][Next]_vars

(* The event loop goroutine is always running.                             *)
LoopSpec == Spec /\ WF_vars(Loop)

(* A health check ends: every attempt is bounded by healthCheckTimeout and *)
(* the attempts by maxWaitTime, and ApplyIfCurrent takes only short locks. *)
ChecksEnd == WF_vars(CheckStep)

-----------------------------------------------------------------------------
(* Properties.                                                             *)

(* The event the loop took last for an identity was a PUT.                 *)
Live(id) == recv[id] # NoEvent /\ recv[id].op = "put"

(* The loop has taken an event of the identity and not finished with it.   *)
Handling(id) == loop.pc # "idle" /\ loop.ev.id = id

(* A check whose result ApplyIfCurrent would publish.                      *)
Pending(id) == \E c \in checks : c.id = id /\ Current(id, c.gen)

(* The last event of the identity is a DELETE that does not reach pool p:  *)
(* it names another list, or lbnode.New refused it.                        *)
Missed(id, p) ==
  /\ recv[id] # NoEvent
  /\ p # PoolOf(id, recv[id].node) \/ ~Buildable(recv[id].node)

(* A removed node stays removed: once the loop has finished with a DELETE, *)
(* the list that DELETE names does not hold the node until a later PUT,    *)
(* whatever health checks were in flight (node_generation.go: "a stale     *)
(* result can never resurrect a removed node").  A node in the other list  *)
(* is left alone, as RemoveNode looks at one list only.                    *)
NoGhost ==
  \A id \in NodeIds : ~Live(id) =>
    \/ Handling(id)
    \/ \A p \in PoolsOf(id) : pool[p][id.key] # NoNode => Missed(id, p)

(* A DELETE that lbnode.New accepts and that carries the role the node's   *)
(* PUTs have.                                                              *)
NamesRole(id) ==
  /\ recv[id] # NoEvent /\ Buildable(recv[id].node)
  /\ \A v \in Updates[id] : v.role = recv[id].node.role

(* A DELETE that carries the node's role takes it out of every pool: the   *)
(* consumers "still get node type/source details" (discovery.go:331).      *)
NamedIsGone ==
  \A id \in NodeIds : (~Live(id) /\ NamesRole(id) /\ nodeInPool(id)) => Handling(id)

(* "Adds, updates, or removes state/archive nodes" (docs/architecture.md): *)
(* once the loop has finished with a DELETE the node is in no pool.        *)
DeleteRemoves ==
  \A id \in NodeIds : (~Live(id) /\ nodeInPool(id)) => Handling(id)

(* No update is lost: as long as the last event taken for an identity is a *)
(* PUT, the pool its role selects holds its value unless the loop is still *)
(* handling it, its own check is in flight, or its check failed (or the    *)
(* node could not be built).                                               *)
LatestOrPending ==
  \A id \in NodeIds : Live(id) =>
    \/ pool[PoolOf(id, recv[id].node)][id.key] = recv[id].node
    \/ Handling(id)
    \/ Pending(id)
    \/ gens[id] \in failed
    \/ ~Buildable(recv[id].node)

(* A node is served as available only at an address that passed a health   *)
(* check for that identity, although downgrades skip the check.            *)
AvailableIsVerified ==
  \A id \in NodeIds : \A p \in PoolsOf(id) :
    (pool[p][id.key] # NoNode /\ pool[p][id.key].up)
      => <<id, pool[p][id.key].addr>> \in verified

(* What ApplyIfCurrent and the serial loop guarantee together: any step    *)
(* that writes a node into a pool writes the value of the last event taken *)
(* for that identity, and that event is a PUT ("a stale result can never   *)
(* ... overwrite newer state", node_generation.go).                        *)
PublishStep ==
  \A id \in NodeIds : \A p \in PoolsOf(id) :
    (pool'[p][id.key] # pool[p][id.key] /\ pool'[p][id.key] # NoNode)
      => Live(id) /\ pool'[p][id.key] = recv[id].node

PublishesLatest == [][PublishStep]_vars

(* nodeGenerations holds an entry for exactly the live nodes, so it cannot *)
(* grow with the events that went by.                                      *)
GenerationsAreLiveNodes ==
  \A id \in NodeIds : (gens[id] # 0) = Live(id)

(* "A downgrade takes traffic away, so apply it now": when a PUT with an   *)
(* unavailable state reaches a pooled node, every entry of the node with   *)
(* that PUT's role stops being available by the event loop's own steps, no *)
(* health check having to end.  A PUT that lbnode.New refuses changes      *)
(* nothing, and an entry an old role left behind stays (see OnePool).      *)
DowngradeTakesEffect ==
  \A id \in NodeIds, r \in Roles :
    (/\ loop.pc = "put" /\ loop.ev.id = id
     /\ ~loop.ev.node.up /\ loop.ev.node.role = r /\ Buildable(loop.ev.node)
     /\ nodeInPool(id))
      ~> (\A p \in PoolsOf(id) :
            pool[p][id.key] # NoNode /\ pool[p][id.key].role = r => ~pool[p][id.key].up)

(* What the pools hold agrees with the last event taken for the identity.  *)
Settled(id) ==
  IF Live(id)
  THEN \/ pool[PoolOf(id, recv[id].node)][id.key] = recv[id].node
       \/ gens[id] \in failed
       \/ ~Buildable(recv[id].node)
  ELSE \A p \in PoolsOf(id) : pool[p][id.key] # NoNode => Missed(id, p)

(* The pools catch up with discovery: if health checks end, then once      *)
(* events stop every node whose last event is a PUT ends up pooled with    *)
(* that value (or its check failed), and every other one is gone from the  *)
(* list its DELETE names.                                                  *)
Converges == ChecksEnd => <>[](\A id \in NodeIds : Settled(id))

(* A key is in one list at a time: "a changed identity replaces the node"  *)
(* (lbnode/node.go:176), type being part of the identity.                  *)
OnePool ==
  \A k \in Keys : ~(pool["state"][k] # NoNode /\ pool["archive"][k] # NoNode)

-----------------------------------------------------------------------------
(* The inductive invariant.                                                *)

(* The loop works on the last event it took, and a PUT it works on owns    *)
(* the identity's current generation.                                      *)
LoopInv ==
  /\ loop.pc # "idle" => recv[loop.ev.id] = loop.ev
  /\ loop.pc = "delete" => loop.ev.op = "delete"
  /\ loop.pc \in {"put", "apply"} =>
       /\ loop.ev.op = "put"
       /\ loop.gen = gens[loop.ev.id]
  /\ loop.pc = "apply" => ~loop.ev.node.up

(* Generations come from one sequence that never runs backwards.           *)
GenInv ==
  \A id \in NodeIds : gens[id] <= seq /\ (gens[id] # 0) = Live(id)

(* A check that is still current carries the last event's value.           *)
CheckInv ==
  \A c \in checks :
    /\ c.gen \in 1..seq
    /\ Current(c.id, c.gen) => recv[c.id].node = c.node
    /\ c.passed => <<c.id, c.node.addr>> \in verified

(* A PUT carries one of the identity's values.                             *)
Carried(ev) == ev.op = "put" => ev.node \in Updates[ev.id]

(* Every value on its way into a pool is one a PUT of that identity        *)
(* carried, and a pooled value is in the pool its role selects.            *)
ValueInv ==
  /\ \A i \in 1..Len(nodeChannel) : Carried(nodeChannel[i])
  /\ localDelete # NoEvent => localDelete.op = "delete"
  /\ loop.pc # "idle" => Carried(loop.ev)
  /\ \A c \in checks : c.node \in Updates[c.id]
  /\ \A id \in NodeIds : \A p \in PoolsOf(id) : pool[p][id.key] # NoNode =>
       pool[p][id.key] \in Updates[id] /\ p = PoolOf(id, pool[p][id.key])

(* The strengthening that makes the safety properties above inductive: it  *)
(* ties the loop, the generation table, the checks in flight and the       *)
(* values in the pools to the last event taken for each identity.          *)
IndInv == LoopInv /\ GenInv /\ CheckInv /\ ValueInv
=============================================================================
