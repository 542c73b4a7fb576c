------------------------- MODULE NodeLifecycleProofs -------------------------
(* Proofs about NodeLifecycle, for every set of keys, addresses and values *)
(* and without a bound on the channel or on the number of events.          *)
EXTENDS NodeLifecycle, TLAPS

(* The provers may take longer than by default.                            *)
USE SMTT(60)

(* An absent event is not an event, so the two can be told apart.          *)
LEMMA NoEventIsNone == NoEvent \notin Event
  BY ZenonT(60) DEF NoEvent, Event

(* Two identities share no slot of a pool.                                 *)
LEMMA SlotsAreDisjoint ==
  ASSUME NEW i \in NodeIds, NEW j \in NodeIds, i.key = j.key,
         NEW p \in PoolsOf(i), p \in PoolsOf(j)
  PROVE  i = j
  BY DEF NodeIds, PoolsOf

(* A value that did not decode is still a node to the handlers.            *)
LEMMA UndecodedIsNode == Undecoded \subseteq Node
<1>1. {ZeroAddr} \cup Unbuildable \subseteq Addrs
  BY ZenonT(60), ConstantsOK DEF ConstantsOK
<1>2. ASSUME NEW node \in Undecoded
      PROVE  node \in Node
  BY ZenonT(60), <1>1 DEF Undecoded, Node
<1> QED
  BY ZenonT(60), <1>2

(* UpsertNode and RemoveNode work on a pool of the identity.               *)
LEMMA PoolOfIsOwn ==
  ASSUME NEW id \in NodeIds, NEW node \in Node
  PROVE  PoolOf(id, node) \in PoolsOf(id) /\ PoolOf(id, node) \in Pools
  BY ZenonT(60) DEF PoolOf, PoolsOf, Pools, NodeIds, Node

(* The event DeleteLocalNode builds is about a node found in a pool of the *)
(* identity it names.                                                      *)
LEMMA FoundIsPooled ==
  ASSUME TypeOK, NEW key \in Keys, \E p \in Pools : pool[p][key] # NoNode
  PROVE  /\ Found(key) \in Event
         /\ Found(key).id.key = key
         /\ \E p \in PoolsOf(Found(key).id) : /\ pool[p][key] # NoNode
                                              /\ pool[p][key] = Found(key).node
<1> DEFINE p == FoundIn(key)
<1>1. /\ p \in Pools /\ pool[p][key] # NoNode
      /\ p \in PoolsOf([key |-> key, native |-> p = "native"])
  <2>1. CASE pool["archive"][key] # NoNode
    <3>1. p = "archive"
      BY ZenonT(60), <2>1 DEF FoundIn
    <3> QED
      BY ZenonT(60), <2>1, <3>1 DEF Pools, PoolsOf
  <2>2. CASE pool["archive"][key] = NoNode /\ pool["state"][key] # NoNode
    <3>1. p = "state"
      BY ZenonT(60), <2>2 DEF FoundIn
    <3> QED
      BY ZenonT(60), <2>2, <3>1 DEF Pools, PoolsOf
  <2>3. CASE pool["archive"][key] = NoNode /\ pool["state"][key] = NoNode
    <3>1. p = "native"
      BY ZenonT(60), <2>3 DEF FoundIn
    <3> QED
      BY ZenonT(60), <2>3, <3>1 DEF Pools, PoolsOf
  <2> QED
    BY ZenonT(60), <2>1, <2>2, <2>3
<1>2. pool[p][key] \in Node
  BY <1>1 DEF TypeOK
<1>3. /\ Found(key).id = [key |-> key, native |-> p = "native"]
      /\ Found(key).node = pool[p][key]
  BY ZenonT(60) DEF Found
<1>4. Found(key) \in Event
  BY ZenonT(60), <1>2 DEF Found, Event, NodeIds
<1> QED
  BY <1>1, <1>3, <1>4

-----------------------------------------------------------------------------
(* Type correctness.                                                       *)

LEMMA InitTypeOK == Init => TypeOK
  BY DEF Init, TypeOK, Idle, Pools

LEMMA WritingKeepsPoolType ==
  ASSUME pool \in [Pools -> [Keys -> Node \cup {NoNode}]],
         NEW id \in NodeIds, NEW node \in Node, UpsertNode(id, node) \/ RemoveNode(id, node)
  PROVE  pool' \in [Pools -> [Keys -> Node \cup {NoNode}]]
  BY PoolOfIsOwn DEF NodeIds, UpsertNode, RemoveNode

LEMMA NextTypeOK ==
  ASSUME TypeOK, [Next]_vars
  PROVE  TypeOK'
<1> USE ConstantsOK
<1>1. ASSUME NEW id \in NodeIds, NEW node \in Updates[id], DiscoveryPut(id, node)
      PROVE  TypeOK'
  <2>1. node \in Node
    BY ZenonT(60)
  <2>2. [op |-> "put", id |-> id, node |-> node] \in Event
    BY ZenonT(60), <2>1 DEF Event
  <2> QED
    BY <1>1, <2>1, <2>2 DEF DiscoveryPut, Send, TypeOK, genVars
<1>2. ASSUME NEW id \in NodeIds, DiscoveryDelete(id)
      PROVE  TypeOK'
  <2>1. PICK node \in Undecoded \cup ({feed[id]} \ {NoNode}) :
             Send([op |-> "delete", id |-> id, node |-> node])
    BY ZenonT(60), <1>2 DEF DiscoveryDelete
  <2>2. [op |-> "delete", id |-> id, node |-> node] \in Event
    BY ZenonT(60), UndecodedIsNode DEF TypeOK, Event
  <2> QED
    BY <1>2, <2>1, <2>2 DEF DiscoveryDelete, Send, TypeOK, genVars
<1>3. ASSUME NEW key \in Keys, NEW node \in Updates[[key |-> key, native |-> FALSE]],
             AddLocalNode(key, node)
      PROVE  TypeOK'
  <2>1. [key |-> key, native |-> FALSE] \in NodeIds
    BY ZenonT(60) DEF NodeIds
  <2>2. [op |-> "put", id |-> [key |-> key, native |-> FALSE], node |-> node] \in Event
    BY ZenonT(60), <2>1 DEF Event
  <2> QED
    BY <1>3, <2>2 DEF AddLocalNode, Send, TypeOK, genVars
<1>4. ASSUME NEW key \in Keys, DeleteLocalNodeFind(key)
      PROVE  TypeOK'
  BY ZenonT(60), <1>4, FoundIsPooled DEF DeleteLocalNodeFind, TypeOK, genVars
<1>5. CASE DeleteLocalNodeSend
  BY <1>5 DEF DeleteLocalNodeSend, Send, TypeOK, genVars
<1>5a. CASE DeleteLocalNodeGivesUp
  BY ZenonT(60), <1>5a DEF DeleteLocalNodeGivesUp, TypeOK, genVars
<1>6. CASE LoopReceive
  <2> DEFINE ev == Head(nodeChannel)
  <2>1. ev \in Event /\ Tail(nodeChannel) \in Seq(Event)
    BY <1>6 DEF LoopReceive, TypeOK
  <2>2. ev.id \in NodeIds
    BY ZenonT(60), <2>1 DEF Event
  <2> HIDE DEF ev
  <2>3. recv' = [recv EXCEPT ![ev.id] = ev]
    BY ZenonT(60), <1>6 DEF LoopReceive, ev
  <2>4. CASE ev.op = "put"
    <3>1. /\ seq' = seq + 1 /\ gens' = [gens EXCEPT ![ev.id] = seq + 1]
          /\ loop' = [pc |-> "put", ev |-> ev, gen |-> seq + 1]
      BY ZenonT(60), <1>6, <2>4 DEF LoopReceive, Bump, ev
    <3> QED
      BY <1>6, <2>1, <2>2, <2>3, <3>1 DEF LoopReceive, TypeOK, ev
  <2>5. CASE ev.op = "delete"
    <3>1. /\ seq' = seq /\ gens' = [gens EXCEPT ![ev.id] = 0]
          /\ loop' = [pc |-> "delete", ev |-> ev, gen |-> 0]
      BY ZenonT(60), <1>6, <2>5 DEF LoopReceive, Forget, ev
    <3> QED
      BY <1>6, <2>1, <2>2, <2>3, <3>1 DEF LoopReceive, TypeOK, ev
  <2> QED
    BY ZenonT(60), <2>1, <2>4, <2>5 DEF Event
<1>7. CASE LoopDowngrade
  BY ZenonT(60), <1>7 DEF LoopDowngrade, TypeOK, producerVars, genVars
<1>8. CASE LoopStartCheck
  <2>1. [gen |-> loop.gen, id |-> loop.ev.id, node |-> loop.ev.node, passed |-> FALSE] \in Check
    BY ZenonT(60), <1>8 DEF LoopStartCheck, TypeOK, Check, Event
  <2> QED
    BY ZenonT(60), <1>8, <2>1 DEF LoopStartCheck, TypeOK, Idle, producerVars, genVars
<1>9. CASE LoopApply
  <2>1. loop.ev.id \in NodeIds /\ loop.ev.node \in Node
    BY ZenonT(60), <1>9 DEF LoopApply, TypeOK, Event
  <2>2. pool' \in [Pools -> [Keys -> Node \cup {NoNode}]]
    BY ZenonT(60), <1>9, <2>1, WritingKeepsPoolType DEF LoopApply, TypeOK
  <2> QED
    BY ZenonT(60), <1>9, <2>2 DEF LoopApply, TypeOK, Idle, producerVars, genVars
<1>10. CASE LoopRemove
  <2>1. loop.ev.id \in NodeIds /\ loop.ev.node \in Node
    BY ZenonT(60), <1>10 DEF LoopRemove, TypeOK, Event
  <2>2. pool' \in [Pools -> [Keys -> Node \cup {NoNode}]]
    BY ZenonT(60), <1>10, <2>1, WritingKeepsPoolType DEF LoopRemove, TypeOK
  <2> QED
    BY ZenonT(60), <1>10, <2>2 DEF LoopRemove, TypeOK, Idle, producerVars, genVars
<1>11. ASSUME NEW c \in checks, CheckPasses(c)
       PROVE  TypeOK'
  <2>1. c \in Check /\ [c EXCEPT !.passed = TRUE] \in Check
        /\ <<c.id, c.node.addr>> \in NodeIds \X Addrs
    BY ZenonT(60) DEF TypeOK, Check, Node
  <2> QED
    BY ZenonT(60), <1>11, <2>1 DEF CheckPasses, TypeOK, producerVars, genVars
<1>12. ASSUME NEW c \in checks, CheckFails(c)
       PROVE  TypeOK'
  BY ZenonT(60), <1>12 DEF CheckFails, TypeOK, Check, producerVars, genVars
<1>13. ASSUME NEW c \in checks, CheckApplies(c)
       PROVE  TypeOK'
  <2>1. c.id \in NodeIds /\ c.node \in Node
    BY ZenonT(60) DEF TypeOK, Check
  <2>2. pool' \in [Pools -> [Keys -> Node \cup {NoNode}]]
    BY ZenonT(60), <1>13, <2>1, WritingKeepsPoolType DEF CheckApplies, TypeOK
  <2> QED
    BY ZenonT(60), <1>13, <2>2 DEF CheckApplies, TypeOK, producerVars, genVars
<1>14. CASE UNCHANGED vars
  BY ZenonT(60), <1>14 DEF vars, TypeOK
<1> QED
  BY ZenonT(60), <1>1, <1>2, <1>3, <1>4, <1>5, <1>5a, <1>6, <1>7, <1>8, <1>9, <1>10, <1>11, <1>12,
     <1>13, <1>14 DEF Next, Produce, Loop, CheckStep

(* Every variable keeps its type: in particular nodeChannel carries only   *)
(* well-formed events and the pools only well-formed nodes.                *)
THEOREM TypeCorrect == Spec => []TypeOK
<1>1. Init => TypeOK
  BY ZenonT(60), InitTypeOK
<1>2. TypeOK /\ [Next]_vars => TypeOK'
  BY ZenonT(60), NextTypeOK
<1> QED
  BY <1>1, <1>2, PTL DEF Spec

-----------------------------------------------------------------------------
(* The inductive invariant.                                                *)

LEMMA InitIndInv == Init => IndInv
  BY DEF Init, IndInv, LoopInv, GenInv, CheckInv, ValueInv, Live, Idle, Pools, PoolsOf, NodeIds

(* A write to one slot leaves every other identity's slots alone.          *)
LEMMA WriteTouchesOwnSlot ==
  ASSUME pool \in [Pools -> [Keys -> Node \cup {NoNode}]],
         NEW id \in NodeIds, NEW node \in Node, UpsertNode(id, node) \/ RemoveNode(id, node),
         NEW j \in NodeIds, NEW p \in PoolsOf(j)
  PROVE  /\ (j # id \/ p # PoolOf(id, node)) => pool'[p][j.key] = pool[p][j.key]
         /\ (j = id /\ p = PoolOf(id, node) /\ UpsertNode(id, node)) => pool'[p][j.key] = node
         /\ (j = id /\ p = PoolOf(id, node) /\ RemoveNode(id, node)) => pool'[p][j.key] = NoNode
<1>1. p \in Pools /\ j.key \in Keys /\ id.key \in Keys
  BY ZenonT(60) DEF PoolsOf, Pools, NodeIds
<1>2. PoolOf(id, node) \in PoolsOf(id) /\ PoolOf(id, node) \in Pools
  BY ZenonT(60), PoolOfIsOwn
<1>3. (p = PoolOf(id, node) /\ j.key = id.key) => j = id
  BY ZenonT(60), <1>2, SlotsAreDisjoint
<1> QED
  BY <1>1, <1>2, <1>3 DEF UpsertNode, RemoveNode

(* What a write into a pool must satisfy to keep the pool part of ValueInv.*)
LEMMA WriteKeepsPoolValues ==
  ASSUME TypeOK, ValueInv, NEW id \in NodeIds, NEW node \in Node,
         \/ UpsertNode(id, node) /\ node \in Updates[id]
         \/ RemoveNode(id, node)
         \/ UNCHANGED pool
  PROVE  \A j \in NodeIds : \A p \in PoolsOf(j) : pool'[p][j.key] # NoNode =>
           pool'[p][j.key] \in Updates[j] /\ p = PoolOf(j, pool'[p][j.key])
<1>1. SUFFICES ASSUME NEW j \in NodeIds, NEW p \in PoolsOf(j), pool'[p][j.key] # NoNode
               PROVE  pool'[p][j.key] \in Updates[j] /\ p = PoolOf(j, pool'[p][j.key])
  BY ZenonT(60)
<1>2. pool[p][j.key] # NoNode => pool[p][j.key] \in Updates[j] /\ p = PoolOf(j, pool[p][j.key])
  BY ZenonT(60) DEF ValueInv
<1>3. CASE UNCHANGED pool
  BY ZenonT(60), <1>1, <1>2, <1>3
<1>4. pool \in [Pools -> [Keys -> Node \cup {NoNode}]]
  BY ZenonT(60) DEF TypeOK
<1>5. CASE UpsertNode(id, node) /\ node \in Updates[id]
  BY <1>1, <1>2, <1>4, <1>5, WriteTouchesOwnSlot
<1>6. CASE RemoveNode(id, node)
  BY <1>1, <1>2, <1>4, <1>6, WriteTouchesOwnSlot
<1> QED
  BY ZenonT(60), <1>3, <1>5, <1>6

(* Sending an event that carries a value of its identity keeps the channel *)
(* part of ValueInv.                                                       *)
LEMMA SendKeepsCarried ==
  ASSUME TypeOK, ValueInv, NEW ev \in Event, Carried(ev), Send(ev)
  PROVE  \A i \in 1..Len(nodeChannel') : Carried(nodeChannel'[i])
<1>1. nodeChannel \in Seq(Event) /\ nodeChannel' = Append(nodeChannel, ev)
  BY ZenonT(60) DEF TypeOK, Send
<1>2. \A i \in 1..Len(nodeChannel) : Carried(nodeChannel[i])
  BY ZenonT(60) DEF ValueInv
<1>3. ASSUME NEW i \in 1..Len(nodeChannel')
      PROVE  nodeChannel'[i] = ev \/ (i \in 1..Len(nodeChannel) /\ nodeChannel'[i] = nodeChannel[i])
  BY <1>1
<1> QED
  BY ZenonT(60), <1>2, <1>3

LEMMA NextIndInv ==
  ASSUME TypeOK, IndInv, [Next]_vars
  PROVE  IndInv'
<1> USE ConstantsOK
<1>a. LoopInv /\ GenInv /\ CheckInv /\ ValueInv
  BY ZenonT(60) DEF IndInv
<1>b. TypeOK'
  BY ZenonT(60), NextTypeOK
<1>1. ASSUME NEW id \in NodeIds, NEW node \in Updates[id], DiscoveryPut(id, node)
      PROVE  IndInv'
  <2>1. LoopInv' /\ GenInv' /\ CheckInv'
    BY ZenonT(60), <1>1, <1>a DEF DiscoveryPut, genVars, LoopInv, GenInv, CheckInv, Live, Current
  <2>2. [op |-> "put", id |-> id, node |-> node] \in Event
    BY ZenonT(60) DEF Event
  <2>3. \A i \in 1..Len(nodeChannel') : Carried(nodeChannel'[i])
    BY ZenonT(60), <1>1, <1>a, <2>2, SendKeepsCarried DEF DiscoveryPut, Carried
  <2>4. ValueInv'
    BY ZenonT(60), <1>1, <1>a, <2>3 DEF DiscoveryPut, ValueInv, genVars
  <2> QED
    BY ZenonT(60), <2>1, <2>4 DEF IndInv
<1>2. ASSUME NEW id \in NodeIds, DiscoveryDelete(id)
      PROVE  IndInv'
  <2>1. LoopInv' /\ GenInv' /\ CheckInv'
    BY ZenonT(60), <1>2, <1>a DEF DiscoveryDelete, genVars, LoopInv, GenInv, CheckInv, Live, Current
  <2>2. PICK node \in Undecoded \cup ({feed[id]} \ {NoNode}) :
             Send([op |-> "delete", id |-> id, node |-> node])
    BY ZenonT(60), <1>2 DEF DiscoveryDelete
  <2>3. [op |-> "delete", id |-> id, node |-> node] \in Event
    BY ZenonT(60), UndecodedIsNode DEF TypeOK, Event
  <2>4. Carried([op |-> "delete", id |-> id, node |-> node])
    BY DEF Carried
  <2>5. \A i \in 1..Len(nodeChannel') : Carried(nodeChannel'[i])
    BY ZenonT(60), <1>a, <2>2, <2>3, <2>4, SendKeepsCarried
  <2>6. ValueInv'
    BY ZenonT(60), <1>2, <1>a, <2>5 DEF DiscoveryDelete, ValueInv, genVars
  <2> QED
    BY ZenonT(60), <2>1, <2>6 DEF IndInv
<1>3. ASSUME NEW key \in Keys, NEW node \in Updates[[key |-> key, native |-> FALSE]],
             AddLocalNode(key, node)
      PROVE  IndInv'
  <2>1. LoopInv' /\ GenInv' /\ CheckInv'
    BY ZenonT(60), <1>3, <1>a DEF AddLocalNode, genVars, LoopInv, GenInv, CheckInv, Live, Current
  <2>2. [key |-> key, native |-> FALSE] \in NodeIds
    BY ZenonT(60) DEF NodeIds
  <2>3. [op |-> "put", id |-> [key |-> key, native |-> FALSE], node |-> node] \in Event
    BY ZenonT(60), <2>2 DEF Event
  <2>4. \A i \in 1..Len(nodeChannel') : Carried(nodeChannel'[i])
    BY ZenonT(60), <1>3, <1>a, <2>3, SendKeepsCarried DEF AddLocalNode, Carried
  <2>5. ValueInv'
    BY ZenonT(60), <1>3, <1>a, <2>4 DEF AddLocalNode, ValueInv, genVars
  <2> QED
    BY ZenonT(60), <2>1, <2>5 DEF IndInv
<1>4. ASSUME NEW key \in Keys, DeleteLocalNodeFind(key)
      PROVE  IndInv'
  <2>1. LoopInv' /\ GenInv' /\ CheckInv'
    BY ZenonT(60), <1>4, <1>a DEF DeleteLocalNodeFind, genVars, LoopInv, GenInv, CheckInv, Live, Current
  <2>2. localDelete'.op = "delete"
    BY <1>4 DEF DeleteLocalNodeFind, Found
  <2>3. ValueInv'
    BY ZenonT(60), <1>4, <1>a, <2>2 DEF DeleteLocalNodeFind, ValueInv, genVars
  <2> QED
    BY ZenonT(60), <2>1, <2>3 DEF IndInv
<1>5. CASE DeleteLocalNodeSend
  <2>1. LoopInv' /\ GenInv' /\ CheckInv'
    BY ZenonT(60), <1>5, <1>a DEF DeleteLocalNodeSend, genVars, LoopInv, GenInv, CheckInv, Live, Current
  <2>2. localDelete \in Event /\ Send(localDelete) /\ localDelete.op = "delete"
    BY ZenonT(60), <1>5, <1>a DEF DeleteLocalNodeSend, TypeOK, ValueInv
  <2>3. \A i \in 1..Len(nodeChannel') : Carried(nodeChannel'[i])
    BY ZenonT(60), <1>a, <2>2, SendKeepsCarried DEF Carried
  <2>4. ValueInv'
    BY ZenonT(60), <1>5, <1>a, <2>3 DEF DeleteLocalNodeSend, ValueInv, genVars
  <2> QED
    BY ZenonT(60), <2>1, <2>4 DEF IndInv
<1>5a. CASE DeleteLocalNodeGivesUp
  <2>1. LoopInv' /\ GenInv' /\ CheckInv'
    BY ZenonT(60), <1>5a, <1>a DEF DeleteLocalNodeGivesUp, genVars, LoopInv, GenInv, CheckInv, Live, Current
  <2>2. ValueInv'
    BY ZenonT(60), <1>5a, <1>a DEF DeleteLocalNodeGivesUp, ValueInv, genVars
  <2> QED
    BY ZenonT(60), <2>1, <2>2 DEF IndInv
<1>6. CASE LoopReceive
  <2> DEFINE ev == Head(nodeChannel)
  <2>1. /\ ev \in Event
        /\ ev.id \in NodeIds
        /\ Carried(ev)
    <3>1. /\ nodeChannel \in Seq(Event) /\ nodeChannel # <<>>
          /\ \A i \in 1..Len(nodeChannel) : Carried(nodeChannel[i])
      BY ZenonT(60), <1>6, <1>a DEF LoopReceive, TypeOK, ValueInv
    <3>2. ev = nodeChannel[1] /\ 1 \in 1..Len(nodeChannel) /\ ev \in Event
      BY <3>1
    <3> QED
      BY ZenonT(60), <3>1, <3>2 DEF Event
  <2>2. nodeChannel' = Tail(nodeChannel) /\ recv' = [recv EXCEPT ![ev.id] = ev]
    BY ZenonT(60), <1>6 DEF LoopReceive
  <2>3. /\ checks' = checks /\ pool' = pool /\ verified' = verified
        /\ localDelete' = localDelete /\ feed' = feed
    BY ZenonT(60), <1>6 DEF LoopReceive
  <2>4. \/ /\ ev.op = "put"
           /\ seq' = seq + 1
           /\ gens' = [gens EXCEPT ![ev.id] = seq + 1]
           /\ loop' = [pc |-> "put", ev |-> ev, gen |-> seq + 1]
        \/ /\ ev.op = "delete"
           /\ seq' = seq
           /\ gens' = [gens EXCEPT ![ev.id] = 0]
           /\ loop' = [pc |-> "delete", ev |-> ev, gen |-> 0]
    BY ZenonT(60), <1>6 DEF LoopReceive, Bump, Forget
  <2>5. \A i \in 1..Len(nodeChannel') : Carried(nodeChannel'[i])
    <3>1. /\ nodeChannel \in Seq(Event) /\ nodeChannel # <<>>
          /\ \A i \in 1..Len(nodeChannel) : Carried(nodeChannel[i])
      BY ZenonT(60), <1>6, <1>a DEF LoopReceive, TypeOK, ValueInv
    <3>2. ASSUME NEW i \in 1..Len(nodeChannel')
          PROVE  i + 1 \in 1..Len(nodeChannel) /\ nodeChannel'[i] = nodeChannel[i + 1]
      BY <2>2, <3>1
    <3> QED
      BY ZenonT(60), <3>1, <3>2
  <2>6. ev # NoEvent
    BY ZenonT(60), <2>1, NoEventIsNone
  <2> HIDE DEF ev
  <2>7. LoopInv'
    BY <2>1, <2>2, <2>4 DEF LoopInv, TypeOK
  <2>8. GenInv'
    <3>1. ASSUME NEW j \in NodeIds PROVE gens'[j] <= seq' /\ (gens'[j] # 0) = Live(j)'
      <4>1. gens[j] <= seq /\ (gens[j] # 0) = Live(j) /\ gens[j] \in Nat /\ seq \in Nat
        BY ZenonT(60), <1>a DEF GenInv, TypeOK
      <4>2. CASE j = ev.id
        BY <2>1, <2>2, <2>4, <2>6, <4>1, <4>2 DEF Live, TypeOK
      <4>3. CASE j # ev.id
        <5>1. recv'[j] = recv[j] /\ gens'[j] = gens[j]
          BY ZenonT(60), <2>1, <2>2, <2>4, <4>3 DEF TypeOK
        <5> QED
          BY <2>4, <4>1, <5>1 DEF Live
      <4> QED
        BY ZenonT(60), <4>2, <4>3
    <3> QED
      BY ZenonT(60), <3>1 DEF GenInv
  <2>9. CheckInv'
    <3>1. ASSUME NEW c \in checks
          PROVE  /\ c.gen \in 1..seq'
                 /\ Current(c.id, c.gen)' => recv'[c.id].node = c.node
                 /\ c.passed => <<c.id, c.node.addr>> \in verified
      <4>1. /\ c.gen \in 1..seq /\ c.id \in NodeIds
            /\ Current(c.id, c.gen) => recv[c.id].node = c.node
            /\ c.passed => <<c.id, c.node.addr>> \in verified
        BY ZenonT(60), <1>a DEF CheckInv, TypeOK, Check
      <4>2. c.gen \in 1..seq'
        BY <2>4, <4>1 DEF TypeOK
      <4>3. CASE c.id = ev.id
        BY <2>1, <2>4, <4>1, <4>2, <4>3 DEF Current, TypeOK
      <4>4. CASE c.id # ev.id
        BY ZenonT(60), <2>1, <2>2, <2>4, <4>1, <4>2, <4>4 DEF Current, TypeOK
      <4> QED
        BY ZenonT(60), <4>3, <4>4
    <3> QED
      BY ZenonT(60), <2>3, <3>1 DEF CheckInv
  <2>10. ValueInv'
    <3>1. loop'.ev = ev
      BY <2>4
    <3>2. Carried(loop'.ev)
      BY ZenonT(60), <2>1, <3>1
    <3> QED
      BY ZenonT(60), <1>a, <2>3, <2>5, <3>2 DEF ValueInv
  <2> QED
    BY ZenonT(60), <2>7, <2>8, <2>9, <2>10 DEF IndInv
<1>7. CASE LoopDowngrade
  <2>1. /\ loop' = [loop EXCEPT !.pc = "apply"] /\ loop.pc = "put" /\ ~loop.ev.node.up
        /\ loop.ev \in Event
    BY ZenonT(60), <1>7 DEF LoopDowngrade, Downgrade, TypeOK
  <2>2. LoopInv'
    BY ZenonT(60), <1>7, <1>a, <2>1 DEF LoopDowngrade, LoopInv, TypeOK, genVars
  <2>3. GenInv' /\ CheckInv'
    BY ZenonT(60), <1>7, <1>a DEF LoopDowngrade, GenInv, CheckInv, Live, Current, genVars
  <2>4. loop'.ev = loop.ev /\ Carried(loop.ev)
    BY ZenonT(60), <1>a, <2>1 DEF ValueInv, TypeOK
  <2>5. ValueInv'
    BY ZenonT(60), <1>7, <1>a, <2>4 DEF LoopDowngrade, ValueInv, producerVars
  <2> QED
    BY ZenonT(60), <2>2, <2>3, <2>5 DEF IndInv
<1>8. CASE LoopStartCheck
  <2>a. PICK c : c = [gen |-> loop.gen, id |-> loop.ev.id, node |-> loop.ev.node, passed |-> FALSE]
    BY ZenonT(60)
  <2>1. /\ loop.pc = "put" /\ loop.ev \in Event /\ loop.ev.id \in NodeIds
        /\ loop' = Idle /\ checks' = checks \cup {c}
    BY ZenonT(60), <1>8, <2>a DEF LoopStartCheck, TypeOK, Event
  <2>2. /\ recv[loop.ev.id] = loop.ev /\ loop.gen = gens[loop.ev.id] /\ loop.ev.op = "put"
        /\ loop.ev # NoEvent
    BY ZenonT(60), <1>a, <2>1, NoEventIsNone DEF LoopInv
  <2>3. loop.gen \in 1..seq
    BY <1>a, <2>1, <2>2 DEF GenInv, Live, TypeOK
  <2>4. LoopInv'
    BY ZenonT(60), <2>1 DEF LoopInv, Idle
  <2>5. GenInv'
    BY ZenonT(60), <1>8, <1>a DEF LoopStartCheck, GenInv, Live, genVars
  <2>6. CheckInv'
    <3>1. UNCHANGED <<seq, gens, recv, verified>>
      BY ZenonT(60), <1>8 DEF LoopStartCheck, genVars
    <3> QED
      <4>1. /\ c.gen \in 1..seq' /\ ~c.passed
            /\ gens'[c.id] = c.gen => recv'[c.id].node = c.node
        BY ZenonT(60), <2>a, <2>2, <2>3, <3>1
      <4>2. ASSUME NEW d \in checks
            PROVE  /\ d.gen \in 1..seq'
                   /\ gens'[d.id] = d.gen => recv'[d.id].node = d.node
                   /\ d.passed => <<d.id, d.node.addr>> \in verified'
        BY ZenonT(60), <1>a, <3>1 DEF CheckInv, Current
      <4>3. ASSUME NEW d \in checks'
            PROVE  /\ d.gen \in 1..seq'
                   /\ gens'[d.id] = d.gen => recv'[d.id].node = d.node
                   /\ d.passed => <<d.id, d.node.addr>> \in verified'
        <5>1. CASE d = c
          BY ZenonT(60), <4>1, <5>1
        <5>2. CASE d \in checks
          BY ZenonT(60), <4>2, <5>2
        <5> QED
          BY ZenonT(60), <2>1, <5>1, <5>2
      <4> QED
        BY ZenonT(60), <4>3 DEF CheckInv, Current
  <2>7. ValueInv'
    <3>1. loop.ev.node \in Updates[loop.ev.id]
      BY ZenonT(60), <1>a, <2>1, <2>2 DEF ValueInv, Carried
    <3>2. \A d \in checks' : d.node \in Updates[d.id]
      BY <1>a, <2>a, <2>1, <3>1 DEF ValueInv
    <3>3. loop'.pc = "idle"
      BY ZenonT(60), <2>1 DEF Idle
    <3> QED
      BY ZenonT(60), <1>8, <1>a, <3>2, <3>3 DEF LoopStartCheck, ValueInv, producerVars
  <2> QED
    BY ZenonT(60), <2>4, <2>5, <2>6, <2>7 DEF IndInv
<1>9. CASE LoopApply \/ LoopRemove
  <2>1. /\ loop.pc # "idle" /\ loop' = Idle
        /\ UNCHANGED <<nodeChannel, localDelete, feed, seq, gens, checks, recv, verified>>
        /\ \/ loop.pc = "apply" /\ UpsertNode(loop.ev.id, loop.ev.node)
           \/ RemoveNode(loop.ev.id, loop.ev.node)
           \/ UNCHANGED pool
    BY ZenonT(60), <1>9 DEF LoopApply, LoopRemove, producerVars, genVars
  <2>2. /\ loop.ev.id \in NodeIds /\ loop.ev.node \in Node
        /\ loop.pc = "apply" => loop.ev.node \in Updates[loop.ev.id]
    BY ZenonT(60), <1>a, <2>1 DEF TypeOK, Event, ValueInv, LoopInv, Carried
  <2>3. \A j \in NodeIds : \A p \in PoolsOf(j) : pool'[p][j.key] # NoNode =>
          pool'[p][j.key] \in Updates[j] /\ p = PoolOf(j, pool'[p][j.key])
    BY ZenonT(60), <1>a, <2>1, <2>2, WriteKeepsPoolValues
  <2>4. LoopInv' /\ loop'.pc = "idle"
    BY ZenonT(60), <2>1 DEF LoopInv, Idle
  <2>5. GenInv' /\ CheckInv'
    BY ZenonT(60), <1>a, <2>1 DEF GenInv, CheckInv, Live, Current
  <2>6. ValueInv'
    BY ZenonT(60), <1>a, <2>1, <2>3, <2>4 DEF ValueInv
  <2> QED
    BY ZenonT(60), <2>4, <2>5, <2>6 DEF IndInv
<1>10. ASSUME NEW c \in checks, CheckPasses(c) \/ CheckFails(c) \/ CheckApplies(c)
       PROVE  IndInv'
  <2>1. /\ UNCHANGED <<nodeChannel, localDelete, feed, seq, gens, loop, recv>>
        /\ verified \subseteq verified'
        /\ \/ UpsertNode(c.id, c.node)
           \/ UNCHANGED pool
    BY ZenonT(60), <1>10 DEF CheckPasses, CheckFails, CheckApplies, producerVars, genVars
  <2>2. \A d \in checks' : \/ d \in checks
                           \/ /\ d.gen = c.gen /\ d.id = c.id /\ d.node = c.node
                              /\ <<d.id, d.node.addr>> \in verified'
    BY <1>10 DEF CheckPasses, CheckFails, CheckApplies, TypeOK, Check
  <2>3. c.id \in NodeIds /\ c.node \in Node /\ c.node \in Updates[c.id]
    BY ZenonT(60), <1>a DEF TypeOK, Check, ValueInv
  <2>4. \A j \in NodeIds : \A p \in PoolsOf(j) : pool'[p][j.key] # NoNode =>
          pool'[p][j.key] \in Updates[j] /\ p = PoolOf(j, pool'[p][j.key])
    BY ZenonT(60), <1>a, <2>1, <2>3, WriteKeepsPoolValues
  <2>5. LoopInv' /\ GenInv'
    BY ZenonT(60), <1>a, <2>1 DEF LoopInv, GenInv, Live
  <2>6. CheckInv'
    BY ZenonT(60), <1>a, <2>1, <2>2 DEF CheckInv, Current
  <2>7. ValueInv'
    <3>1. \A d \in checks' : d.node \in Updates[d.id]
      BY ZenonT(60), <1>a, <2>2, <2>3 DEF ValueInv
    <3> QED
      BY ZenonT(60), <1>a, <2>1, <2>4, <3>1 DEF ValueInv
  <2> QED
    BY ZenonT(60), <2>5, <2>6, <2>7 DEF IndInv
<1>11. CASE UNCHANGED vars
  BY ZenonT(60), <1>11 DEF vars, IndInv, LoopInv, GenInv, CheckInv, ValueInv, Live, Current
<1> QED
  BY ZenonT(60), <1>1, <1>2, <1>3, <1>4, <1>5, <1>5a, <1>6, <1>7, <1>8, <1>9, <1>10,
     <1>11
     DEF Next, Produce, Loop, CheckStep

(* The inductive invariant holds for every instance: the loop works on the *)
(* last event taken, generations never exceed the sequence, and a current  *)
(* check carries the value of the last PUT.                                *)
THEOREM IndInvHolds == Spec => [](TypeOK /\ IndInv)
<1>1. Init => TypeOK /\ IndInv
  BY ZenonT(60), InitTypeOK, InitIndInv
<1>2. TypeOK /\ IndInv /\ [Next]_vars => TypeOK' /\ IndInv'
  BY ZenonT(60), NextTypeOK, NextIndInv
<1> QED
  BY <1>1, <1>2, PTL DEF Spec

-----------------------------------------------------------------------------
(* The safety properties.                                                  *)

(* A step changes the pools in one of two ways: it publishes the value of  *)
(* the last PUT taken for an identity, or it removes a deleted one.        *)
LEMMA PoolSteps ==
  ASSUME TypeOK, IndInv, [Next]_vars
  PROVE  \/ UNCHANGED pool
         \/ \E id \in NodeIds : \E node \in Node :
              /\ UpsertNode(id, node) /\ Live(id) /\ recv[id].node = node
              /\ node.up => <<id, node.addr>> \in verified
         \/ LoopRemove
<1>a. LoopInv /\ GenInv /\ CheckInv
  BY ZenonT(60) DEF IndInv
<1>1. CASE Produce \/ LoopReceive \/ LoopDowngrade \/ LoopStartCheck
  BY ZenonT(60), <1>1 DEF Produce, DiscoveryPut, DiscoveryDelete, AddLocalNode, DeleteLocalNodeFind,
              DeleteLocalNodeSend, DeleteLocalNodeGivesUp, LoopReceive, LoopDowngrade, LoopStartCheck
<1>2. CASE LoopApply
  <2>1. /\ loop.ev \in Event /\ loop.ev.id \in NodeIds /\ loop.ev.node \in Node
        /\ loop.pc = "apply"
    BY ZenonT(60), <1>2 DEF LoopApply, TypeOK, Event
  <2>2. /\ recv[loop.ev.id] = loop.ev /\ loop.ev.op = "put" /\ loop.ev # NoEvent
        /\ ~loop.ev.node.up
    BY ZenonT(60), <1>a, <2>1, NoEventIsNone DEF LoopInv
  <2> QED
    BY ZenonT(60), <1>2, <2>1, <2>2 DEF LoopApply, Live
<1>3. CASE LoopRemove
  BY ZenonT(60), <1>3
<1>4. ASSUME NEW c \in checks, CheckPasses(c) \/ CheckFails(c)
      PROVE  UNCHANGED pool
  BY ZenonT(60), <1>4 DEF CheckPasses, CheckFails
<1>5. ASSUME NEW c \in checks, CheckApplies(c), ~UNCHANGED pool
      PROVE  /\ UpsertNode(c.id, c.node) /\ Live(c.id) /\ recv[c.id].node = c.node
             /\ <<c.id, c.node.addr>> \in verified
             /\ c.id \in NodeIds /\ c.node \in Node
  <2>1. UpsertNode(c.id, c.node) /\ Current(c.id, c.gen) /\ c.passed
    BY ZenonT(60), <1>5 DEF CheckApplies
  <2>2. c.id \in NodeIds /\ c.node \in Node /\ c.gen \in Nat
    BY ZenonT(60) DEF TypeOK, Check
  <2>3. c.gen \in 1..seq /\ recv[c.id].node = c.node /\ <<c.id, c.node.addr>> \in verified
    BY ZenonT(60), <1>a, <2>1 DEF CheckInv
  <2>4. gens[c.id] # 0
    BY <2>1, <2>3 DEF Current, TypeOK
  <2>5. Live(c.id)
    BY ZenonT(60), <1>a, <2>2, <2>4 DEF GenInv
  <2> QED
    BY ZenonT(60), <2>1, <2>2, <2>3, <2>5
<1>6. CASE UNCHANGED vars
  BY ZenonT(60), <1>6 DEF vars
<1> QED
  BY ZenonT(60), <1>1, <1>2, <1>3, <1>4, <1>5, <1>6 DEF Next, Loop, CheckStep

(* No step overwrites newer state: whatever is written into a pool, by a   *)
(* health check or by a downgrade, is the value of the last PUT taken.     *)
THEOREM PublishesLatestHolds == Spec => PublishesLatest
<1>1. ASSUME TypeOK, IndInv, [Next]_vars
      PROVE  [PublishStep]_vars
  <2>1. SUFFICES ASSUME NEW j \in NodeIds, NEW p \in PoolsOf(j),
                        pool'[p][j.key] # pool[p][j.key], pool'[p][j.key] # NoNode
                 PROVE  Live(j) /\ pool'[p][j.key] = recv[j].node
    BY ZenonT(60) DEF PublishStep
  <2>2. pool \in [Pools -> [Keys -> Node \cup {NoNode}]]
    BY ZenonT(60), <1>1 DEF TypeOK
  <2>3. CASE LoopRemove
    <3>1. loop.ev.id \in NodeIds /\ loop.ev.node \in Node /\ RemoveNode(loop.ev.id, loop.ev.node)
      BY ZenonT(60), <1>1, <2>1, <2>3 DEF LoopRemove, TypeOK, Event
    <3> QED
      BY ZenonT(60), <2>1, <2>2, <3>1, WriteTouchesOwnSlot
  <2>4. ASSUME NEW id \in NodeIds, NEW node \in Node,
               UpsertNode(id, node), Live(id), recv[id].node = node
        PROVE  Live(j) /\ pool'[p][j.key] = recv[j].node
    BY <2>1, <2>2, <2>4, WriteTouchesOwnSlot
  <2> QED
    BY ZenonT(60), <1>1, <2>1, <2>3, <2>4, PoolSteps
<1> QED
  BY <1>1, IndInvHolds, PTL DEF Spec, PublishesLatest

(* The generation table holds exactly the live nodes.                      *)
THEOREM GenerationsBounded == Spec => []GenerationsAreLiveNodes
<1>1. IndInv => GenerationsAreLiveNodes
  BY ZenonT(60) DEF IndInv, GenInv, GenerationsAreLiveNodes
<1> QED
  BY <1>1, IndInvHolds, PTL

(* A node is available to requests only at an address a health check of    *)
(* that identity has reached.                                              *)
THEOREM AvailableIsVerifiedHolds == Spec => []AvailableIsVerified
<1>1. Init => AvailableIsVerified
  BY DEF Init, AvailableIsVerified, PoolsOf, Pools, NodeIds
<1>2. ASSUME TypeOK, IndInv, [Next]_vars, AvailableIsVerified
      PROVE  AvailableIsVerified'
  <2>1. SUFFICES ASSUME NEW j \in NodeIds, NEW p \in PoolsOf(j),
                        pool'[p][j.key] # NoNode, pool'[p][j.key].up
                 PROVE  <<j, pool'[p][j.key].addr>> \in verified'
    BY ZenonT(60) DEF AvailableIsVerified
  <2>2. pool \in [Pools -> [Keys -> Node \cup {NoNode}]]
    BY ZenonT(60), <1>2 DEF TypeOK
  <2>3. verified \subseteq verified'
    BY ZenonT(60), <1>2 DEF Next, Produce, Loop, CheckStep, DiscoveryPut, DiscoveryDelete, AddLocalNode,
                DeleteLocalNodeFind, DeleteLocalNodeSend, DeleteLocalNodeGivesUp, LoopReceive,
                LoopDowngrade, LoopStartCheck, LoopApply, LoopRemove, CheckPasses, CheckFails, CheckApplies, vars
  <2>4. pool'[p][j.key] = pool[p][j.key] => <<j, pool[p][j.key].addr>> \in verified
    BY ZenonT(60), <1>2, <2>1 DEF AvailableIsVerified
  <2>5. CASE LoopRemove
    <3>1. \/ loop.ev.id \in NodeIds /\ loop.ev.node \in Node /\ RemoveNode(loop.ev.id, loop.ev.node)
          \/ UNCHANGED pool
      BY ZenonT(60), <1>2, <2>5 DEF LoopRemove, TypeOK, Event
    <3> QED
      BY ZenonT(60), <2>1, <2>2, <2>3, <2>4, <3>1, WriteTouchesOwnSlot
  <2>6. ASSUME NEW id \in NodeIds, NEW node \in Node, UpsertNode(id, node),
               node.up => <<id, node.addr>> \in verified
        PROVE  <<j, pool'[p][j.key].addr>> \in verified'
    BY <2>1, <2>2, <2>3, <2>4, <2>6, WriteTouchesOwnSlot
  <2>7. CASE UNCHANGED pool
    BY ZenonT(60), <2>3, <2>4, <2>7
  <2> QED
    BY ZenonT(60), <1>2, <2>5, <2>6, <2>7, PoolSteps
<1> QED
  BY <1>1, <1>2, IndInvHolds, PTL DEF Spec

(* While the loop handles a PUT of an identity, the identity is live.      *)
LEMMA HandlingPutIsLive ==
  ASSUME TypeOK, IndInv, loop.pc \in {"put", "apply"}
  PROVE  /\ loop.ev.id \in NodeIds /\ loop.ev.node \in Node
         /\ recv[loop.ev.id] = loop.ev /\ Live(loop.ev.id)
<1>1. loop.ev \in Event /\ loop.ev.id \in NodeIds /\ loop.ev.node \in Node
  BY ZenonT(60) DEF TypeOK, Event
<1>2. recv[loop.ev.id] = loop.ev /\ loop.ev.op = "put"
  BY ZenonT(60) DEF IndInv, LoopInv
<1> QED
  BY ZenonT(60), <1>1, <1>2, NoEventIsNone DEF Live

(* Only the loop's receipt of an event changes recv.                       *)
LEMMA RecvSteps ==
  ASSUME [Next]_vars, ~LoopReceive
  PROVE  UNCHANGED recv
  BY ZenonT(60) DEF Next, Produce, Loop, CheckStep, DiscoveryPut, DiscoveryDelete, AddLocalNode,
         DeleteLocalNodeFind, DeleteLocalNodeSend, DeleteLocalNodeGivesUp, LoopDowngrade, LoopStartCheck,
         LoopApply, LoopRemove, CheckPasses, CheckFails, CheckApplies, vars

(* Taking an event touches the record of one identity only, and the loop   *)
(* then handles that identity.                                             *)
LEMMA ReceiveSteps ==
  ASSUME TypeOK, LoopReceive
  PROVE  /\ UNCHANGED <<pool, checks, failed>> /\ loop.pc = "idle"
         /\ \E ev \in Event :
              /\ ev.id \in NodeIds /\ loop'.pc # "idle" /\ loop'.ev = ev
              /\ \A j \in NodeIds : j # ev.id => recv'[j] = recv[j] /\ gens'[j] = gens[j]
<1>1. PICK ev : ev = Head(nodeChannel)
  BY ZenonT(60)
<1>2. ev \in Event /\ ev.id \in NodeIds
  <2>1. nodeChannel # <<>> /\ nodeChannel \in Seq(Event)
    BY ZenonT(60) DEF LoopReceive, TypeOK
  <2>2. Head(nodeChannel) \in Event
    BY <2>1
  <2> QED
    BY ZenonT(60), <1>1, <2>2 DEF Event
<1>3. /\ recv' = [recv EXCEPT ![ev.id] = ev]
      /\ UNCHANGED <<pool, checks, failed>> /\ loop.pc = "idle"
  BY ZenonT(60), <1>1 DEF LoopReceive
<1>4. \/ /\ gens' = [gens EXCEPT ![ev.id] = seq + 1]
         /\ loop' = [pc |-> "put", ev |-> ev, gen |-> seq + 1]
      \/ /\ gens' = [gens EXCEPT ![ev.id] = 0]
         /\ loop' = [pc |-> "delete", ev |-> ev, gen |-> 0]
  BY ZenonT(60), <1>1 DEF LoopReceive, Bump, Forget
<1>5. loop'.pc # "idle" /\ loop'.ev = ev
  BY <1>4
<1>6. \A j \in NodeIds : j # ev.id => recv'[j] = recv[j] /\ gens'[j] = gens[j]
  BY ZenonT(60), <1>2, <1>3, <1>4 DEF TypeOK
<1> QED
  BY ZenonT(60), <1>2, <1>3, <1>5, <1>6

(* Where the loop goes when it does not take an event.                     *)
LEMMA HandlingSteps ==
  ASSUME TypeOK, IndInv, [Next]_vars, ~LoopReceive, ~LoopRemove, NEW j \in NodeIds,
         Handling(j)
  PROVE  Handling(j)' \/ Live(j)
<1>1. CASE LoopStartCheck \/ LoopApply
  <2>1. loop.pc \in {"put", "apply"} /\ loop.ev.id = j
    BY ZenonT(60), <1>1 DEF LoopStartCheck, LoopApply, Handling
  <2> QED
    BY ZenonT(60), <2>1, HandlingPutIsLive
<1>2. CASE LoopDowngrade
  BY ZenonT(60), <1>2 DEF LoopDowngrade, Handling, TypeOK
<1>3. CASE Produce \/ CheckStep \/ UNCHANGED vars
  <2>1. UNCHANGED loop
    BY ZenonT(60), <1>3 DEF Produce, CheckStep, DiscoveryPut, DiscoveryDelete, AddLocalNode,
         DeleteLocalNodeFind, DeleteLocalNodeSend, DeleteLocalNodeGivesUp, CheckPasses, CheckFails, CheckApplies, vars
  <2> QED
    BY ZenonT(60), <2>1 DEF Handling
<1> QED
  BY ZenonT(60), <1>1, <1>2, <1>3 DEF Next, Loop

(* A deleted node is not in the list its DELETE names once the loop has    *)
(* finished with the DELETE, whatever checks were in flight and whatever   *)
(* roles and addresses its PUTs had.                                       *)
THEOREM NoGhostHolds == Spec => []NoGhost
<1>1. Init => NoGhost
  BY DEF Init, NoGhost, PoolsOf, Pools, NodeIds
<1>2. ASSUME TypeOK, IndInv, [Next]_vars, NoGhost
      PROVE  NoGhost'
  <2>1. SUFFICES ASSUME NEW j \in NodeIds, NEW p \in PoolsOf(j),
                        pool'[p][j.key] # NoNode, ~Live(j)'
                 PROVE  Handling(j)' \/ Missed(j, p)'
    BY ZenonT(60) DEF NoGhost, PoolsOf
  <2>2. pool \in [Pools -> [Keys -> Node \cup {NoNode}]]
    BY ZenonT(60), <1>2 DEF TypeOK
  <2>3. (pool[p][j.key] # NoNode /\ ~Live(j)) => Handling(j) \/ Missed(j, p)
    BY ZenonT(60), <1>2, <2>1 DEF NoGhost
  <2>4. recv'[j] = recv[j] => (Live(j)' = Live(j) /\ Missed(j, p)' = Missed(j, p))
    BY ZenonT(60) DEF Live, Missed
  <2>5. CASE LoopReceive
    <3>1. PICK ev \in Event :
              /\ loop'.pc # "idle" /\ loop'.ev = ev
              /\ j # ev.id => recv'[j] = recv[j]
      BY ZenonT(60), <1>2, <2>5, ReceiveSteps
    <3>2. UNCHANGED pool /\ loop.pc = "idle"
      BY ZenonT(60), <1>2, <2>5, ReceiveSteps
    <3>3. CASE j = ev.id
      BY ZenonT(60), <3>1, <3>3 DEF Handling
    <3>4. CASE j # ev.id
      BY ZenonT(60), <2>1, <2>3, <2>4, <3>1, <3>2, <3>4 DEF Handling
    <3> QED
      BY ZenonT(60), <3>3, <3>4
  <2>6. CASE LoopRemove
    <3>1. /\ loop.pc = "delete" /\ loop.ev \in Event /\ loop.ev.id \in NodeIds
          /\ loop.ev.node \in Node /\ recv[loop.ev.id] = loop.ev /\ recv' = recv
      BY ZenonT(60), <1>2, <2>6 DEF LoopRemove, TypeOK, Event, IndInv, LoopInv
    <3>2. RemoveNode(loop.ev.id, loop.ev.node) \/ UNCHANGED pool
      BY ZenonT(60), <2>6 DEF LoopRemove
    <3>3. pool'[p][j.key] = pool[p][j.key]
      BY ZenonT(60), <2>1, <2>2, <3>1, <3>2, WriteTouchesOwnSlot
    <3>4. CASE j = loop.ev.id
      <4>1. Buildable(loop.ev.node) => p # PoolOf(j, loop.ev.node)
        BY ZenonT(60), <2>1, <2>2, <2>6, <3>1, <3>4, WriteTouchesOwnSlot DEF LoopRemove
      <4>2. recv[j] = loop.ev /\ recv[j] # NoEvent
        BY ZenonT(60), <3>1, <3>4, NoEventIsNone
      <4> QED
        BY ZenonT(60), <2>4, <3>1, <4>1, <4>2 DEF Missed
    <3>5. CASE j # loop.ev.id
      BY ZenonT(60), <2>1, <2>3, <2>4, <3>1, <3>3, <3>5 DEF Handling
    <3> QED
      BY ZenonT(60), <3>4, <3>5
  <2>7. CASE ~LoopReceive /\ ~LoopRemove
    <3>1. recv'[j] = recv[j]
      BY ZenonT(60), <1>2, <2>7, RecvSteps
    <3>2. ~Live(j)
      BY ZenonT(60), <2>1, <2>4, <3>1
    <3>3. pool[p][j.key] # NoNode
      <4>1. ASSUME NEW id \in NodeIds, NEW node \in Node, UpsertNode(id, node), Live(id)
            PROVE  pool[p][j.key] # NoNode
        BY ZenonT(60), <2>1, <2>2, <3>2, <4>1, WriteTouchesOwnSlot
      <4>2. CASE UNCHANGED pool
        BY ZenonT(60), <2>1, <4>2
      <4> QED
        BY ZenonT(60), <1>2, <2>7, <4>1, <4>2, PoolSteps
    <3> QED
      BY ZenonT(60), <1>2, <2>3, <2>4, <2>7, <3>1, <3>2, <3>3, HandlingSteps
  <2> QED
    BY ZenonT(60), <2>5, <2>6, <2>7
<1> QED
  BY <1>1, <1>2, IndInvHolds, PTL DEF Spec

(* A DELETE that carries the role of the node's PUTs takes the node out of *)
(* every pool, if lbnode.New accepts it: one that it refuses is dropped    *)
(* after the generation is forgotten.                                      *)
THEOREM NamedIsGoneHolds == Spec => []NamedIsGone
<1>1. ASSUME TypeOK, IndInv, NoGhost
      PROVE  NamedIsGone
  <2>1. SUFFICES ASSUME NEW j \in NodeIds, ~Live(j), NamesRole(j), ~Handling(j),
                        NEW p \in PoolsOf(j), pool[p][j.key] # NoNode
                 PROVE  FALSE
    BY ZenonT(60) DEF NamedIsGone, nodeInPool
  <2>2. Missed(j, p)
    BY ZenonT(60), <1>1, <2>1 DEF NoGhost
  <2>3. pool[p][j.key] \in Updates[j] /\ p = PoolOf(j, pool[p][j.key])
    BY ZenonT(60), <1>1, <2>1 DEF IndInv, ValueInv
  <2>4. pool[p][j.key].role = recv[j].node.role
    BY ZenonT(60), <2>1, <2>3 DEF NamesRole
  <2>5. p = PoolOf(j, recv[j].node)
    BY ZenonT(60), <2>3, <2>4 DEF PoolOf
  <2>6. Buildable(recv[j].node)
    BY ZenonT(60), <2>1 DEF NamesRole
  <2> QED
    BY ZenonT(60), <2>2, <2>5, <2>6 DEF Missed
<1> QED
  BY <1>1, IndInvHolds, NoGhostHolds, PTL

(* No update is lost: the last PUT taken for an identity is pooled, or it  *)
(* is being handled, or its own check is running, or that check failed or  *)
(* its address cannot be built.                                            *)
THEOREM LatestOrPendingHolds == Spec => []LatestOrPending
<1> USE DEF Current
<1>1. Init => LatestOrPending
  BY ZenonT(60) DEF Init, LatestOrPending, Live
<1>2. ASSUME TypeOK, IndInv, [Next]_vars, LatestOrPending
      PROVE  LatestOrPending'
  <2> DEFINE Pooled(j) == pool[PoolOf(j, recv[j].node)][j.key] = recv[j].node
             Done(j) == \/ Pooled(j) \/ Handling(j) \/ Pending(j)
                        \/ gens[j] \in failed \/ ~Buildable(recv[j].node)
  <2>1. SUFFICES ASSUME NEW j \in NodeIds, Live(j)' PROVE Done(j)'
    BY ZenonT(60) DEF LatestOrPending
  <2>2. pool \in [Pools -> [Keys -> Node \cup {NoNode}]]
    BY ZenonT(60), <1>2 DEF TypeOK
  <2>3. Live(j) => Done(j)
    BY ZenonT(60), <1>2 DEF LatestOrPending
  <2>4. CASE LoopReceive
    <3>1. PICK ev \in Event :
              /\ loop'.pc # "idle" /\ loop'.ev = ev
              /\ j # ev.id => recv'[j] = recv[j] /\ gens'[j] = gens[j]
      BY ZenonT(60), <1>2, <2>4, ReceiveSteps
    <3>2. UNCHANGED <<pool, checks, failed>> /\ loop.pc = "idle"
      BY ZenonT(60), <1>2, <2>4, ReceiveSteps
    <3>3. CASE j = ev.id
      BY ZenonT(60), <3>1, <3>3 DEF Handling
    <3>4. CASE j # ev.id
      BY ZenonT(60), <2>1, <2>3, <3>1, <3>2, <3>4 DEF Handling, Live, Pending
    <3> QED
      BY ZenonT(60), <3>3, <3>4
  <2>5. CASE Produce \/ UNCHANGED vars
    <3>1. UNCHANGED <<gens, loop, checks, pool, recv, failed>>
      BY ZenonT(60), <2>5 DEF Produce, DiscoveryPut, DiscoveryDelete, AddLocalNode,
         DeleteLocalNodeFind, DeleteLocalNodeSend, DeleteLocalNodeGivesUp, genVars, vars
    <3> QED
      BY ZenonT(60), <2>1, <2>3, <3>1 DEF Live, Handling, Pending
  <2>6. CASE LoopDowngrade
    <3>1. /\ UNCHANGED <<gens, checks, pool, recv, failed>>
          /\ Handling(j) => Handling(j)'
      BY ZenonT(60), <1>2, <2>6 DEF LoopDowngrade, Handling, genVars, TypeOK
    <3> QED
      BY ZenonT(60), <2>1, <2>3, <3>1 DEF Live, Pending
  <2>7. CASE LoopStartCheck
    <3>1. /\ UNCHANGED <<gens, pool, recv, failed>> /\ checks \subseteq checks'
          /\ loop.pc = "put"
      BY ZenonT(60), <2>7 DEF LoopStartCheck, genVars
    <3>2. CASE loop.ev.id = j
      <4>1. PICK c : c = [gen |-> loop.gen, id |-> loop.ev.id, node |-> loop.ev.node,
                          passed |-> FALSE]
        BY ZenonT(60)
      <4>2. c \in checks' /\ c.id = j /\ c.gen = loop.gen
        BY ZenonT(60), <2>7, <3>2, <4>1 DEF LoopStartCheck
      <4>3. loop.gen = gens'[j]
        BY ZenonT(60), <1>2, <3>1, <3>2 DEF IndInv, LoopInv
      <4> QED
        BY ZenonT(60), <4>2, <4>3 DEF Pending
    <3>3. CASE loop.ev.id # j
      <4>1. ~Handling(j)
        BY ZenonT(60), <3>3 DEF Handling
      <4>2. Pending(j) => Pending(j)'
        BY ZenonT(60), <3>1 DEF Pending
      <4> QED
        BY ZenonT(60), <2>1, <2>3, <3>1, <4>1, <4>2 DEF Live
    <3> QED
      BY ZenonT(60), <3>2, <3>3
  <2>8. CASE LoopApply
    <3>1. /\ UNCHANGED <<gens, checks, recv, failed>> /\ loop.pc = "apply"
          /\ IF Buildable(loop.ev.node) THEN UpsertNode(loop.ev.id, loop.ev.node)
                                        ELSE UNCHANGED pool
      BY ZenonT(60), <2>8 DEF LoopApply, genVars
    <3>2. /\ loop.ev.id \in NodeIds /\ loop.ev.node \in Node
          /\ recv[loop.ev.id] = loop.ev
      BY ZenonT(60), <1>2, <3>1, HandlingPutIsLive
    <3>3. CASE loop.ev.id = j /\ Buildable(loop.ev.node)
      <4>1. recv'[j].node = loop.ev.node /\ UpsertNode(j, loop.ev.node)
        BY ZenonT(60), <3>1, <3>2, <3>3
      <4>2. PoolOf(j, loop.ev.node) \in PoolsOf(j)
        BY ZenonT(60), <3>2, PoolOfIsOwn
      <4>3. pool'[PoolOf(j, loop.ev.node)][j.key] = loop.ev.node
        BY <2>2, <3>2, <4>1, <4>2, WriteTouchesOwnSlot
      <4> QED
        BY ZenonT(60), <4>1, <4>3
    <3>4. CASE loop.ev.id = j /\ ~Buildable(loop.ev.node)
      BY ZenonT(60), <3>1, <3>2, <3>4
    <3>5. CASE loop.ev.id # j
      <4>1. recv[j].node \in Node
        BY ZenonT(60), <1>2, <2>1, <3>1 DEF TypeOK, Live, Event
      <4>2. PoolOf(j, recv[j].node) \in PoolsOf(j)
        BY ZenonT(60), <4>1, PoolOfIsOwn
      <4>3. pool'[PoolOf(j, recv[j].node)][j.key] = pool[PoolOf(j, recv[j].node)][j.key]
        BY <2>2, <3>1, <3>2, <3>5, <4>2, WriteTouchesOwnSlot
      <4>4. ~Handling(j)
        BY ZenonT(60), <3>5 DEF Handling
      <4> QED
        BY ZenonT(60), <2>1, <2>3, <3>1, <4>3, <4>4 DEF Live, Pending
    <3> QED
      BY ZenonT(60), <3>3, <3>4, <3>5
  <2>9. CASE LoopRemove
    <3>1. /\ UNCHANGED <<gens, checks, recv, failed>> /\ loop.pc = "delete"
          /\ RemoveNode(loop.ev.id, loop.ev.node) \/ UNCHANGED pool
      BY ZenonT(60), <2>9 DEF LoopRemove, genVars
    <3>2. /\ loop.ev.id \in NodeIds /\ loop.ev.node \in Node
          /\ recv[loop.ev.id] = loop.ev /\ loop.ev.op = "delete"
      BY ZenonT(60), <1>2, <3>1 DEF TypeOK, Event, IndInv, LoopInv
    <3>3. loop.ev.id # j
      BY ZenonT(60), <2>1, <3>1, <3>2 DEF Live
    <3>4. recv[j].node \in Node
      BY ZenonT(60), <1>2, <2>1, <3>1 DEF TypeOK, Live, Event
    <3>5. PoolOf(j, recv[j].node) \in PoolsOf(j)
      BY ZenonT(60), <3>4, PoolOfIsOwn
    <3>6. pool'[PoolOf(j, recv[j].node)][j.key] = pool[PoolOf(j, recv[j].node)][j.key]
      BY ZenonT(60), <2>2, <3>1, <3>2, <3>3, <3>5, WriteTouchesOwnSlot
    <3>7. ~Handling(j)
      BY ZenonT(60), <3>3 DEF Handling
    <3> QED
      BY ZenonT(60), <2>1, <2>3, <3>1, <3>6, <3>7 DEF Live, Pending
  <2>10. ASSUME NEW c \in checks, CheckPasses(c)
         PROVE  Done(j)'
    <3>1. UNCHANGED <<gens, loop, pool, recv, failed>>
      BY ZenonT(60), <2>10 DEF CheckPasses, genVars
    <3>2. PICK d : d = [c EXCEPT !.passed = TRUE]
      BY ZenonT(60)
    <3>3. d.id = c.id /\ d.gen = c.gen /\ d \in checks' /\ \A e \in checks : e = c \/ e \in checks'
      BY ZenonT(60), <1>2, <2>10, <3>2 DEF CheckPasses, TypeOK, Check
    <3>4. Pending(j) => Pending(j)'
      BY ZenonT(60), <3>1, <3>3 DEF Pending
    <3> QED
      BY ZenonT(60), <2>1, <2>3, <3>1, <3>4 DEF Live, Handling
  <2>11. ASSUME NEW c \in checks, CheckFails(c)
         PROVE  Done(j)'
    <3>1. /\ UNCHANGED <<gens, loop, pool, recv>> /\ failed' = failed \cup {c.gen}
          /\ checks' = checks \ {c}
      BY ZenonT(60), <2>11 DEF CheckFails, genVars
    <3>2. Pending(j) => Pending(j)' \/ gens'[j] \in failed'
      BY ZenonT(60), <3>1 DEF Pending
    <3> QED
      BY ZenonT(60), <2>1, <2>3, <3>1, <3>2 DEF Live, Handling
  <2>12. ASSUME NEW c \in checks, CheckApplies(c)
         PROVE  Done(j)'
    <3>1. /\ UNCHANGED <<gens, loop, recv, failed>> /\ checks' = checks \ {c}
          /\ IF gens[c.id] = c.gen THEN UpsertNode(c.id, c.node) ELSE UNCHANGED pool
      BY ZenonT(60), <2>12 DEF CheckApplies, genVars
    <3>2. c.id \in NodeIds /\ c.node \in Node /\ (gens[c.id] = c.gen => recv[c.id].node = c.node)
      BY ZenonT(60), <1>2 DEF TypeOK, Check, IndInv, CheckInv
    <3>3. recv[j].node \in Node
      BY ZenonT(60), <1>2, <2>1, <3>1 DEF TypeOK, Live, Event
    <3>4. PoolOf(j, recv[j].node) \in PoolsOf(j)
      BY ZenonT(60), <3>3, PoolOfIsOwn
    <3>5. CASE c.id = j /\ gens[j] = c.gen
      <4>1. recv[j].node = c.node /\ UpsertNode(j, c.node)
        BY ZenonT(60), <3>1, <3>2, <3>5
      <4>2. pool'[PoolOf(j, c.node)][j.key] = c.node
        BY <2>2, <3>2, <3>4, <4>1, WriteTouchesOwnSlot
      <4> QED
        BY ZenonT(60), <3>1, <4>1, <4>2
    <3>6. CASE ~(c.id = j /\ gens[j] = c.gen)
      <4>1. Pending(j) => Pending(j)'
        BY ZenonT(60), <3>1, <3>6 DEF Pending
      <4>2. pool'[PoolOf(j, recv[j].node)][j.key] = pool[PoolOf(j, recv[j].node)][j.key]
        BY <2>2, <3>1, <3>2, <3>4, <3>6, WriteTouchesOwnSlot
      <4> QED
        BY ZenonT(60), <2>1, <2>3, <3>1, <4>1, <4>2 DEF Live, Handling
    <3> QED
      BY ZenonT(60), <3>5, <3>6
  <2> QED
    BY ZenonT(60), <1>2, <2>4, <2>5, <2>6, <2>7, <2>8, <2>9, <2>10, <2>11, <2>12
       DEF Next, Loop, CheckStep
<1> QED
  BY <1>1, <1>2, IndInvHolds, PTL DEF Spec
=============================================================================
