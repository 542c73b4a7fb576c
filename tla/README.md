# nodex-proxy in TLA+

Specifications of nodex-proxy, the JSON-RPC load balancer in `src/`: what its
concurrent parts do, checked by TLC on small instances, with the safety of the
node pools proved by TLAPS for every instance.

## The system

nodex-proxy takes JSON-RPC requests for many chains and forwards each to an
upstream node of the chain.

* **Discovery** (`discovery/etcd`) reads the configured prefix of etcd once,
  watches it from there on, and turns each key into an event on one of five
  channels: nodes, heights, gateways, mirrors, chain versions. A broken watch
  is resumed, a compacted one is replaced by a comparison of a fresh snapshot
  with the values delivered before.
* **The event loop** (`lb/lb.go`, `BackgroundRefreshNode`) takes events from the
  channels one at a time. A node that is available goes into the pools through
  a health check in a goroutine of its own; *generations*
  (`lb/node_generation.go`) keep a check that was overtaken from publishing.
* **The selector** (`lb/selector/random`, `utils/pick_nodes.go`) holds the
  archive, state and native pools of each chain and picks a node for a request:
  by pool, by availability, by method route, by weight (`lb/jsonrpc/gateway_map.go`).
* **ServeHTTP** (`lb/lb.go`) parses a request, resolves the chain version, picks
  a node, forwards, and retries on archive or native nodes after certain error
  codes. A cache of block hashes known to need archive saves the first attempt.
* **The usage collector** (`usage`) sums requests and milliseconds per client
  and sends the sums to Kafka from a background goroutine.
* **The management API** (`http_handler`) edits nodes, weights, routes, mirrors
  and the writer's leader in etcd, and nodes and mirrors of this proxy only.

The etcd keys link the management API to discovery, the channels link discovery
to the event loop, the pools link the event loop to the selector, and `GetNode`
links the selector to ServeHTTP.

## Modules

| module | code | state | actions |
|---|---|---|---|
| `NodeLifecycle` | `lb/lb.go` (node events), `lb/node_generation.go`, `lb/node_health.go`, local nodes in `http_handler/handler.go` | `nodeChannel`, the generation table, the step of the event loop, the checks in flight, the three pools | one per lock section: a PUT is received and bumps, is applied or starts a check; a DELETE, with or without details, forgets, then removes; a check passes, fails, publishes |
| `NodeLifecycleProofs` | | | theorems about `NodeLifecycle` |
| `Discovery` | `discovery/etcd/discovery.go`, the start order of `cmd/proxy/main.go` | `knownKeys`, `watchRevision`, the pending dispatches, the channels; etcd as a log of revisions with a compaction revision | `Init`'s read, each channel send, watch, response, break, resync; the consumer |
| `ConfigFeed` | the promise of discovery | the log, the consumer's view of each key | a write; the view of a key moves forward |
| `Selector` | `lb/selector/random/random.go`, `utils/pick_nodes.go`, `lb/lbnode/node.go`, `lb/jsonrpc/gateway_map.go` | the pools as lists, the height, the gateway, a `GetNode` between its lock sections | upsert, remove, height, gateway; `GetNode` in two steps |
| `Serve` | `lb/lb.go` (`ServeHTTP`, `attemptRequest`), `lb/archive_hash_cache.go`, `lb/version_router.go`, `types/lib.go` | requests in progress, the cache, the version override, what each pool can answer | arrival, cached route, choice, attempt, the two retries, remembering, post-processing |
| `UsageCollector` | `usage/collector.go`, `usage/kafka_producer.go` | the map, the gauge, the flush signal, `run`, `Close`, the producer | each lock section and channel operation |
| `GatewayAdmin` | `http_handler/handler.go` | the node keys and the gateway key with its revision, the selector's view, the handlers in progress | the first checks of each handler, the read and edit of the gateway, the commit or put; the registrar of official nodes |

Each `MC…` module gives the constants of its module values for TLC. Operators
named `Faulty…` are plausible bugs: each replaces one definition of its module
and makes TLC refute one property, which shows that the property depends on
that code.

Data is reduced to what the properties tell apart. An address, key, method,
hash or client is a model value; a node is its address, role and availability;
a response is who wrote it, its status, its media type, the kind of its body
(empty, no error key, a nested one, a top-level error, one that does not
unmarshal, an array) and its error codes. Serve reduces the pools to "ready",
"empty" or "barred" (nodes, none of them usable), which is what `Selector` can
answer. Chains share no state except the sequence of
generations, so `NodeLifecycle`, `Selector` and `GatewayAdmin` model one chain.

## What the runs check

Runs that must pass:

| run | shows |
|---|---|
| `NodeLifecycle_stable` | a node whose DELETE carries its role leaves every pool for good, only the last event's value is published, a node is available only at a checked address; `IndInv`, on which the proofs rest, holds |
| `NodeLifecycle_live` | for nodes that change role or address or cannot be built: no update is lost and no removed node is brought back (the entry an old role leaves behind is the subject of `NodeLifecycle_rolechange`); a downgrade takes effect by the event loop's own steps; once events stop a node whose last event is a PUT is pooled with it and a deleted one is gone from the list its DELETE names |
| `Discovery_feed` | no change of a key is lost, repeated or reordered over broken watches, compaction and resync; a DELETE carries the value the consumer has; the consumer gets to the last state of etcd; `Discovery` implements `ConfigFeed` |
| `Selector_routing` | keys are unique, candidates are those a declarative definition gives, each node owns as many target weights as its weight, and `GetNode` returns an eligible node while pools and gateway change |
| `Serve_single` | the sequence of attempts, the cache, the report of the post-processors and the retries, for every request and every kind of answer, an upstream's own 502 and 504 among them |
| `Serve_cache` | two requests sharing the cache: a hash is cached, and a request is sent to archive for it, only after archive proved it; a cached hash is never the reason for a refusal, both are answered |
| `UsageCollector_usage` | every accepted request is counted once, the gauge is exact, the producer is closed last, Close drains, a record is rounded up by at most one millisecond and down by less, a full map is flushed without a tick, `run` exits |
| `GatewayAdmin_edits` | concurrent edits are atomic, AddNode replaces nothing, the configuration stays normal |

Runs that must find a violation, each of a sentence in the repository:

| run | the code | the sentence |
|---|---|---|
| `NodeLifecycle_rolechange` | a new role adds the node to a second pool | `lb/lbnode/node.go:176` |
| `NodeLifecycle_undecodable` | a DELETE whose previous value does not decode has no role, and an archive node stays pooled | `discovery/etcd/discovery.go:331`, `docs/architecture.md:130` |
| `Discovery_init` | Init blocks if a kind of key outnumbers its channel | `docs/architecture.md:47` |
| `GatewayAdmin_manual` | UpdateNode overwrites a node that became official meanwhile; DeleteNode deletes it in the same way | `http_handler/handler.go:511`, `:421` |

More disagreements are visible in the modules and have no run of their own:

* a PUT that is not available is applied to a pooled node at once, with a new
  address if it has one (`lb/lb.go:137`), while `README.md:213` has every node
  checked first. It is not available before a check passed
  (`AvailableIsVerified`), so requests reach it only while its pool has no
  available node at all;
* a PUT that takes an available node down and whose address `lbnode.New` refuses
  is only logged, and the node stays available (`lb/lb.go:141`), where the
  comment there has a downgrade applied at once; `DowngradeTakesEffect` is about
  the others;
* PickNodes does not fall back for a request that forces a pool
  (`utils/pick_nodes.go:57`), where `docs/architecture.md:102` has empty state
  and archive pools fall back to each other;
* UpdateNode puts a node back that was deleted after UpdateNode read it, where it
  answers "not found" (`http_handler/handler.go:499`) if the deletion comes first;
* AddMethodRoute extends an existing route (`http_handler/handler.go:648`), where
  the comment at `:646` says that it replaces it.

The response to an invalid chain id is an error of the proxy that the context
does not record (`lb/lb.go:354`); no post-processor runs for it, so
`ReportMatchesResponse` starts with the requests that reach them.

## Bounds

* `NodeLifecycle`: one key, as a regular and as a native node (two identities
  with separate slots), two addresses and that of an undecoded value,
  `MaxEvents` 4 with fixed roles. With role changes and an address that cannot
  be built, `MaxEvents` 3 and no native node. Four events are a PUT, a DELETE,
  a PUT and one more,
  with all their checks in flight at once, which is what a reused generation
  would need. The channel holds 2, so that producers block. The proofs remove
  these bounds.
* `Discovery`: two keys of different kinds, three values of which one does not
  decode, `MaxChanges` 3 changes of keys in transactions of one or two, one
  broken watch or failed read, channels of 1. That is room for a write, a
  deletion and a rewrite around one break with compaction.
* `Selector`: two keys in each of three pools; a state window of 3 blocks for
  64; heights below and above the window; weights 0, 1 and 3 against a default
  of 2.
* `Serve`: every shape of one request against every kind of body with status
  200 and a selection with other statuses and media types, or two requests
  pinned to one hash; `MaxUpdates` 1 change of pools, versions or cache in
  between. `attemptRequest` and `ServeHTTP` tell apart no other statuses.
* `UsageCollector`: 4 requests, a threshold of 2, two units to a millisecond,
  durations below, at and above zero. Four requests cross the threshold twice,
  so that a second signal finds the first one pending.
* `GatewayAdmin`: two handlers (interchangeable, hence the symmetry), two keys,
  one method, `MaxRev` 5: two commits around a deletion of the gateway key.

Deadlock is checked where the system never stops (`Selector`). The other runs
stop when a bound is used up or when the system is done.

## Fairness

Weak fairness of a goroutine's next step stands for the Go scheduler.

* `NodeLifecycle`: the event loop runs (`LoopSpec`). Only `Converges`
  also assumes that health checks end (`ChecksEnd`), because every probe has a
  timeout and the retries stop after `maxWaitTime`.
* `Discovery`: the watcher and the consumer run and etcd answers, except for
  the bounded number of faults.
* `Serve`: a request that arrived goes on; every attempt has a read timeout.
* `UsageCollector`: writes end by their timeout. A `select` that finds a case
  ready again and again takes it at some time, since Go picks at random: strong
  fairness of the flush and stop cases. Ticks are not assumed.

## Proofs

`NodeLifecycleProofs` proves for any keys, addresses, updates, channel capacity
and number of events, from the assumption `ConstantsOK` only:

* `TypeCorrect`: the type invariant;
* `IndInvHolds`: the inductive invariant `IndInv`;
* `PublishesLatestHolds`: only the last received PUT is ever published;
* `GenerationsBounded`: the generation table has entries for live nodes only;
* `AvailableIsVerifiedHolds`: an available node passed a check at its address;
* `LatestOrPendingHolds`: no update is lost;
* `NoGhostHolds`: once a DELETE is handled, the list it names does not hold the
  node until a later PUT, without any assumption on roles or values. A node may
  stay in a list the DELETE does not name, or if `lbnode.New` refuses the DELETE
  after Forget;
* `NamedIsGoneHolds`: a DELETE that carries the role of the node's PUTs takes it
  out of every pool, if `lbnode.New` accepts it. Without the role,
  `NodeLifecycle_undecodable` is a counterexample, and a node that changes its
  role leaves the entry of `NodeLifecycle_rolechange`; a DELETE that is refused
  is dropped after Forget and before RemoveNode.

None of these is inductive by itself. A check publishes the node it was started
with, so `PublishesLatest` needs that a check whose generation is current
carries the last event's node (`CheckInv`). That holds after a Bump because the
new generation is larger than that of any check (`GenInv` and the bound in
`CheckInv`), and after a DELETE because no check has generation 0. The loop
itself holds an event between its steps (`LoopInv`), and a pooled value lies in
the pool of its role (`ValueInv`), which is why RemoveNode finds it when the
DELETE carries that role.
`IndInv` is their conjunction; the proof goes action by action. `PoolSteps`
then says how a step can change the pools, and the other theorems use it.

Only model-checked: all liveness (the provers have neither fairness nor
ENABLED), and for now all properties of the other modules, the refinement of
`ConfigFeed` included. `NoGhost` and the rest are proved for the model's single
chain, as the code keeps chains apart by `nodeIdentity.chainId`.

## Not modelled, and the plan

`PROJECT.json` lists every part with its status. Left out for good: logging,
byte-level JSON scanning (only its outcomes are used), configuration loading,
and metrics that only count.

Next, in this order:

1. the writer's leader switch (`http_handler/writer_handler.go`): reads and
   writes in separate etcd calls;
2. mirrors: the map, the limiter and the handlers that edit them;
3. the cache of metric handles at its limit, chain id parsing and the shutdown
   arithmetic, as operators against reference definitions;
4. `Discovery` composed with `NodeLifecycle`, so that `NoGhost` and `Converges`
   speak of etcd's state;
5. theorems: `EditsAreAtomic` of `GatewayAdmin` (a handler about to commit at
   the current revision holds the edit of the current configuration),
   `NothingLostOrDoubled` and `GaugeIsExact` of `UsageCollector`, `UniqueKeys`
   of `Selector`, `AttemptsFollowRules` of `Serve`, and the refinement of
   `ConfigFeed`.
