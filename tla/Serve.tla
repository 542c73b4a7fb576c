-------------------------------- MODULE Serve --------------------------------
(***************************************************************************)
(* LoadBalancer.ServeHTTP: concurrent requests that share the node pools,  *)
(* the chain version overrides and the archive hash cache.  A request is   *)
(* parsed and resolved, may be answered by a pre-processor, is sent to one *)
(* node, may be retried on an archive node (error -39006) and then on a    *)
(* native node (error -39008), and runs through the post-processors.       *)
(* Discovery changes pools and versions, the cache evicts, and the         *)
(* upstreams answer as they like between any two steps.                    *)
(***************************************************************************)
EXTENDS Integers, Sequences, FiniteSets

CONSTANTS
  Requests,     (* request goroutines                                       *)
  Shapes,       (* what a request may look like, see Shape                  *)
  Hashes,       (* block hashes                                             *)
  NoHash,       (* the request is not an Equals request with a block hash   *)
  Base,         (* the base chain id                                        *)
  Versioned,    (* the id of one of its versions                            *)
  PoolSets,     (* what the pools of a chain may hold, see Pools            *)
  Answers,      (* what the upstreams may answer, see Answer                *)
  MaxUpdates    (* bound: discovery updates and evictions in a behaviour    *)

Chains == {Base, Versioned}

(* A pool is empty, or its nodes are all barred for the request (by a      *)
(* method route or zero weights), or one of them can be drawn.             *)
PoolState == {"empty", "barred", "ready"}
Pools == [state : PoolState, archive : PoolState, native : PoolState]

(* The JSON-RPC error codes ServeHTTP acts on, and one that stands for the *)
(* others.                                                                 *)
StateBlockNotFound == -39006
InvalidBlockID == -39007
CosmosPrecompile == -39008
OtherError == -32000
Codes == {StateBlockNotFound, InvalidBlockID, CosmosPrecompile, OtherError}

(* what: the body does not parse, the chain id is invalid, a pre-processor *)
(* answers, or none of these; archive: the node type header asks for       *)
(* archive; batch: more than one call; old: pinned to a block number below *)
(* the state window.                                                       *)
Shape == [chain : Chains, what : {"unparsable", "badChain", "denied", "call"},
          archive : BOOLEAN, batch : BOOLEAN, old : BOOLEAN, hash : Hashes \cup {NoHash}]

(* A response: who made it, its status, its content type and transfer      *)
(* encoding, its body and the top-level error codes in the body.  A body   *)
(* is empty, has no error key, has one below the top level or with null,   *)
(* has a top-level error, has an error key and does not unmarshal, or is   *)
(* an array.                                                               *)
Response(by, status, media, body, codes) ==
  [by |-> by, status |-> status, media |-> media, body |-> body, codes |-> codes]
NoResponse == Response("nobody", 0, "json", "empty", {})

(* WriteError on an empty response.  ServeHTTP acts on none of the proxy's *)
(* own codes.                                                              *)
ProxyError(status) == Response("proxy", status, "json", "error", {OtherError})

ContainsErrorKey(resp) ==
  \/ resp.body \in {"nested", "error", "broken"}
  \/ resp.body = "array" /\ (resp.codes # {} \/ resp.by = "proxy")

GatewayStatuses == {502, 504}

(* What a node's ReverseProxy leaves in the response: what the upstream    *)
(* sent, or the empty 502 or 504 of upstreamErrorHandler for an upstream   *)
(* that is unreachable or does not answer in time.                         *)
Answer ==
  {a \in [by : {"upstream"}, status : {200, 500} \cup GatewayStatuses,
          media : {"json", "chunked", "other"},
          body : {"empty", "plain", "nested", "error", "broken", "array"}, codes : SUBSET Codes] :
     /\ a.body = "error" => Cardinality(a.codes) = 1
     /\ a.body \notin {"error", "array"} => a.codes = {}}

ASSUME ConstantsOK ==
  /\ Shapes \subseteq Shape /\ Base # Versioned /\ NoHash \notin Hashes
  /\ PoolSets \subseteq Pools /\ Answers \subseteq Answer /\ MaxUpdates \in Nat

VARIABLES
  pools,      (* pools[c]: the selector's pools of chain c                  *)
  overrides,  (* the chain the base chain id is redirected to, if any       *)
  cache,      (* archiveHashCache: pairs of a chain and a hash              *)
  req,        (* req[r]: the RequestContext and progress of r               *)
  updates     (* number of updates so far                                   *)

vars == <<pools, overrides, cache, req, updates>>

Idle == [pc |-> "idle", shape |-> CHOOSE s \in Shapes : TRUE, chain |-> Base, archive |-> FALSE,
         native |-> FALSE, cached |-> FALSE, target |-> "none", resp |-> NoResponse,
         error |-> FALSE, errorKey |-> "unknown", attempts |-> <<>>]

Init ==
  /\ pools \in [Chains -> PoolSets]
  /\ overrides = Base
  /\ cache = {}
  /\ req = [r \in Requests |-> Idle]
  /\ updates = 0

-----------------------------------------------------------------------------
(* The environment.                                                        *)

CountUpdate == updates < MaxUpdates /\ updates' = updates + 1

(* Discovery publishes or removes nodes, weights or routes.                *)
UpdatePools ==
  /\ CountUpdate
  /\ \E c \in Chains : \E p \in PoolSets : pools' = [pools EXCEPT ![c] = p]
  /\ UNCHANGED <<overrides, cache, req>>

(* handleChainVersionUpdate sets or removes the override.                  *)
UpdateVersion ==
  /\ CountUpdate
  /\ \E c \in Chains : overrides' = c
  /\ UNCHANGED <<pools, cache, req>>

(* The bounded cache of a chain evicts as it likes.                        *)
Evict ==
  /\ CountUpdate
  /\ \E e \in cache : cache' = cache \ {e}
  /\ UNCHANGED <<pools, overrides, req>>

-----------------------------------------------------------------------------
(* Random.GetNode as module Selector has it, with only its outcome: the    *)
(* pool of the node, or none.                                              *)
GetNode(q, force) ==
  LET p == pools[q.chain]
      pool == IF force # "none" THEN force
              ELSE IF p.archive = "empty" THEN "state"
              ELSE IF p.state = "empty" THEN "archive"
              ELSE IF q.shape.old THEN "archive" ELSE "state"
  IN IF p[pool] = "ready" THEN pool ELSE "none"

(* lb.chooseTargetNode.                                                    *)
chooseTargetNode(q, requestKey) ==
  GetNode(q, IF requestKey = "native" THEN "native"
             ELSE IF q.archive THEN "archive" ELSE "none")

Resolve(chain) == IF chain = Base THEN overrides ELSE chain

(* Fault: ServeHTTP goes on after writeNoBackend.                          *)
FaultyNoBackend(q) == [q EXCEPT !.pc = "attempt", !.target = "none"]

(* writeNoBackend: the response is the proxy's and the request has failed. *)
NoBackend(q) ==
  [q EXCEPT !.pc = "post", !.target = "none", !.resp = ProxyError(200), !.error = TRUE]

resetResponse(q) == [q EXCEPT !.errorKey = "unknown", !.resp = NoResponse]

requestBlockHash(q) == q.shape.hash

(* ServeHTTP up to the pre-processors.  A body or a chain id that is not   *)
(* valid is answered at once, without post-processors; the context has an  *)
(* error for the body only.                                                *)
Arrived(s) ==
  LET q == [Idle EXCEPT !.shape = s, !.archive = s.archive]
      resolved == [q EXCEPT !.chain = Resolve(s.chain)]
  IN CASE s.what = "unparsable" ->
            [q EXCEPT !.pc = "done", !.resp = ProxyError(200), !.error = TRUE]
       [] s.what = "badChain" -> [q EXCEPT !.pc = "done", !.resp = ProxyError(200)]
       [] s.what = "denied" ->
            [resolved EXCEPT !.pc = "post", !.resp = ProxyError(400), !.error = TRUE]
       [] s.what = "call" -> [resolved EXCEPT !.pc = "route"]

Arrive(r) ==
  /\ req[r].pc = "idle"
  /\ \E s \in Shapes : req' = [req EXCEPT ![r] = Arrived(s)]
  /\ UNCHANGED <<pools, overrides, cache, updates>>

(* Fault: the cache is asked for the hash on any chain.                    *)
FaultyCacheHit(q) ==
  /\ ~q.archive /\ ~q.native /\ ~q.shape.batch
  /\ \E c \in Chains : <<c, requestBlockHash(q)>> \in cache

(* routeCachedArchiveHash.                                                 *)
CacheHit(q) ==
  /\ ~q.archive /\ ~q.native /\ ~q.shape.batch
  /\ <<q.chain, requestBlockHash(q)>> \in cache

RouteCached(r) ==
  /\ req[r].pc = "route"
  /\ req' = [req EXCEPT ![r].pc = "choose",
                        ![r].cached = CacheHit(req[r]),
                        ![r].archive = @ \/ CacheHit(req[r])]
  /\ UNCHANGED <<pools, overrides, cache, updates>>

(* A node was chosen; one from the archive pool makes the request an       *)
(* archive request.                                                        *)
Chosen(q, pool) ==
  [q EXCEPT !.pc = "attempt", !.target = pool, !.archive = @ \/ pool = "archive"]

(* Fault: a cached hash gets no second choice.                             *)
FaultyNotChosen(q) == NoBackend(q)

(* After the archive choice failed for a cached hash, the normal choice    *)
(* is a second GetNode.                                                    *)
NotChosen(q) ==
  IF q.cached THEN [q EXCEPT !.archive = FALSE, !.cached = FALSE] ELSE NoBackend(q)

Choose(r) ==
  LET q == req[r]
      pool == chooseTargetNode(q, "")
  IN /\ q.pc = "choose"
     /\ req' = [req EXCEPT ![r] =
          IF pool # "none" THEN Chosen(q, pool) ELSE NotChosen(q)]
     /\ UNCHANGED <<pools, overrides, cache, updates>>

-----------------------------------------------------------------------------
(* attemptRequest.                                                         *)

(* An answer to a single call has at most one error.                       *)
Replies(q) == {a \in Answers : q.shape.batch \/ Cardinality(a.codes) <= 1}

(* Every 502 and 504, the upstream's own too, gets the proxy's error       *)
(* appended to its body and JSON as its content type: an empty body        *)
(* becomes that error, any other no longer unmarshals.                     *)
Rewritten(reply) ==
  IF reply.status \notin GatewayStatuses THEN reply
  ELSE [ProxyError(reply.status) EXCEPT
          !.media = IF reply.media = "other" THEN "json" ELSE reply.media,
          !.body = CASE reply.body = "empty" -> "error"
                     [] reply.body = "array" -> "array"
                     [] OTHER -> "broken",
          !.codes = IF reply.body = "empty" THEN @ ELSE {}]

(* parseRPCErrorCodes looks for the error key in a body that is not empty. *)
KeyIn(resp) ==
  IF resp.body = "empty" THEN "unknown" ELSE IF ContainsErrorKey(resp) THEN "present" ELSE "absent"

Logged(q, reply) ==
  Append(q.attempts, [chain |-> q.chain, pool |-> q.target, reply |-> reply])

(* Fault: the error key is cached before the proxy's error is written.     *)
FaultyAttempted(q, reply) ==
  [q EXCEPT !.resp = Rewritten(reply), !.errorKey = KeyIn(reply),
            !.error = @ \/ reply.status \in GatewayStatuses,
            !.attempts = Logged(q, reply)]

(* The attempt replaces the response; parseRPCErrorCodes then computes and *)
(* caches whether the body has an error key.                               *)
Attempted(q, reply) ==
  [q EXCEPT !.resp = Rewritten(reply), !.errorKey = KeyIn(Rewritten(reply)),
            !.error = @ \/ reply.status \in GatewayStatuses,
            !.attempts = Logged(q, reply)]

(* Fault: only a response with status 200 is parsed.                       *)
FaultyErrorCodes(q) == IF q.resp.status = 200 THEN q.resp.codes ELSE {}

(* parseRPCErrorCodes of the current body, by way of the cached key.       *)
ErrorCodes(q) == IF q.errorKey = "present" THEN q.resp.codes ELSE {}

(* Fault: an archive node's -39006 is retried on archive.                  *)
FaultyShouldRetryWithArchive(q) == StateBlockNotFound \in ErrorCodes(q)

shouldRetryWithArchive(q) == ~q.archive /\ StateBlockNotFound \in ErrorCodes(q)
shouldRetryWithNative(q) == ~q.native /\ CosmosPrecompile \in ErrorCodes(q)

RetryNativeOrEnd(q) ==
  IF shouldRetryWithNative(q)
  THEN [resetResponse(q) EXCEPT !.pc = "chooseNative", !.native = TRUE]
  ELSE [q EXCEPT !.pc = "post"]

Attempt(r) ==
  /\ req[r].pc = "attempt"
  /\ \E reply \in Replies(req[r]) :
       LET q == Attempted(req[r], reply)
       IN req' = [req EXCEPT ![r] =
            IF shouldRetryWithArchive(q)
            THEN [resetResponse(q) EXCEPT !.pc = "chooseArchive", !.archive = TRUE]
            ELSE RetryNativeOrEnd(q)]
  /\ UNCHANGED <<pools, overrides, cache, updates>>

(* Fault: the retry waits for an archive node to appear.                   *)
FaultyChooseArchive(r) ==
  /\ req[r].pc = "chooseArchive"
  /\ chooseTargetNode(req[r], "") # "none"
  /\ req' = [req EXCEPT ![r].pc = "attemptArchive",
                        ![r].target = chooseTargetNode(req[r], "")]
  /\ UNCHANGED <<pools, overrides, cache, updates>>

ChooseArchive(r) ==
  LET pool == chooseTargetNode(req[r], "")
  IN /\ req[r].pc = "chooseArchive"
     /\ req' = [req EXCEPT ![r] =
          IF pool = "none" THEN NoBackend(@)
          ELSE [@ EXCEPT !.pc = "attemptArchive", !.target = pool]]
     /\ UNCHANGED <<pools, overrides, cache, updates>>

(* Fault: the hash of a batch is remembered.                               *)
FaultyRemembersBatch(q) ==
  /\ q.resp.status = 200
  /\ ErrorCodes(q) \cap {StateBlockNotFound, InvalidBlockID} = {}
  /\ requestBlockHash(q) # NoHash

(* rememberArchiveHash.                                                    *)
Remembers(q) ==
  /\ ~q.shape.batch /\ q.resp.status = 200
  /\ ErrorCodes(q) \cap {StateBlockNotFound, InvalidBlockID} = {}
  /\ requestBlockHash(q) # NoHash

AttemptArchive(r) ==
  /\ req[r].pc = "attemptArchive"
  /\ \E reply \in Replies(req[r]) :
       LET q == Attempted(req[r], reply)
       IN /\ req' = [req EXCEPT ![r] = RetryNativeOrEnd(q)]
          /\ cache' = IF Remembers(q) THEN cache \cup {<<q.chain, requestBlockHash(q)>>} ELSE cache
  /\ UNCHANGED <<pools, overrides, updates>>

ChooseNative(r) ==
  LET pool == chooseTargetNode(req[r], "native")
  IN /\ req[r].pc = "chooseNative"
     /\ req' = [req EXCEPT ![r] =
          IF pool = "none" THEN NoBackend(@)
          ELSE [@ EXCEPT !.pc = "attemptNative", !.target = pool]]
     /\ UNCHANGED <<pools, overrides, cache, updates>>

(* The last attempt: its error codes are not looked at.                    *)
AttemptNative(r) ==
  /\ req[r].pc = "attemptNative"
  /\ \E reply \in Replies(req[r]) :
       req' = [req EXCEPT ![r] = [Attempted(@, reply) EXCEPT !.pc = "post", !.errorKey = "unknown"]]
  /\ UNCHANGED <<pools, overrides, cache, updates>>

(* CachedResponseContainsErrorKey.                                         *)
KeyOf(q) == IF q.errorKey # "unknown" THEN q.errorKey ELSE KeyIn(q.resp)

(* parseJRPCResponseBody leaves an empty, non-JSON, chunked or array body  *)
(* alone, and one without an error key by way of the cached key; the error *)
(* of any other is that of its unmarshalling or its top-level error.       *)
Inspects(q) == q.resp.media = "json" /\ q.resp.body \notin {"empty", "array"}

PostProcess(r) ==
  LET q == req[r]
  IN /\ q.pc = "post"
     /\ req' = [req EXCEPT ![r] =
          IF ~Inspects(q) THEN [q EXCEPT !.pc = "done"]
          ELSE [q EXCEPT !.pc = "done", !.errorKey = KeyOf(q),
                         !.error = IF KeyOf(q) = "present" THEN q.resp.body \in {"error", "broken"}
                                   ELSE @]]
     /\ UNCHANGED <<pools, overrides, cache, updates>>

-----------------------------------------------------------------------------
Step(r) ==
  \/ Arrive(r)
  \/ RouteCached(r)
  \/ Choose(r)
  \/ Attempt(r)
  \/ ChooseArchive(r)
  \/ AttemptArchive(r)
  \/ ChooseNative(r)
  \/ AttemptNative(r)
  \/ PostProcess(r)

Next ==
  \/ UpdatePools
  \/ UpdateVersion
  \/ Evict
  \/ \E r \in Requests : Step(r)

Spec == Init /\ [][Next]_vars

(* A request that arrived goes on: its goroutine is never blocked but by   *)
(* an upstream, and attemptRequest sets a read timeout on every attempt.   *)
FairSpec == Spec /\ \A r \in Requests : WF_vars(req[r].pc # "idle" /\ Step(r))

-----------------------------------------------------------------------------
(* Properties.                                                             *)

Attempts(r) == {req[r].attempts[i] : i \in DOMAIN req[r].attempts}

(* The upstream's answer has the code, and its body is left as it is.      *)
Has(attempt, code) ==
  code \in attempt.reply.codes /\ attempt.reply.status \notin GatewayStatuses

TypeOK ==
  /\ pools \in [Chains -> PoolSets]
  /\ overrides \in Chains
  /\ cache \subseteq Chains \X Hashes
  /\ updates \in 0 .. MaxUpdates
  /\ \A r \in Requests :
       /\ req[r].pc \in {"idle", "route", "choose", "attempt", "chooseArchive", "attemptArchive",
                         "chooseNative", "attemptNative", "post", "done"}
       /\ req[r].target \in {"none", "state", "archive", "native"}
       /\ req[r].errorKey \in {"unknown", "present", "absent"}
       /\ req[r].pc \in {"attempt", "attemptArchive", "attemptNative"} => req[r].target # "none"

(* rememberArchiveHash (lb.go:573-577) and routeCachedArchiveHash: a hash  *)
(* is cached for a chain, and a request is sent to archive for it, only    *)
(* after some single request pinned to it was turned down with -39006 by a *)
(* state node of that chain and then served, with status 200 and neither   *)
(* -39006 nor -39007, by an archive node of the same chain, whatever       *)
(* version updates, evictions and other requests came in between.          *)
CacheIsProven ==
  \A e \in cache \cup {<<req[r].chain, requestBlockHash(req[r])>> :
                          r \in {x \in Requests : req[x].cached}} :
    \E r \in Requests :
      /\ ~req[r].shape.batch /\ req[r].shape.hash = e[2]
      /\ \E miss, hit \in Attempts(r) :
           /\ miss.chain = e[1] /\ miss.pool = "state" /\ Has(miss, StateBlockNotFound)
           /\ hit.chain = e[1] /\ hit.pool = "archive" /\ hit.reply.status = 200
           /\ ~Has(hit, StateBlockNotFound) /\ ~Has(hit, InvalidBlockID)

maxUpstreamAttempts == 3

ArchiveRetry(a, i) ==
  /\ i = 2 /\ a[2].pool = "archive"
  /\ a[1].pool = "state" /\ Has(a[1], StateBlockNotFound)

NativeRetry(a, i) ==
  i = Len(a) /\ a[i].pool = "native" /\ Has(a[i - 1], CosmosPrecompile)

(* The retry rules of ServeHTTP as a whole: at most maxUpstreamAttempts    *)
(* (cmd/proxy/main.go:29) attempts, all on the chain the request was first *)
(* resolved to although versions change meanwhile; the first on state or   *)
(* archive, on archive if the header says so; a further one on archive     *)
(* only after a state node said -39006, on native only after -39008 in the *)
(* attempt just before; a 502 or 504 is never retried, whatever its body.  *)
AttemptsFollowRules ==
  \A r \in Requests :
    LET a == req[r].attempts IN
      /\ Len(a) <= maxUpstreamAttempts
      /\ \A i \in DOMAIN a :
           /\ a[i].chain = a[1].chain
           /\ req[r].shape.chain = Versioned => a[i].chain = Versioned
           /\ i = 1 => a[i].pool # "native" /\ (req[r].shape.archive => a[i].pool = "archive")
           /\ i > 1 => ArchiveRetry(a, i) \/ NativeRetry(a, i)

(* When the post-processors have run, what the context reports to metrics  *)
(* and logs is about the response the client gets: that of the last        *)
(* attempt or an error of the proxy, never a leftover of an earlier        *)
(* attempt.  It is reported as failed exactly if the proxy made the error, *)
(* appended to an upstream's 502 or 504 included, or an upstream's JSON    *)
(* object has a top-level error or does not unmarshal; an upstream's array *)
(* and a body that is not JSON or is chunked are not inspected             *)
(* (hertz_process.go:173-215).                                             *)
ReportMatchesResponse ==
  \A r \in Requests : (req[r].pc = "done" /\ req[r].shape.what \in {"denied", "call"}) =>
    LET q == req[r] IN
      /\ q.resp.by # "nobody"
      /\ q.resp.by = "upstream" => q.resp = q.attempts[Len(q.attempts)].reply
      /\ q.error = \/ q.resp.by = "proxy"
                   \/ q.resp.media = "json" /\ q.resp.body \in {"error", "broken"}
      /\ q.errorKey # "unknown" => (q.errorKey = "present") = ContainsErrorKey(q.resp)

(* A retriable answer is never handed to the client without its retry,     *)
(* whatever its content type and its position in a batch and whether its   *)
(* status is 200 or another that attemptRequest leaves alone: after        *)
(* -39006 from a state node or -39008 from a node that is not native, a    *)
(* request ends with a further attempt or because no node was there for    *)
(* it.  A 502 or 504 is final: its codes are lost in the rewritten body,   *)
(* and the client gets that status (lb.go:524-535).                        *)
RetriesAreMade ==
  \A r \in Requests : (req[r].pc = "done" /\ req[r].attempts # <<>>) =>
    LET last == req[r].attempts[Len(req[r].attempts)] IN
      /\ \/ Has(last, CosmosPrecompile) /\ last.pool # "native"
         \/ Has(last, StateBlockNotFound) /\ last.pool = "state"
         => req[r].resp = ProxyError(200)
      /\ last.reply.status \in GatewayStatuses =>
           req[r].resp.by = "proxy" /\ req[r].resp.status = last.reply.status

(* The archive hash cache never costs availability (lb.go:390-395): a      *)
(* request without the archive header is refused before its first attempt  *)
(* only at a moment when the normal choice finds no node either.           *)
CacheNeverRefuses ==
  [][\A r \in Requests :
       (req[r].pc = "choose" /\ req'[r].pc = "post" /\ ~req[r].shape.archive) =>
         GetNode(req[r], "none") = "none"]_vars

(* Every request that arrived is answered.                                 *)
Completes == \A r \in Requests : (req[r].pc # "idle") ~> (req[r].pc = "done")
=============================================================================
