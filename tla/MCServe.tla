------------------------------ MODULE MCServe --------------------------------
(* Instances of Serve.                                                     *)
EXTENDS Serve, TLC

CONSTANTS r1, r2, h1

P(s, a, n) == [state |-> s, archive |-> a, native |-> n]
Plain == [chain |-> Base, what |-> "call", archive |-> FALSE, batch |-> FALSE,
          old |-> FALSE, hash |-> NoHash]
Hashed == [Plain EXCEPT !.hash = h1]

(* Every kind of request, for a single one.                                *)
AllShapes == Shape

(* Requests pinned to one hash, on the base chain and on its version.      *)
HashShapes == {Hashed, [Hashed EXCEPT !.chain = Versioned]}
SomePools == {P("ready", "ready", "ready"), P("ready", "barred", "empty"), P("ready", "empty", "empty")}
FewPools == {P("ready", "ready", "empty"), P("ready", "empty", "empty")}

JSON(status, body, codes) == Response("upstream", status, "json", body, codes)
Error(status, code) == JSON(status, "error", {code})
As(media, reply) == [reply EXCEPT !.media = media]

(* Every body with status 200; some with another status, and some that are *)
(* not inspected.                                                          *)
ManyAnswers ==
  {JSON(200, body, {}) : body \in {"empty", "plain", "nested", "broken", "array"}}
  \cup {Error(200, code) : code \in Codes}
  \cup {JSON(200, "array", {code}) : code \in Codes}
  \cup {JSON(200, "array", {StateBlockNotFound, CosmosPrecompile}),
        JSON(200, "array", {StateBlockNotFound, InvalidBlockID}), JSON(200, "array", Codes)}
  \cup {JSON(500, "empty", {}), JSON(500, "plain", {}), Error(500, StateBlockNotFound),
        Error(500, CosmosPrecompile)}
  \cup {JSON(status, "empty", {}) : status \in GatewayStatuses}
  \cup {Error(502, StateBlockNotFound), As("other", Error(504, CosmosPrecompile)),
        JSON(502, "array", {CosmosPrecompile}), As("chunked", JSON(504, "plain", {}))}
  \cup {As("chunked", Error(200, code)) : code \in {StateBlockNotFound, OtherError}}
  \cup {As("other", Error(200, code)) : code \in {CosmosPrecompile, OtherError}}

(* What decides about a retry and about the cache.                         *)
FewAnswers ==
  {JSON(200, "plain", {}), Error(500, OtherError), JSON(502, "empty", {})}
  \cup {Error(200, code) : code \in Codes}
=============================================================================
