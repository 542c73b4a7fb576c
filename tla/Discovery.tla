------------------------------ MODULE Discovery ------------------------------
(***************************************************************************)
(* discovery/etcd: the initial load, the watch, the reconnects and the     *)
(* resync after compaction, up to the typed channels and their consumer.   *)
(* etcd itself is external: a log of revisions, a compaction revision, and *)
(* watches that replay the log from a revision on.                         *)
(***************************************************************************)
EXTENDS Naturals, Sequences, FiniteSets, FiniteSetsExt

CONSTANTS
  Keys,       (* etcd keys under the configured prefix                      *)
  KindOf,     (* KindOf[k]: what parseKey says of the key                   *)
  Values,     (* stored values                                              *)
  Malformed,  (* Malformed[k]: values the key's handler cannot decode       *)
  NoVal,      (* absence of a key; also the zero value of an event          *)
  Cap,        (* capacity of each channel                                   *)
  MaxChanges, (* bound: changes of keys, in one or more transactions        *)
  MaxFaults   (* bound: broken watches and failed reads                     *)

(* A native node key is dispatched like a node key.                        *)
Kinds == {"node", "height", "gateway", "mirror", "version"}

ASSUME ConstantsOK ==
  /\ KindOf \in [Keys -> Kinds]
  /\ Malformed \in [Keys -> SUBSET Values]
  /\ \A k \in Keys : KindOf[k] = "version" => Malformed[k] = {}
  /\ NoVal \notin Values
  /\ Cap \in Nat \ {0}
  /\ MaxChanges \in Nat /\ MaxFaults \in Nat

VARIABLES
  log,            (* etcd: the changes of every revision                    *)
  compacted,      (* etcd: revisions up to this one cannot be replayed      *)
  pc,             (* where the discovery goroutine is                       *)
  todo,           (* changes being dispatched: sets, in order               *)
  target,         (* revision of the response being dispatched              *)
  watchRevision,
  knownKeys,
  channels,       (* the typed channels, by kind                            *)
  started,        (* Init has returned and the consumer runs                *)
  view,           (* the value the consumer has for each key                *)
  seen,           (* history: the revision that value is from               *)
  count,          (* history: changes dispatched per key                    *)
  initRevision,   (* history: revision of the initial snapshot              *)
  resynced,       (* history: a resync has replaced a part of the stream    *)
  faults          (* history: broken watches and failed reads               *)

vars == <<log, compacted, pc, todo, target, watchRevision, knownKeys, channels,
          started, view, seen, count, initRevision, resynced, faults>>

etcdVars     == <<log, compacted>>
consumerVars == <<started, view, seen>>
historyVars  == <<count, initRevision, resynced>>

Feed == INSTANCE ConfigFeed

(* A change on its way: val is the new value of a put, or the old value a  *)
(* delete comes with.                                                      *)
Change == [op : {"put", "delete"}, key : Keys, val : Values \cup {NoVal}, rev : Nat]

PCs == {"init", "load", "watch", "stream", "dispatch", "closed", "compacted", "resync"}

TypeOK ==
  /\ log \in Seq(UNION {[S -> Values \cup {NoVal}] : S \in SUBSET Keys})
  /\ compacted \in 0..Len(log)
  /\ pc \in PCs
  /\ todo \in Seq(SUBSET Change)
  /\ target \in Nat /\ watchRevision \in Nat
  /\ knownKeys \in [Keys -> Values \cup {NoVal}]
  /\ channels \in [Kinds -> Seq(Change)]
  /\ \A kind \in Kinds : Len(channels[kind]) <= Cap
  /\ started \in BOOLEAN
  /\ view \in [Keys -> Values \cup {NoVal}]
  /\ seen \in [Keys -> Nat] /\ count \in [Keys -> Nat]
  /\ initRevision \in Nat /\ resynced \in BOOLEAN /\ faults \in 0..MaxFaults

Init ==
  /\ Feed!Init
  /\ compacted = 0
  /\ pc = "init"
  /\ todo = <<>>
  /\ target = 0 /\ watchRevision = 0
  /\ knownKeys = [k \in Keys |-> NoVal]
  /\ channels = [kind \in Kinds |-> <<>>]
  /\ started = FALSE
  /\ count = [k \in Keys |-> 0]
  /\ initRevision = 0 /\ resynced = FALSE /\ faults = 0

-----------------------------------------------------------------------------
(* etcd.                                                                   *)

(* How many changes of keys the log holds.                                 *)
Changed == MapThenSumSet(LAMBDA r : Cardinality(DOMAIN log[r]), DOMAIN log)

EtcdWrite ==
  /\ \E txn \in Feed!Txns :
       /\ Changed + Cardinality(DOMAIN txn) <= MaxChanges
       /\ Feed!Write(txn)
  /\ UNCHANGED <<compacted, pc, todo, target, watchRevision, knownKeys, channels, started,
                 historyVars, faults>>

EtcdCompact ==
  /\ \E r \in compacted + 1 .. Len(log) : compacted' = r
  /\ UNCHANGED <<log, pc, todo, target, watchRevision, knownKeys, channels, consumerVars,
                 historyVars, faults>>

(* A snapshot read with a prefix: the live keys and the store's revision.  *)
Live == {k \in Keys : Feed!ValueAt(k, Len(log)) # NoVal}

PutOf(k) == [op |-> "put", key |-> k, val |-> Feed!ValueAt(k, Len(log)),
             rev |-> Feed!LastChange(k, Len(log))]

(* The events of revision r; a delete comes with the old value (PrevKV)    *)
(* unless etcd leaves it out.                                              *)
EventsOf(r, omitPrev) ==
  {IF log[r][k] # NoVal
   THEN [op |-> "put", key |-> k, val |-> log[r][k], rev |-> r]
   ELSE [op |-> "delete", key |-> k, rev |-> r,
         val |-> IF omitPrev THEN NoVal ELSE Feed!ValueAt(k, r - 1)] : k \in DOMAIN log[r]}

(* Stages are dispatched in order; an empty one is nothing to do.          *)
Stages(s) == LET nonempty(S) == S # {} IN SelectSeq(s, nonempty)

-----------------------------------------------------------------------------
(* Init: read everything, dispatch it, and only then return the channels   *)
(* to main, which starts the consumer.                                     *)

InitGet ==
  /\ pc = "init"
  /\ todo' = Stages(<<{PutOf(k) : k \in Live}>>)
  /\ target' = Len(log)
  /\ initRevision' = Len(log)
  /\ pc' = "load"
  /\ UNCHANGED <<etcdVars, watchRevision, knownKeys, channels, consumerVars, count, resynced,
                 faults>>

-----------------------------------------------------------------------------
(* dispatchPut and dispatchDelete.                                         *)

Decodes(c) == c.val \notin Malformed[c.key]
Tracked(k) == KindOf[k] # "height"

(* Fault: a send on a full channel does not block.                         *)
FaultySend(c) ==
  channels' = [channels EXCEPT ![KindOf[c.key]] = Append(@, c)]

Send(c) ==
  LET kind == KindOf[c.key] IN
    /\ Len(channels[kind]) < Cap
    /\ channels' = [channels EXCEPT ![kind] = Append(@, c)]

(* A value that cannot be decoded is logged and dropped: knownKeys keeps   *)
(* the value delivered before it.                                          *)
dispatchPut(c) ==
  /\ c.op = "put"
  /\ IF Decodes(c)
     THEN /\ Send(c)
          /\ knownKeys' = IF Tracked(c.key) THEN [knownKeys EXCEPT ![c.key] = c.val]
                                            ELSE knownKeys
     ELSE UNCHANGED <<channels, knownKeys>>

(* Fault: a delete without PrevKV is sent without details.                 *)
FaultyPrevious(c) == c.val

(* The old value comes from etcd or else from knownKeys.                   *)
Previous(c) == IF c.val = NoVal THEN knownKeys[c.key] ELSE c.val

(* If the old value cannot be decoded the event goes out with zero         *)
(* details.  Heights have no delete.                                       *)
dispatchDelete(c) ==
  /\ c.op = "delete"
  /\ LET sent == IF Previous(c) \in Malformed[c.key] THEN NoVal ELSE Previous(c)
     IN IF Tracked(c.key) THEN Send([c EXCEPT !.val = sent]) ELSE UNCHANGED channels
  /\ knownKeys' = [knownKeys EXCEPT ![c.key] = NoVal]

Dispatch ==
  /\ pc \in {"load", "dispatch", "resync"}
  /\ todo # <<>>
  /\ \E c \in Head(todo) :
       /\ dispatchPut(c) \/ dispatchDelete(c)
       /\ todo' = Stages([todo EXCEPT ![1] = @ \ {c}])
       /\ count' = [count EXCEPT ![c.key] = @ + 1]
  /\ UNCHANGED <<etcdVars, pc, target, watchRevision, consumerVars, initRevision, resynced,
                 faults>>

(* Fault: a watch response does not move watchRevision.                    *)
FaultyDispatchedRevision == IF pc = "dispatch" THEN watchRevision ELSE target

DispatchedRevision == target

(* Everything is dispatched: watchRevision moves, and Init returns, the    *)
(* watch waits for its next response, or a resync is followed by a watch.  *)
DispatchDone ==
  /\ pc \in {"load", "dispatch", "resync"}
  /\ todo = <<>>
  /\ watchRevision' = DispatchedRevision
  /\ pc' = IF pc = "dispatch" THEN "stream" ELSE "watch"
  /\ started' = TRUE
  /\ UNCHANGED <<etcdVars, todo, target, knownKeys, channels, view, seen, historyVars, faults>>

-----------------------------------------------------------------------------
(* watchConfig and processWatchEvents.                                     *)

(* Fault: the watch starts with the revision that was dispatched last.     *)
FaultyWatchFrom == Max({1, watchRevision})

WatchFrom == watchRevision + 1

Watch ==
  /\ pc = "watch"
  /\ pc' = IF WatchFrom <= compacted THEN "compacted" ELSE "stream"
  /\ UNCHANGED <<etcdVars, todo, target, watchRevision, knownKeys, channels, consumerVars,
                 historyVars, faults>>

(* A response with the events of the revisions up to m.  etcd can leave    *)
(* PrevKV out of a revision whose predecessor is compacted away.           *)
WatchResponse ==
  /\ pc = "stream"
  /\ \E m \in WatchFrom .. Len(log) :
       \E omitted \in SUBSET {r \in WatchFrom .. m : r - 1 <= compacted} :
         /\ target' = m
         /\ todo' = [i \in 1 .. m - WatchFrom + 1 |->
                       LET r == WatchFrom + i - 1 IN EventsOf(r, r \in omitted)]
  /\ pc' = "dispatch"
  /\ UNCHANGED <<etcdVars, watchRevision, knownKeys, channels, consumerVars, historyVars, faults>>

(* A closed, cancelled or failed watch.                                    *)
WatchBreaks ==
  /\ pc = "stream"
  /\ \/ pc' = "closed"
     \/ WatchFrom <= compacted /\ pc' = "compacted"
  /\ faults < MaxFaults
  /\ faults' = faults + 1
  /\ UNCHANGED <<etcdVars, todo, target, watchRevision, knownKeys, channels, consumerVars,
                 historyVars>>

(* One second later the watch is opened again from where it stopped.       *)
Rewatch ==
  /\ pc = "closed"
  /\ pc' = "watch"
  /\ UNCHANGED <<etcdVars, todo, target, watchRevision, knownKeys, channels, consumerVars,
                 historyVars, faults>>

(* Fault: keys that disappeared are not looked for.                        *)
FaultyGoneKeys == {}

GoneKeys == {k \in Keys \ Live : knownKeys[k] # NoVal}

ChangedKeys == {k \in Live : knownKeys[k] # Feed!ValueAt(k, Len(log))}

(* resync: deletes for the known keys that are gone, then puts for the     *)
(* live keys whose value is not the known one.                             *)
Resync ==
  /\ pc = "compacted"
  /\ todo' = Stages(<<{[op |-> "delete", key |-> k, val |-> knownKeys[k], rev |-> Len(log)] :
                          k \in GoneKeys},
                       {PutOf(k) : k \in ChangedKeys}>>)
  /\ target' = Len(log)
  /\ pc' = "resync"
  /\ resynced' = TRUE
  /\ UNCHANGED <<etcdVars, watchRevision, knownKeys, channels, consumerVars, count,
                 initRevision, faults>>

(* The snapshot cannot be read: the watch is tried again and fails again.  *)
ResyncFails ==
  /\ pc = "compacted"
  /\ faults < MaxFaults
  /\ faults' = faults + 1
  /\ pc' = "watch"
  /\ UNCHANGED <<etcdVars, todo, target, watchRevision, knownKeys, channels, consumerVars,
                 historyVars>>

-----------------------------------------------------------------------------
(* The consumer: BackgroundRefreshNode selects over the channels.          *)

Consume ==
  /\ started
  /\ \E kind \in Kinds :
       /\ channels[kind] # <<>>
       /\ LET c == Head(channels[kind]) IN
            /\ view' = [view EXCEPT ![c.key] = IF c.op = "put" THEN c.val ELSE NoVal]
            /\ seen' = [seen EXCEPT ![c.key] = c.rev]
       /\ channels' = [channels EXCEPT ![kind] = Tail(@)]
  /\ UNCHANGED <<etcdVars, pc, todo, target, watchRevision, knownKeys, started, historyVars,
                 faults>>

-----------------------------------------------------------------------------
Discover ==
  \/ InitGet \/ Dispatch \/ DispatchDone
  \/ Watch \/ WatchResponse \/ WatchBreaks \/ Rewatch \/ Resync \/ ResyncFails

Next == EtcdWrite \/ EtcdCompact \/ Discover \/ Consume

Spec == Init /\ [][Next]_vars

(* The goroutines run, and etcd answers: reads and watches succeed but for *)
(* MaxFaults times.                                                        *)
FairSpec ==
  /\ Spec
  /\ WF_vars(InitGet) /\ WF_vars(Dispatch) /\ WF_vars(DispatchDone)
  /\ WF_vars(Watch) /\ WF_vars(WatchResponse) /\ WF_vars(Rewatch) /\ WF_vars(Resync)
  /\ WF_vars(Consume)

-----------------------------------------------------------------------------
(* Properties.                                                             *)

(* Discovery implements the feed: whatever breaks, reconnects and resyncs  *)
(* happen, the consumer moves forward through each key's history.          *)
ImplementsFeed == Feed!Spec

(* "watches resume from watchRevision+1 so no event is skipped or          *)
(* delivered twice": as long as nothing was compacted away, every change   *)
(* after the initial snapshot has been dispatched exactly once by the time *)
(* watchRevision covers it, however often the watch broke.                 *)
ExactlyOnce ==
  (pc \in {"watch", "stream", "closed", "compacted"} /\ ~resynced) =>
    \A k \in Keys :
      count[k] = Cardinality(Feed!Changes(k, watchRevision) \ (1 .. initRevision))
                 + (IF Feed!ValueAt(k, initRevision) # NoVal THEN 1 ELSE 0)

(* What the consumer will have once the channels are drained.              *)
Drained(k) ==
  LET mine(c) == c.key = k
      waiting == SelectSeq(channels[KindOf[k]], mine)
  IN IF waiting = <<>> THEN view[k]
     ELSE LET c == waiting[Len(waiting)] IN IF c.op = "put" THEN c.val ELSE NoVal

(* Between responses the channels account for watchRevision: a tracked key *)
(* whose value can be decoded has been delivered with the value it had at  *)
(* that revision, after a resync too, although a resync skips unchanged    *)
(* keys.                                                                   *)
UpToDate ==
  pc \in {"watch", "stream", "closed", "compacted"} =>
    \A k \in Keys :
      (Tracked(k) /\ Feed!ValueAt(k, watchRevision) \notin Malformed[k])
        => Drained(k) = Feed!ValueAt(k, watchRevision)

(* A DELETE tells its consumer which node or mirror to remove: it carries  *)
(* the value delivered last for the key ("so consumers still get node      *)
(* type/source details", discovery.go:332), unless the deleted value was   *)
(* one that does not decode: dispatchDelete then sends a zero value.       *)
DeleteNamesDelivered ==
  \A kind \in {"node", "mirror"} : \A i \in 1 .. Len(channels[kind]) :
    LET c == channels[kind][i]
        earlier == {j \in 1 .. i - 1 : channels[kind][j].key = c.key}
        before  == IF earlier = {} THEN view[c.key]
                   ELSE LET d == channels[kind][Max(earlier)]
                        IN IF d.op = "put" THEN d.val ELSE NoVal
    IN (c.op = "delete" /\ before # NoVal
          /\ Feed!ValueAt(c.key, c.rev - 1) \notin Malformed[c.key]) => c.val = before

(* Discovery catches up: once etcd stops changing, the consumer ends up    *)
(* with the stored value of every key it can decode.                       *)
CatchesUp ==
  <>[](\A k \in Keys : (Tracked(k) /\ Feed!ValueAt(k, Len(log)) \notin Malformed[k])
                          => view[k] = Feed!ValueAt(k, Len(log)))

(* Init loads the initial state and returns the channels, "Load initial    *)
(* etcd state, watch dynamic updates" (docs/architecture.md:47).           *)
InitReturns == <>started
=============================================================================
