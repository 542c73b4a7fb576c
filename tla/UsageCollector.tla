--------------------------- MODULE UsageCollector ----------------------------
(***************************************************************************)
(* usage/collector.go: request goroutines add durations to the active map, *)
(* the run goroutine swaps the map out and writes it to the producer on a  *)
(* tick or when a threshold of keys is reached, and Close stops it, writes *)
(* what is left and closes the producer, unless its context expires.       *)
(***************************************************************************)
EXTENDS Integers, FiniteSets

CONSTANTS
  HeaderIds,    (* values of the client-id header                           *)
  Blank,        (* those that are missing or only white space               *)
  Unknown,      (* UnknownClientID                                          *)
  Durations,    (* durations of a request                                   *)
  PerMilli,     (* the units of duration in a millisecond                   *)
  Threshold,    (* collectorOptions.flushThreshold                          *)
  MaxRecords    (* bound: calls of Record in a behaviour                    *)

ASSUME ConstantsOK ==
  /\ Blank \subseteq HeaderIds /\ IsFiniteSet(HeaderIds)
  /\ Durations \subseteq Int
  /\ PerMilli \in Nat \ {0} /\ Threshold \in Nat \ {0} /\ MaxRecords \in Nat

Clients == (HeaderIds \ Blank) \cup {Unknown}

(* A map[string]time.Duration.                                             *)
IsUsage(m) == DOMAIN m \subseteq Clients /\ m \in [DOMAIN m -> Nat]
Empty == [c \in {} |-> 0]
Amount(m, c) == IF c \in DOMAIN m THEN m[c] ELSE 0

VARIABLES
  active,     (* Collector.active                                           *)
  closed,     (* Collector.closed                                           *)
  stopped,    (* the stop channel is closed                                 *)
  flushNow,   (* the flushNow channel holds a signal                        *)
  signals,    (* Record calls about to send on flushNow                     *)
  loop,       (* where run is: select, snapshot, write or exited            *)
  batch,      (* the snapshot run is writing                                *)
  closer,     (* where Close is                                             *)
  lastBatch,  (* the snapshot Close is writing                              *)
  producer,   (* open, closing (the goroutine of closeProducer) or closed   *)
  gauge,      (* the aggregationKeys gauge                                  *)
  accepted,   (* auxiliary: the duration Record added, per client           *)
  sent,       (* auxiliary: the duration in batches written, per client     *)
  dropped,    (* auxiliary: the duration in failed batches, per client      *)
  usage,      (* the milliseconds in records written, per client            *)
  batches,    (* auxiliary: the records written, per client                 *)
  records     (* number of Record calls so far                              *)

books == <<accepted, sent, dropped, usage, batches, records>>
vars == <<active, closed, stopped, flushNow, signals, loop, batch, closer, lastBatch,
          producer, gauge, books>>

Init ==
  /\ active = Empty /\ batch = Empty /\ lastBatch = Empty
  /\ closed = FALSE /\ stopped = FALSE /\ flushNow = FALSE /\ signals = 0
  /\ loop = "select" /\ closer = "open" /\ producer = "open"
  /\ gauge = 0
  /\ accepted = [c \in Clients |-> 0] /\ sent = [c \in Clients |-> 0]
  /\ dropped = [c \in Clients |-> 0] /\ usage = [c \in Clients |-> 0]
  /\ batches = [c \in Clients |-> 0] /\ records = 0

-----------------------------------------------------------------------------
(* Record, in a request goroutine.                                         *)

(* Fault: a blank header is taken as it is.                                *)
FaultyClientID(id) == id

ClientID(id) == IF id \in Blank THEN Unknown ELSE id

(* Fault: the new duration replaces the accumulated one.                   *)
FaultyAdd(m, c, d) == [k \in DOMAIN m \cup {c} |-> IF k = c THEN d ELSE m[k]]

Add(m, c, d) == [k \in DOMAIN m \cup {c} |-> IF k = c THEN Amount(m, c) + d ELSE m[k]]

(* Fault: Record goes on after the collector was closed.                   *)
FaultyAccepts(d) == d >= 0

Accepts(d) == d >= 0 /\ ~closed

(* Fault: a flush is due only above the threshold.                         *)
FaultyShouldFlush(keyCount) == keyCount > Threshold

shouldFlush(keyCount) == keyCount >= Threshold

(* The part under the mutex.  A new key that makes the map reach the       *)
(* threshold leaves a signal to be sent after the unlock.                  *)
RecordAdd(id, d) ==
  LET c == ClientID(id) IN
    /\ records < MaxRecords /\ records' = records + 1
    /\ IF ~Accepts(d)
       THEN UNCHANGED <<active, gauge, signals, accepted>>
       ELSE /\ active' = Add(active, c, d)
            /\ accepted' = [accepted EXCEPT ![c] = @ + d]
            /\ IF c \in DOMAIN active
               THEN UNCHANGED <<gauge, signals>>
               ELSE /\ gauge' = gauge + 1
                    /\ signals' = IF shouldFlush(Cardinality(DOMAIN active'))
                                  THEN signals + 1 ELSE signals
    /\ UNCHANGED <<closed, stopped, flushNow, loop, batch, closer, lastBatch, producer,
                   sent, dropped, usage, batches>>

(* The non-blocking send on flushNow, a channel of capacity one.           *)
RecordSignal ==
  /\ signals > 0
  /\ signals' = signals - 1
  /\ flushNow' = TRUE
  /\ UNCHANGED <<active, closed, stopped, loop, batch, closer, lastBatch, producer, gauge, books>>

-----------------------------------------------------------------------------
(* writeSnapshot.                                                          *)

(* Fault: the duration is reported in its own unit.                        *)
FaultyMilliseconds(d) == IF d < 1 THEN 1 ELSE d

Milliseconds(d) == IF d \div PerMilli < 1 THEN 1 ELSE d \div PerMilli

(* One record per client; the whole batch is sent or dropped.              *)
Written(m) ==
  /\ sent' = [c \in Clients |-> sent[c] + Amount(m, c)]
  /\ usage' = [c \in Clients |-> usage[c] + (IF c \in DOMAIN m THEN Milliseconds(m[c]) ELSE 0)]
  /\ batches' = [c \in Clients |-> batches[c] + (IF c \in DOMAIN m THEN 1 ELSE 0)]
  /\ UNCHANGED dropped

Failed(m) ==
  /\ dropped' = [c \in Clients |-> dropped[c] + Amount(m, c)]
  /\ UNCHANGED <<sent, usage, batches>>

(* Fault: a failed write does not lower the gauge.                         *)
FaultyWriteSnapshot(m) ==
  /\ \/ Written(m) /\ gauge' = gauge - Cardinality(DOMAIN m)
     \/ Failed(m) /\ UNCHANGED gauge
  /\ UNCHANGED <<accepted, records>>

writeSnapshot(m) ==
  /\ Written(m) \/ Failed(m)
  /\ gauge' = gauge - Cardinality(DOMAIN m)
  /\ UNCHANGED <<accepted, records>>

-----------------------------------------------------------------------------
(* run.                                                                    *)

LoopTick ==
  /\ loop = "select"
  /\ loop' = "snapshot"
  /\ UNCHANGED <<active, closed, stopped, flushNow, signals, batch, closer, lastBatch,
                 producer, gauge, books>>

LoopFlushNow ==
  /\ loop = "select" /\ flushNow
  /\ flushNow' = FALSE
  /\ loop' = "snapshot"
  /\ UNCHANGED <<active, closed, stopped, signals, batch, closer, lastBatch, producer, gauge, books>>

LoopStop ==
  /\ loop = "select" /\ stopped
  /\ loop' = "exited"
  /\ UNCHANGED <<active, closed, stopped, flushNow, signals, batch, closer, lastBatch,
                 producer, gauge, books>>

(* An empty snapshot is not written.                                       *)
LoopSnapshot ==
  /\ loop = "snapshot"
  /\ batch' = active
  /\ active' = Empty
  /\ loop' = IF DOMAIN active = {} THEN "select" ELSE "write"
  /\ UNCHANGED <<closed, stopped, flushNow, signals, closer, lastBatch, producer, gauge, books>>

LoopWrite ==
  /\ loop = "write"
  /\ writeSnapshot(batch)
  /\ batch' = Empty
  /\ loop' = "select"
  /\ UNCHANGED <<active, closed, stopped, flushNow, signals, closer, lastBatch, producer>>

-----------------------------------------------------------------------------
(* Close; closeOnce makes it run once.                                     *)

CloseMark ==
  /\ closer = "open"
  /\ closer' = "marked"
  /\ closed' = TRUE
  /\ UNCHANGED <<active, stopped, flushNow, signals, loop, batch, lastBatch, producer, gauge, books>>

(* Fault: the stop channel is not closed.                                  *)
FaultyCloseStop ==
  /\ closer = "marked"
  /\ closer' = "waiting"
  /\ UNCHANGED <<active, closed, stopped, flushNow, signals, loop, batch, lastBatch, producer,
                 gauge, books>>

CloseStop ==
  /\ closer = "marked"
  /\ closer' = "waiting"
  /\ stopped' = TRUE
  /\ UNCHANGED <<active, closed, flushNow, signals, loop, batch, lastBatch, producer, gauge, books>>

(* Fault: Close does not wait for run.                                     *)
FaultyCloseLoopDone ==
  /\ closer = "waiting"
  /\ closer' = "snapshot"
  /\ UNCHANGED <<active, closed, stopped, flushNow, signals, loop, batch, lastBatch,
                 producer, gauge, books>>

(* The select of Close: loopDone, or the context expires.                  *)
CloseLoopDone ==
  /\ closer = "waiting" /\ loop = "exited"
  /\ closer' = "snapshot"
  /\ UNCHANGED <<active, closed, stopped, flushNow, signals, loop, batch, lastBatch,
                 producer, gauge, books>>

CloseExpires ==
  /\ closer = "waiting"
  /\ closer' = "abandoned"
  /\ UNCHANGED <<active, closed, stopped, flushNow, signals, loop, batch, lastBatch,
                 producer, gauge, books>>

CloseSnapshot ==
  /\ closer = "snapshot"
  /\ lastBatch' = active
  /\ active' = Empty
  /\ closed' = TRUE
  /\ closer' = "write"
  /\ UNCHANGED <<stopped, flushNow, signals, loop, batch, producer, gauge, books>>

CloseWrite ==
  /\ closer = "write"
  /\ IF DOMAIN lastBatch = {} THEN UNCHANGED <<gauge, books>> ELSE writeSnapshot(lastBatch)
  /\ lastBatch' = Empty
  /\ closer' = "closing"
  /\ producer' = "closing"
  /\ UNCHANGED <<active, closed, stopped, flushNow, signals, loop, batch>>

(* closeProducer: the goroutine closes the producer, Close waits for it or *)
(* for its context.                                                        *)
ProducerCloses ==
  /\ producer = "closing"
  /\ producer' = "closed"
  /\ UNCHANGED <<active, closed, stopped, flushNow, signals, loop, batch, closer, lastBatch,
                 gauge, books>>

CloseReturns ==
  /\ closer = "closing"
  /\ \/ producer = "closed" /\ closer' = "returned"
     \/ closer' = "abandoned"
  /\ UNCHANGED <<active, closed, stopped, flushNow, signals, loop, batch, lastBatch,
                 producer, gauge, books>>

-----------------------------------------------------------------------------
Run == LoopTick \/ LoopFlushNow \/ LoopStop \/ LoopSnapshot \/ LoopWrite
Close == CloseMark \/ CloseStop \/ CloseLoopDone \/ CloseExpires \/ CloseSnapshot
           \/ CloseWrite \/ CloseReturns

Next ==
  \/ \E id \in HeaderIds : \E d \in Durations : RecordAdd(id, d)
  \/ RecordSignal
  \/ Run
  \/ Close
  \/ ProducerCloses

Spec == Init /\ [][Next]_vars

(* Goroutines proceed, every write ends (it has a timeout), and a select   *)
(* that finds the same case ready over and over takes it at some time (Go  *)
(* chooses at random).  Ticks are not assumed: the interval is arbitrary.  *)
FairSpec ==
  /\ Spec
  /\ WF_vars(RecordSignal) /\ WF_vars(LoopSnapshot) /\ WF_vars(LoopWrite)
  /\ SF_vars(LoopFlushNow) /\ SF_vars(LoopStop)
  /\ WF_vars(CloseStop)

-----------------------------------------------------------------------------
(* Properties.                                                             *)

TypeOK ==
  /\ IsUsage(active) /\ IsUsage(batch) /\ IsUsage(lastBatch)
  /\ closed \in BOOLEAN /\ stopped \in BOOLEAN /\ flushNow \in BOOLEAN
  /\ signals \in Nat /\ gauge \in Int /\ records \in Nat
  /\ loop \in {"select", "snapshot", "write", "exited"}
  /\ closer \in {"open", "marked", "waiting", "snapshot", "write", "closing", "returned", "abandoned"}
  /\ producer \in {"open", "closing", "closed"}
  /\ accepted \in [Clients -> Nat] /\ sent \in [Clients -> Nat] /\ dropped \in [Clients -> Nat]
  /\ usage \in [Clients -> Nat] /\ batches \in [Clients -> Nat]

(* No duration is lost or counted twice between Record, the periodic flush *)
(* and Close: what Record accepted for a client is still in the active     *)
(* map, in a batch being written, sent, or dropped with a failed batch.    *)
NothingLostOrDoubled ==
  \A c \in Clients :
    accepted[c] = Amount(active, c) + Amount(batch, c) + Amount(lastBatch, c) + sent[c] + dropped[c]

(* docs/deployment.md:62 "the current in-memory key count, including       *)
(* batches being written": the gauge that Record increments and            *)
(* writeSnapshot decrements never drifts from the maps.                    *)
GaugeIsExact ==
  gauge = Cardinality(DOMAIN active) + Cardinality(DOMAIN batch) + Cardinality(DOMAIN lastBatch)

(* The producer is closed only when no write can reach it any more: run    *)
(* has exited and Close has written its batch.                             *)
ProducerClosedLast ==
  producer # "open" => loop = "exited" /\ DOMAIN batch = {} /\ DOMAIN lastBatch = {}

(* docs/deployment.md:64 "graceful shutdown sends the final batch": when   *)
(* Close went through to the producer nothing is left in memory, and no    *)
(* Record racing with it slips in behind the final snapshot.               *)
CloseDrains == producer # "open" => DOMAIN active = {} /\ gauge = 0

(* For each record written for a client, the milliseconds reported exceed  *)
(* the duration sent by at most one, which a duration of zero reaches, and *)
(* fall short of it by less than one.                                      *)
UsageIsRounded ==
  \A c \in Clients :
    /\ PerMilli * usage[c] <= sent[c] + PerMilli * batches[c]
    /\ sent[c] <= PerMilli * usage[c] + (PerMilli - 1) * batches[c]

(* A batch that reached the threshold is flushed without waiting for the   *)
(* tick, unless the collector is being closed.                             *)
ThresholdFlushes ==
  (Cardinality(DOMAIN active) >= Threshold) ~> (DOMAIN active = {} \/ closed)

(* run exits once Close has begun, so Close, unless its context expires,   *)
(* gets to write the final batch.                                          *)
LoopExits == closed ~> (loop = "exited")
=============================================================================
