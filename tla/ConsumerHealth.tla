---------------------------- MODULE ConsumerHealth ----------------------------
(***************************************************************************)
(* The consumer of payments-service as its operators see it: a process     *)
(* that takes one order message at a time, the counters that it keeps in   *)
(* memory, and the verdict that GET /consumer-metrics/health makes of      *)
(* them.  What a delivery does to payments and queues is in Payments;      *)
(* here only whether it succeeds, and how long it takes.                   *)
(*                                                                         *)
(* Time passes in minutes.  Ages and durations saturate: beyond Window an  *)
(* age makes no more difference, and MaxTime stands for that or longer.    *)
(***************************************************************************)
EXTENDS Integers

CONSTANTS
    Window,         \* age of the last delivery that makes a consumer silent (5)
    MinRate,        \* percentage of successes of a good consumer (90)
    FailureLimit,   \* failures of a bad one (100)
    MaxProcessed,   \* bound: deliveries counted since the last reset
    MaxTime         \* bound: the longest duration of a delivery

ASSUME HealthAssumption ==
    /\ Window \in Nat \ {0} /\ MaxProcessed \in Nat /\ MaxTime \in Nat
    /\ MinRate \in 0 .. 100 /\ FailureLimit \in Nat \ {0}

VARIABLES
    broker,     \* RabbitMQ is reachable
    consumer,   \* the process: down, up without a subscription, listening
    job,        \* the age of the delivery in hand
    metrics     \* the counters

healthVars == <<broker, consumer, job, metrics>>

NoJob == -1

Never == -1

\* `totalTime' is the accumulator beside the metrics object.
Metrics ==
    [ totalProcessed : 0 .. MaxProcessed, totalSuccess : 0 .. MaxProcessed,
      totalFailed : 0 .. MaxProcessed, lastProcessedAge : Never .. Window,
      averageProcessingTime : 0 .. MaxTime,
      totalTime : 0 .. MaxProcessed * MaxTime ]

HealthTypeOK ==
    /\ broker \in BOOLEAN
    /\ consumer \in {"down", "deaf", "listening"}
    /\ job \in NoJob .. MaxTime
    /\ metrics \in Metrics

NoMetrics ==
    [ totalProcessed |-> 0, totalSuccess |-> 0, totalFailed |-> 0,
      lastProcessedAge |-> Never, averageProcessingTime |-> 0, totalTime |-> 0 ]

HealthInit ==
    /\ broker \in BOOLEAN
    /\ consumer = "down"
    /\ job = NoJob
    /\ metrics = NoMetrics

Capped(n, max) == IF n > max THEN max ELSE n

-----------------------------------------------------------------------------
(* The process and its connection. *)

\* onModuleInit: without a channel, or after an error of the subscription,
\* which is swallowed, the process runs without a consumer.
Start ==
    /\ consumer = "down"
    /\ consumer' \in IF broker THEN {"deaf", "listening"} ELSE {"deaf"}
    /\ metrics' = NoMetrics
    /\ UNCHANGED <<broker, job>>

\* The process ends; its counters were in memory.
Stopped == consumer' = "down" /\ job' = NoJob /\ metrics' = NoMetrics

Stop ==
    /\ consumer # "down"
    /\ Stopped
    /\ UNCHANGED broker

\* The connection closes: the listener writes a line to the log.
LoseConnection ==
    /\ consumer = "listening"
    /\ consumer' = "deaf"
    /\ broker' \in BOOLEAN
    /\ UNCHANGED <<job, metrics>>

BrokerChanges ==
    /\ consumer = "listening" => ~broker
    /\ broker' = ~broker
    /\ UNCHANGED <<consumer, job, metrics>>

-----------------------------------------------------------------------------
(* Deliveries. *)

\* A faulty variant of Receive: the delivery is dated when it arrives.
ReceiveDates ==
    /\ consumer = "listening" /\ job = NoJob
    /\ metrics.totalProcessed < MaxProcessed
    /\ job' = 0
    /\ metrics' = [metrics EXCEPT !.lastProcessedAge =
                      IF @ = Never THEN Never ELSE 0]
    /\ UNCHANGED <<broker, consumer>>

\* processPaymentOrder begins; prefetch(1) holds back the next message.
Receive ==
    /\ consumer = "listening" /\ job = NoJob
    /\ metrics.totalProcessed < MaxProcessed
    /\ job' = 0
    /\ UNCHANGED <<broker, consumer, metrics>>

\* updateMetrics, with the rounding of Math.round.
Updated(success, duration) ==
    LET processed == metrics.totalProcessed + 1
        time      == metrics.totalTime + duration
    IN [ totalProcessed   |-> processed,
         totalSuccess     |-> metrics.totalSuccess + IF success THEN 1 ELSE 0,
         totalFailed      |-> metrics.totalFailed + IF success THEN 0 ELSE 1,
         lastProcessedAge |-> 0,
         averageProcessingTime |-> (2 * time + processed) \div (2 * processed),
         totalTime        |-> time ]

\* A message without one of its fields, or with an amount that is not positive,
\* is refused at once, and counted as any other failure.
ReceiveInvalid ==
    /\ consumer = "listening" /\ job = NoJob
    /\ metrics.totalProcessed < MaxProcessed
    /\ metrics' = Updated(FALSE, 0)
    /\ UNCHANGED <<broker, consumer, job>>

\* The payment is processed and its result published, or something throws: the
\* database, the payment gateway, the publish.
Finish(success) ==
    /\ consumer = "listening" /\ job # NoJob
    /\ metrics' = Updated(success, job)
    /\ job' = NoJob
    /\ UNCHANGED <<broker, consumer>>

\* A delivery ends after its channel closed: ack and nack throw, and the
\* rejection that nobody handles ends the process.
FinishDeaf ==
    /\ consumer = "deaf" /\ job # NoJob
    /\ Stopped
    /\ UNCHANGED broker

\* A faulty variant of Reset: the accumulator is forgotten.
ResetMetricsOnly ==
    /\ consumer # "down"
    /\ metrics' = [NoMetrics EXCEPT !.totalTime = metrics.totalTime]
    /\ UNCHANGED <<broker, consumer, job>>

\* POST /consumer-metrics/reset, also in the middle of a delivery.
Reset ==
    /\ consumer # "down"
    /\ metrics' = NoMetrics
    /\ UNCHANGED <<broker, consumer, job>>

\* A minute passes.
Tick ==
    /\ consumer # "down"
    /\ job' = IF job = NoJob THEN NoJob ELSE Capped(job + 1, MaxTime)
    /\ metrics' = [metrics EXCEPT !.lastProcessedAge =
                      IF @ = Never THEN Never ELSE Capped(@ + 1, Window)]
    /\ UNCHANGED <<broker, consumer>>

HealthNext ==
    \/ Start \/ Stop \/ LoseConnection \/ BrokerChanges
    \/ Receive \/ ReceiveInvalid
    \/ (\E success \in BOOLEAN : Finish(success)) \/ FinishDeaf
    \/ Reset \/ Tick

-----------------------------------------------------------------------------
(* What GET /consumer-metrics/health says. *)

IsProcessing == metrics.lastProcessedAge < Window

HasGoodSuccessRate ==
    metrics.totalSuccess * 100 >= MinRate * metrics.totalProcessed

\* A faulty variant of Verdict: a bad rate is looked for first.
VerdictRateFirst ==
    CASE ~HasGoodSuccessRate \/ metrics.totalFailed >= FailureLimit -> "degraded"
      [] ~IsProcessing /\ metrics.totalProcessed > 0 -> "unhealthy"
      [] OTHER -> "healthy"

Verdict ==
    IF ~IsProcessing /\ metrics.totalProcessed > 0 THEN "unhealthy"
    ELSE IF ~HasGoodSuccessRate \/ metrics.totalFailed >= FailureLimit
         THEN "degraded" ELSE "healthy"

-----------------------------------------------------------------------------
(* Properties. *)

\* Time, a reconnection of the broker or the mere arrival of a message does
\* not lift the verdict on a silent consumer: only a delivery that ends, a
\* reset or a new process does (ConsumerMetricsController.getHealth).
VerdictLiftedByWork ==
    [][ (Verdict = "unhealthy" /\ Verdict' # "unhealthy")
            => \/ metrics'.totalProcessed = metrics.totalProcessed + 1
               \/ metrics' = NoMetrics ]_healthVars

\* A consumer that worked once and finishes nothing more, because its
\* connection closed, because a delivery hangs or because there is nothing to
\* do, is reported as unhealthy, whatever its other figures
\* (ConsumerMetricsController.getHealth, PaymentConsumerService.updateMetrics).
SilenceReported ==
    \A n \in 1 .. MaxProcessed :
        metrics.totalProcessed = n
            ~> (Verdict = "unhealthy" \/ metrics.totalProcessed # n)

=============================================================================
