--------------------------- MODULE MonitoringProofs ---------------------------
(***************************************************************************)
(* Proofs about Monitoring, for any window, rates, limits and checks: the  *)
(* counters of the consumer fit together, and what lifts its verdict.      *)
(***************************************************************************)
EXTENDS Monitoring, TLAPS

-----------------------------------------------------------------------------
(* The counters. *)

\* A rounded average is no longer than the longest duration.
LEMMA AverageBounded ==
    ASSUME NEW n \in Nat \ {0}, NEW max \in Nat, NEW time \in Nat, time <= n * max
    PROVE  (2 * time + n) \div (2 * n) \in 0 .. max
<1> DEFINE q == (2 * time + n) \div (2 * n)
<1>1. q \in Int /\ 2 * n * q <= 2 * time + n /\ 2 * time + n < 2 * n * q + 2 * n
  OBVIOUS
<1> HIDE DEF q
<1>2. q >= 0
  <2>1. SUFFICES ASSUME q <= -1 PROVE FALSE
    BY <1>1
  <2>2. 2 * n * q <= 2 * n * (-1)
    BY <1>1, <2>1
  <2> QED BY <1>1, <2>2
<1>3. q <= max
  <2>1. SUFFICES ASSUME q >= max + 1 PROVE FALSE
    BY <1>1
  <2>2. 2 * n * q >= 2 * n * (max + 1)
    BY <1>1, <2>1
  <2>3. 2 * n * (max + 1) = 2 * (n * max) + 2 * n
    OBVIOUS
  <2> QED BY <1>1, <2>2, <2>3
<1> QED BY <1>1, <1>2, <1>3 DEF q

\* A delivery that ends while the bound has room for it keeps the counters in step.
LEMMA UpdatedFits ==
    ASSUME HealthTypeOK, CountersFit, metrics.totalProcessed < MaxProcessed,
           NEW success \in BOOLEAN, NEW duration \in 0 .. MaxTime,
           metrics' = Updated(success, duration)
    PROVE  /\ metrics' \in Metrics
           /\ metrics'.totalProcessed = metrics'.totalSuccess + metrics'.totalFailed
           /\ metrics'.totalTime <= metrics'.totalProcessed * MaxTime
           /\ metrics'.totalProcessed = metrics.totalProcessed + 1
<1> DEFINE n == metrics.totalProcessed
           time == metrics.totalTime + duration
<1>1. /\ n \in Nat /\ n + 1 <= MaxProcessed /\ metrics.totalTime \in Nat
      /\ metrics.totalSuccess \in Nat /\ metrics.totalFailed \in Nat
      /\ n = metrics.totalSuccess + metrics.totalFailed
      /\ metrics.totalTime <= n * MaxTime
      /\ MaxTime \in Nat /\ MaxProcessed \in Nat /\ Window \in Nat
  BY HealthAssumption DEF HealthTypeOK, Metrics, CountersFit
<1>2. /\ metrics'.totalProcessed = n + 1
      /\ metrics'.totalSuccess = metrics.totalSuccess + IF success THEN 1 ELSE 0
      /\ metrics'.totalFailed = metrics.totalFailed + IF success THEN 0 ELSE 1
      /\ metrics'.totalTime = time
  BY DEF Updated
<1>3. time \in Nat /\ time <= (n + 1) * MaxTime
  <2>1. (n + 1) * MaxTime = n * MaxTime + MaxTime
    BY <1>1
  <2> QED BY <1>1, <2>1
<1>4. (n + 1) * MaxTime <= MaxProcessed * MaxTime
  <2>1. PICK k \in Nat : MaxProcessed = (n + 1) + k
    <3>1. MaxProcessed - (n + 1) \in Nat
      BY <1>1
    <3> QED BY <1>1, <3>1
  <2>2. MaxProcessed * MaxTime = (n + 1) * MaxTime + k * MaxTime /\ k * MaxTime >= 0
    BY <1>1, <2>1
  <2> QED BY <1>1, <2>1, <2>2
<1>5. (2 * time + (n + 1)) \div (2 * (n + 1)) \in 0 .. MaxTime
  <2> DEFINE p == n + 1
  <2>1. p \in Nat \ {0} /\ time \in Nat /\ time <= p * MaxTime
    BY <1>1, <1>3
  <2> HIDE DEF p, time
  <2>2. (2 * time + p) \div (2 * p) \in 0 .. MaxTime
    BY <1>1, <2>1, AverageBounded
  <2> QED BY <2>2 DEF p
<1>6. time <= MaxProcessed * MaxTime
  <2>1. (n + 1) * MaxTime \in Int /\ MaxProcessed * MaxTime \in Int
    BY <1>1
  <2> QED BY <1>3, <1>4, <2>1
<1>7. metrics' \in Metrics
  <2>1. /\ n + 1 \in 0 .. MaxProcessed
        /\ metrics.totalSuccess + (IF success THEN 1 ELSE 0) \in 0 .. MaxProcessed
        /\ metrics.totalFailed + (IF success THEN 0 ELSE 1) \in 0 .. MaxProcessed
        /\ 0 \in Never .. Window
        /\ time \in 0 .. MaxProcessed * MaxTime
    BY <1>1, <1>3, <1>6 DEF Never
  <2> HIDE DEF n, time
  <2>2. metrics' = [ totalProcessed |-> n + 1,
                     totalSuccess |-> metrics.totalSuccess + IF success THEN 1 ELSE 0,
                     totalFailed |-> metrics.totalFailed + IF success THEN 0 ELSE 1,
                     lastProcessedAge |-> 0,
                     averageProcessingTime |-> (2 * time + (n + 1)) \div (2 * (n + 1)),
                     totalTime |-> time ]
    BY DEF Updated, n, time
  <2> QED BY <1>5, <2>1, <2>2 DEF Metrics
<1>8. metrics'.totalProcessed = metrics'.totalSuccess + metrics'.totalFailed
  BY <1>1, <1>2
<1> QED BY <1>2, <1>3, <1>7, <1>8

\* The counters of a process that starts, or that an operator reset.
LEMMA NoMetricsFit ==
    /\ NoMetrics \in Metrics
    /\ NoMetrics.totalProcessed = NoMetrics.totalSuccess + NoMetrics.totalFailed
    /\ NoMetrics.totalTime <= NoMetrics.totalProcessed * MaxTime
    /\ NoMetrics.totalProcessed = 0 /\ 0 \in Nat
<1>1. MaxProcessed * MaxTime \in Nat /\ 0 * MaxTime = 0
  BY HealthAssumption
<1> QED BY <1>1, HealthAssumption DEF NoMetrics, Metrics, Never

\* A step of the consumer keeps its counters in step.
LEMMA ConsumerInv ==
    ASSUME HealthTypeOK, CountersFit, HealthNext
    PROVE  HealthTypeOK' /\ CountersFit'
<1>1. /\ job \in NoJob .. MaxTime /\ metrics \in Metrics /\ broker \in BOOLEAN
      /\ consumer \in {"down", "deaf", "listening"}
      /\ MaxTime \in Nat /\ NoJob = -1
  BY HealthAssumption DEF HealthTypeOK, NoJob
<1>2. ASSUME metrics' = NoMetrics, job' \in {job, NoJob}, broker' \in BOOLEAN,
             consumer' \in {"down", "deaf", "listening"}
      PROVE  HealthTypeOK' /\ CountersFit'
  <2>1. job' # NoJob => metrics'.totalProcessed < MaxProcessed
    BY <1>1, <1>2, NoMetricsFit, HealthAssumption DEF CountersFit, Metrics
  <2> QED BY <1>1, <1>2, <2>1, NoMetricsFit DEF HealthTypeOK, CountersFit
<1>3. CASE Start
  BY <1>1, <1>2, <1>3 DEF Start
<1>4. CASE Stop \/ FinishDeaf \/ Reset
  BY <1>1, <1>2, <1>4 DEF Stop, FinishDeaf, Reset, Stopped
<1>5. CASE LoseConnection \/ BrokerChanges
  BY <1>1, <1>5 DEF LoseConnection, BrokerChanges, HealthTypeOK, CountersFit
<1>6. CASE Receive
  BY <1>1, <1>6 DEF Receive, HealthTypeOK, CountersFit
<1>7. ASSUME NEW success \in BOOLEAN, NEW duration \in 0 .. MaxTime,
             metrics.totalProcessed < MaxProcessed,
             metrics' = Updated(success, duration), job' = NoJob, UNCHANGED <<broker, consumer>>
      PROVE  HealthTypeOK' /\ CountersFit'
  <2>1. /\ metrics' \in Metrics
        /\ metrics'.totalProcessed = metrics'.totalSuccess + metrics'.totalFailed
        /\ metrics'.totalTime <= metrics'.totalProcessed * MaxTime
    BY <1>7, UpdatedFits
  <2> QED BY <1>1, <1>7, <2>1 DEF HealthTypeOK, CountersFit
<1>8. CASE ReceiveInvalid
  <2>1. /\ metrics.totalProcessed < MaxProcessed
        /\ metrics' = Updated(FALSE, 0)
        /\ job' = NoJob /\ UNCHANGED <<broker, consumer>>
    BY <1>8 DEF ReceiveInvalid
  <2>2. FALSE \in BOOLEAN /\ 0 \in 0 .. MaxTime
    BY <1>1
  <2> QED BY <1>7, <2>1, <2>2, Zenon
<1>9. ASSUME NEW success \in BOOLEAN, Finish(success) PROVE HealthTypeOK' /\ CountersFit'
  <2>1. job \in 0 .. MaxTime /\ metrics.totalProcessed < MaxProcessed
    BY <1>1, <1>9 DEF Finish, CountersFit
  <2> QED BY <1>7, <1>9, <2>1 DEF Finish
<1>10. CASE Tick
  <2>1. job' \in NoJob .. MaxTime /\ (job' # NoJob => job # NoJob)
    BY <1>1, <1>10 DEF Tick, Capped
  <2>2. /\ metrics' \in Metrics
        /\ metrics'.totalProcessed = metrics.totalProcessed
        /\ metrics'.totalSuccess = metrics.totalSuccess
        /\ metrics'.totalFailed = metrics.totalFailed
        /\ metrics'.totalTime = metrics.totalTime
    <3> DEFINE age == metrics.lastProcessedAge
               older == IF age = Never THEN Never ELSE Capped(age + 1, Window)
    <3>1. age \in Never .. Window
      BY <1>1 DEF Metrics
    <3>2. older \in Never .. Window
      BY <3>1, HealthAssumption DEF Capped, Never
    <3>3. metrics' = [metrics EXCEPT !.lastProcessedAge = older]
      BY <1>10 DEF Tick
    <3> HIDE DEF older
    <3> QED BY <1>1, <3>2, <3>3 DEF Metrics
  <2> QED BY <1>1, <1>10, <2>1, <2>2 DEF Tick, HealthTypeOK, CountersFit
<1> QED BY <1>3, <1>4, <1>5, <1>6, <1>8, <1>9, <1>10 DEF HealthNext

-----------------------------------------------------------------------------
(* The health checks of the gateway. *)

\* The steps of the gateway keep the types of the circuit and of the checks.
LEMMA CheckTypes ==
    ASSUME CheckTypeOK,
           \/ \E c \in Checks : CheckStep(c)
           \/ PeriodEnds /\ UNCHANGED <<check, healthCache>>
           \/ Observed /\ UNCHANGED <<circuit, healthCache>>
    PROVE  CheckTypeOK'
<1> USE ThresholdAssumption DEF CheckTypeOK, CircuitState
<1>1. ASSUME NEW c \in Checks, Begin(c, Up) PROVE CheckTypeOK'
  BY <1>1 DEF Begin, Enter
<1>2. ASSUME NEW c \in Checks, Refused(c) PROVE CheckTypeOK'
  BY <1>2 DEF Refused
<1>3. ASSUME NEW c \in Checks, Passes(c) PROVE CheckTypeOK'
  BY <1>3 DEF Passes, OnSuccess, Closed
<1>4. ASSUME NEW c \in Checks, Fails(c) PROVE CheckTypeOK'
  <2>1. circuit' \in CircuitState
    BY <1>4 DEF Fails, OnFailure
  <2> QED BY <1>4, <2>1 DEF Fails
<1>5. CASE PeriodEnds /\ UNCHANGED <<check, healthCache>>
  BY <1>5 DEF PeriodEnds
<1>6. CASE Observed /\ UNCHANGED <<circuit, healthCache>>
  BY <1>6 DEF Observed, Interrupted
<1> QED BY <1>1, <1>2, <1>3, <1>4, <1>5, <1>6 DEF CheckStep

-----------------------------------------------------------------------------
(* The theorems. *)

LEMMA MonitoringInit == Init => MonitoringInv
<1> SUFFICES ASSUME Init PROVE MonitoringInv
  OBVIOUS
<1>1. HealthTypeOK
  BY NoMetricsFit, HealthAssumption DEF Init, HealthInit, HealthTypeOK, NoJob
<1>2. CheckTypeOK
  BY ThresholdAssumption
     DEF Init, CheckInit, CircuitInit, Closed, CircuitState, CheckTypeOK
<1>3. CountersFit
  BY NoMetricsFit DEF Init, HealthInit, CountersFit
<1> QED BY <1>1, <1>2, <1>3 DEF MonitoringInv, TypeOK, Init

LEMMA MonitoringNext == ASSUME MonitoringInv, [Next]_vars PROVE MonitoringInv'
<1>1. HealthTypeOK /\ CheckTypeOK /\ CountersFit /\ database \in BOOLEAN
  BY DEF MonitoringInv, TypeOK
<1>2. ASSUME UNCHANGED healthVars PROVE HealthTypeOK' /\ CountersFit'
  BY <1>1, <1>2 DEF healthVars, HealthTypeOK, CountersFit
<1>3. CASE ConsumerStep
  BY <1>1, <1>3, ConsumerInv, CheckTypes DEF ConsumerStep, MonitoringInv, TypeOK
<1>4. CASE DatabaseChanges
  BY <1>1, <1>2, <1>4, CheckTypes DEF DatabaseChanges, MonitoringInv, TypeOK
<1>5. CASE (\E c \in Checks : CheckStep(c)) /\ UNCHANGED <<healthVars, database>>
  BY <1>1, <1>2, <1>5, CheckTypes DEF MonitoringInv, TypeOK
<1>6. CASE PeriodEnds /\ UNCHANGED <<check, healthCache, healthVars, database>>
  BY <1>1, <1>2, <1>6, CheckTypes DEF MonitoringInv, TypeOK
<1>7. CASE UNCHANGED vars
  BY <1>1, <1>2, <1>7 DEF vars, checkVars, CheckTypeOK, MonitoringInv, TypeOK
<1> QED BY <1>3, <1>4, <1>5, <1>6, <1>7 DEF Next

\* The counters fit together however deliveries, resets, restarts and losses of
\* the connection interleave (PaymentConsumerService.updateMetrics, resetMetrics).
THEOREM MonitoringInvariance == Spec => []MonitoringInv
<1> QED BY MonitoringInit, MonitoringNext, PTL DEF Spec

\* Every variable has its type: the average that the accumulator yields is that
\* of the deliveries counted (PaymentConsumerService.updateMetrics).
THEOREM MonitoringTypes == Spec => []TypeOK
<1>1. MonitoringInv => TypeOK
  BY DEF MonitoringInv
<1> QED BY <1>1, MonitoringInvariance, PTL

\* A consumer that was silent for the window stays so while its counters are not
\* touched by a delivery that ends or by a reset.
LEMMA VerdictStep ==
    ASSUME MonitoringInv, [Next]_vars, Verdict = "unhealthy", Verdict' # "unhealthy"
    PROVE  \/ metrics'.totalProcessed = metrics.totalProcessed + 1
           \/ metrics' = NoMetrics
<1>1. /\ metrics \in Metrics /\ job \in NoJob .. MaxTime
      /\ HealthTypeOK /\ CountersFit
  BY DEF MonitoringInv, TypeOK, HealthTypeOK
<1>2. metrics' # metrics
  BY DEF Verdict, IsProcessing, HasGoodSuccessRate
<1>3. ConsumerStep
  BY <1>2 DEF Next, DatabaseChanges, vars, healthVars
<1>4. metrics.lastProcessedAge >= Window /\ metrics.totalProcessed > 0
  BY <1>1, HealthAssumption DEF Verdict, IsProcessing, Metrics, Never
<1>5. CASE Tick
  <2>1. metrics.lastProcessedAge = Window /\ Window # Never /\ Window \in Nat
    BY <1>1, <1>4, HealthAssumption DEF Metrics, Never
  <2>2. metrics' = [metrics EXCEPT !.lastProcessedAge = Window]
    BY <1>5, <2>1 DEF Tick, Capped
  <2> QED BY <1>1, <1>2, <2>1, <2>2 DEF Metrics
<1>6. CASE ReceiveInvalid
  <2>1. metrics' = Updated(FALSE, 0)
    BY <1>6 DEF ReceiveInvalid
  <2> QED BY <2>1 DEF Updated
<1>7. ASSUME NEW success \in BOOLEAN, Finish(success)
      PROVE  metrics'.totalProcessed = metrics.totalProcessed + 1
  BY <1>7 DEF Finish, Updated
<1>8. CASE Start \/ Stop \/ FinishDeaf \/ Reset
  BY <1>8 DEF Start, Stop, FinishDeaf, Reset, Stopped
<1> QED BY <1>2, <1>3, <1>5, <1>6, <1>7, <1>8
        DEF ConsumerStep, HealthNext, LoseConnection, BrokerChanges, Receive

\* The verdict on a silent consumer is lifted only by a delivery that ends, by
\* a reset or by a new process (ConsumerMetricsController.getHealth).
THEOREM SilenceStays == Spec => VerdictLiftedByWork
<1>1. ASSUME MonitoringInv, [Next]_vars
      PROVE  [ (Verdict = "unhealthy" /\ Verdict' # "unhealthy")
                   => \/ metrics'.totalProcessed = metrics.totalProcessed + 1
                      \/ metrics' = NoMetrics ]_healthVars
  BY <1>1, VerdictStep
<1> QED BY <1>1, MonitoringInvariance, PTL DEF Spec, VerdictLiftedByWork

=============================================================================
