------------------------------ MODULE Monitoring ------------------------------
(***************************************************************************)
(* Two views of payments-service: the verdict of its consumer, which only  *)
(* sees deliveries, and the health that the api-gateway keeps of it, which *)
(* sees its GET /health.  That one pings the database and RabbitMQ over    *)
(* connections of its own, so it answers 200 while the consumer is deaf.   *)
(***************************************************************************)
EXTENDS ConsumerHealth, HealthCheck

VARIABLE database     \* PostgreSQL answers

vars == <<healthVars, checkVars, database>>

TypeOK == HealthTypeOK /\ CheckTypeOK /\ database \in BOOLEAN

\* HealthController.check of payments-service.
Up == consumer # "down" /\ broker /\ database

Init ==
    /\ HealthInit
    /\ CheckInit
    /\ database = TRUE

\* Checks in flight may stay without an answer when the service stops answering.
Observed == IF Up /\ ~Up' THEN Interrupted ELSE UNCHANGED check

ConsumerStep ==
    /\ HealthNext
    /\ UNCHANGED <<circuit, healthCache, database>>
    /\ Observed

DatabaseChanges ==
    /\ database' = ~database
    /\ UNCHANGED <<healthVars, circuit, healthCache>>
    /\ Observed

\* A client of the gateway asks, or a call ends.
CheckStep(c) == Begin(c, Up) \/ Refused(c) \/ Passes(c) \/ Fails(c)

Next ==
    \/ ConsumerStep
    \/ DatabaseChanges
    \/ (\E c \in Checks : CheckStep(c)) /\ UNCHANGED <<healthVars, database>>
    \/ PeriodEnds /\ UNCHANGED <<check, healthCache, healthVars, database>>

Spec == Init /\ [][Next]_vars

\* Clocks run, the calls of the gateway end or time out, and some client goes
\* on asking for the health of the service.
FairSpec ==
    /\ Spec
    /\ WF_vars(Tick /\ UNCHANGED <<checkVars, database>>)
    /\ WF_vars(PeriodEnds /\ UNCHANGED <<check, healthCache, healthVars, database>>)
    /\ \A c \in Checks :
          WF_vars((Passes(c) \/ Fails(c)) /\ UNCHANGED <<healthVars, database>>)
    /\ WF_vars(\E c \in Checks : Begin(c, Up) /\ UNCHANGED <<healthVars, database>>)

-----------------------------------------------------------------------------
(* Properties. *)

\* Once the service answers for good, and while clients keep asking, every check
\* comes to find it healthy, and what the gateway keeps says so and is not taken
\* back: overlapping older checks that end last do not, and the circuit of the
\* health checks cannot lock a service out (HealthCheckService.checkServiceHealth,
\* getCachedHealth, CircuitBreakerService).
RecoveryReported == <>[]Up => <>[]ReportedHealthy

-----------------------------------------------------------------------------
(* The inductive invariant.                                                  *)

\* The bound has room for the delivery in hand; every delivery counted succeeded
\* or failed, and took no longer than a delivery takes, so that the average of
\* the accumulator is the average of that many deliveries.
CountersFit ==
    /\ job # NoJob => metrics.totalProcessed < MaxProcessed
    /\ metrics.totalProcessed = metrics.totalSuccess + metrics.totalFailed
    /\ metrics.totalTime <= metrics.totalProcessed * MaxTime

MonitoringInv == TypeOK /\ CountersFit

=============================================================================
