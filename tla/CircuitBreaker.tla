---------------------------- MODULE CircuitBreaker ----------------------------
(***************************************************************************)
(* One circuit of the api-gateway's CircuitBreakerService: the entry of    *)
(* its map for one downstream service.  Executions overlap: an execution   *)
(* enters, awaits its operation, and reports the outcome to whatever state *)
(* the circuit is in by then.                                              *)
(***************************************************************************)
EXTENDS Naturals

CONSTANT FailureThreshold   \* options.failureThreshold (3 for the proxy)

ASSUME ThresholdAssumption == FailureThreshold \in Nat \ {0}

VARIABLE circuit

\* `waiting' is Date.now() < nextAttemptTime, which only an OPEN circuit reads.
\* The count is only compared with the threshold: it saturates there.
CircuitState ==
    [ state : {"CLOSE", "OPEN", "HALF_OPEN"}, failureCount : 0 .. FailureThreshold,
      waiting : BOOLEAN ]

Closed == [state |-> "CLOSE", failureCount |-> 0, waiting |-> FALSE]

CircuitInit == circuit = Closed

\* A faulty variant of Refuses: an open circuit does not look at the clock.
RefusesForever == circuit.state = "OPEN"

\* An execution that arrives now gets the fallback.
Refuses == circuit.state = "OPEN" /\ circuit.waiting

\* An execution begins its operation; the first one after the open period
\* half-opens the circuit, and those that follow it pass as well.
Enter ==
    /\ ~Refuses
    /\ circuit' = [circuit EXCEPT !.state =
                       IF circuit.state = "OPEN" THEN "HALF_OPEN" ELSE @]

\* A faulty variant of OnSuccess: the circuit closes and keeps its count.
SuccessKeepsCount == circuit' = [Closed EXCEPT !.failureCount = circuit.failureCount]

\* An execution, however old, reports success.
OnSuccess == circuit' = Closed

\* An execution, however old, reports a failure.
OnFailure ==
    LET failures == circuit.failureCount + 1
    IN circuit' = IF failures >= FailureThreshold
                  THEN [ state |-> "OPEN", failureCount |-> FailureThreshold,
                         waiting |-> TRUE ]
                  ELSE [circuit EXCEPT !.failureCount = failures]

\* The clock reaches nextAttemptTime.
PeriodEnds ==
    /\ circuit.waiting
    /\ circuit' = [circuit EXCEPT !.waiting = FALSE]

=============================================================================
