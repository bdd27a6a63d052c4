-------------------------------- MODULE Gateway --------------------------------
(***************************************************************************)
(* The api-gateway in front of one downstream service: proxyRequest        *)
(* through the circuit breaker, the retries and the race with the timeout. *)
(* What the fallback of a refused or failed request does depends on the    *)
(* service and the method: the modules that compose this one say it.       *)
(*                                                                         *)
(* The gateway repeats a request whose attempt timed out while that        *)
(* attempt is still on its way to the service, being served, or on its way *)
(* back: a call outlives the attempt that sent it.  A call that is lost, a *)
(* service that crashes while it serves one and a response that never      *)
(* arrives are calls that simply make no further step; nothing obliges the *)
(* service to take one.                                                    *)
(***************************************************************************)
EXTENDS CircuitBreaker, FiniteSets

CONSTANTS
    Requests,     \* the clients' requests
    MaxRetries    \* proxyRequest passes 4: five attempts

ASSUME GatewayAssumption ==
    /\ IsFiniteSet(Requests)
    /\ MaxRetries \in Nat

VARIABLES
    req,     \* req[r]: the execution of proxyRequest for r
    call     \* call[<<r, k>>]: the HTTP call of attempt k of r

gatewayVars == <<circuit, req, call>>

Attempts == 0 .. MaxRetries
Calls    == Requests \X Attempts

\* validateStatus: below 500 is an answer, the rest makes axios throw.
Functional == {"200", "201", "400", "401", "403", "404", "409", "422", "429"}
Statuses   == Functional \cup {"500", "503"}

Request ==
    [ pc      : {"idle", "calling", "delay", "answered"},
      attempt : Attempts,
      answer  : {"none", "fallback"} \cup Functional ]

\* "running" is for the service between its two steps; a status is a response
\* on its way to an attempt that waits for it.
CallState == {"none", "sent", "running", "gone"} \cup Statuses

GatewayTypeOK ==
    /\ circuit \in CircuitState
    /\ req \in [Requests -> Request]
    /\ call \in [Calls -> CallState]

GatewayInit ==
    /\ CircuitInit
    /\ req = [r \in Requests |-> [pc |-> "idle", attempt |-> 0, answer |-> "none"]]
    /\ call = [c \in Calls |-> "none"]

\* The call that the request awaits now.
Awaited(r) == <<r, req[r].attempt>>

Answer(r, status) == req' = [req EXCEPT ![r].pc = "answered", ![r].answer = status]

\* The outcome of a call, which only a waiting attempt ever sees.
Reply(c, status) ==
    call' = [call EXCEPT ![c] =
                IF req[c[1]].pc = "calling" /\ Awaited(c[1]) = c
                THEN status ELSE "gone"]

\* The circuit is open: the fallback.
Refuse(r) ==
    /\ req[r].pc = "idle"
    /\ Refuses
    /\ Answer(r, "fallback")
    /\ UNCHANGED <<circuit, call>>

\* The request enters the circuit and sends its first attempt.
Admit(r) ==
    /\ req[r].pc = "idle"
    /\ Enter
    /\ req' = [req EXCEPT ![r].pc = "calling"]
    /\ call' = [call EXCEPT ![<<r, 0>>] = "sent"]

\* A response below 500 wins the race and becomes the answer.
Succeed(r) ==
    /\ req[r].pc = "calling"
    /\ call[Awaited(r)] \in Functional
    /\ OnSuccess
    /\ Answer(r, call[Awaited(r)])
    /\ call' = [call EXCEPT ![Awaited(r)] = "gone"]

\* The retries are exhausted: the circuit counts one failure; then the fallback.
Exhaust(r) ==
    /\ req[r].attempt = MaxRetries
    /\ OnFailure
    /\ Answer(r, "fallback")

\* A faulty variant of BackOff: the circuit counts every failed attempt.
BackOffCounts(r) ==
    /\ req[r].attempt < MaxRetries
    /\ OnFailure
    /\ req' = [req EXCEPT ![r].pc = "delay"]

\* A faulty variant of BackOff: one attempt too many.
BackOffOnceMore(r) ==
    /\ req[r].attempt <= MaxRetries
    /\ req' = [req EXCEPT ![r].pc = "delay"]
    /\ UNCHANGED circuit

\* Attempts are left: the next one follows after a delay.
BackOff(r) ==
    /\ req[r].attempt < MaxRetries
    /\ req' = [req EXCEPT ![r].pc = "delay"]
    /\ UNCHANGED circuit

\* A faulty variant of AttemptFails: the attempt waits for its call without a timeout.
FailsByResponseOnly(r) ==
    /\ req[r].pc = "calling"
    /\ call[Awaited(r)] \in Statuses
    /\ Exhaust(r) \/ BackOff(r)
    /\ call' = [call EXCEPT ![Awaited(r)] = "gone"]

\* The attempt ends by the timeout, whatever has become of its call, or
\* earlier by a connection error or a response of 500 or more.
AttemptFails(r) ==
    /\ req[r].pc = "calling"
    /\ Exhaust(r) \/ BackOff(r)
    /\ call' = [call EXCEPT ![Awaited(r)] =
                    IF @ \in Statuses THEN "gone" ELSE @]

\* The delay is over: the next attempt, whatever the circuit has become.
Retry(r) ==
    /\ req[r].pc = "delay"
    /\ req' = [req EXCEPT ![r].pc = "calling", ![r].attempt = @ + 1]
    /\ call' = [call EXCEPT ![<<r, req[r].attempt + 1>>] = "sent"]
    /\ UNCHANGED circuit

\* The open period of the circuit ends.
PeriodPasses == PeriodEnds /\ UNCHANGED <<req, call>>

GatewayStep(r) == Refuse(r) \/ Admit(r) \/ Succeed(r) \/ AttemptFails(r) \/ Retry(r)

GatewayNext == PeriodPasses \/ \E r \in Requests : GatewayStep(r)

\* The timers of the gateway fire.
GatewayFairness ==
    \A r \in Requests : WF_gatewayVars(AttemptFails(r)) /\ WF_gatewayVars(Retry(r))

-----------------------------------------------------------------------------
(* Properties. *)

\* However executions overlap, the circuit is closed exactly while fewer than
\* the threshold of failures have been reported since the last success, so
\* that one failure reopens a half-open circuit
\* (CircuitBreakerService.onSuccess and onFailure).
CircuitCountsFailures ==
    /\ circuit.state = "CLOSE" <=> circuit.failureCount < FailureThreshold
    /\ circuit.waiting => circuit.state = "OPEN"

Exhausted ==
    {r \in Requests : req[r].answer = "fallback" /\ req[r].attempt = MaxRetries
                          /\ call[<<r, MaxRetries>>] # "none"}

\* The circuit leaves CLOSE only after that many requests have each used up
\* all their attempts: a single request cannot open it by its own retries,
\* and neither can the requests that it refuses
\* (ProxyService.proxyRequest, where the retries are inside the circuit).
OpensAfterExhaustion ==
    circuit.state # "CLOSE" => Cardinality(Exhausted) >= FailureThreshold

\* Facts about requests, calls and the count that keep OpensAfterExhaustion.
RequestOK(r) ==
    /\ req[r].pc # "answered" => req[r].answer = "none"
    /\ req[r].pc \in {"calling", "delay"} => call[Awaited(r)] # "none"
    /\ req[r].pc = "idle" => req[r].attempt = 0
    /\ req[r].pc = "delay" => req[r].attempt < MaxRetries

FailuresBounded == circuit.failureCount <= Cardinality(Exhausted)

GatewayInv ==
    /\ GatewayTypeOK
    /\ CircuitCountsFailures
    /\ FailuresBounded
    /\ \A r \in Requests : RequestOK(r)

\* Every request that was admitted is answered, whatever the service does
\* (TimeoutService.executeWithCustomTimeout, RetryService.executeWithRetry).
AdmittedAnswered ==
    \A r \in Requests : (req[r].pc = "calling") ~> (req[r].pc = "answered")

=============================================================================
