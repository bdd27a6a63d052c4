------------------------------ MODULE HealthCheck ------------------------------
(***************************************************************************)
(* The health of one service in the eyes of the api-gateway:               *)
(* checkServiceHealth asks the service's GET /health through a circuit of  *)
(* its own and keeps the result of the check that ended last.  Checks      *)
(* overlap: every GET /health/services and /health/ready begins one;       *)
(* GET /health/services/:serviceName begins none and reads what is kept.   *)
(***************************************************************************)
EXTENDS CircuitBreaker

CONSTANT Checks     \* bound: checks that may overlap

VARIABLES
    check,          \* check[c]: its call of GET /health
    healthCache     \* the entry of the service

checkVars == <<circuit, check, healthCache>>

\* "sent" will be answered, "doomed" will not, or not in time, or by an error.
CheckTypeOK ==
    /\ circuit \in CircuitState
    /\ check \in [Checks -> {"none", "sent", "doomed"}]
    /\ healthCache \in {"unknown", "healthy", "unhealthy"}

CheckInit ==
    /\ CircuitInit
    /\ check = [c \in Checks |-> "none"]
    /\ healthCache = "unknown"

Begin(c, up) ==
    /\ check[c] = "none"
    /\ Enter
    /\ check' = [check EXCEPT ![c] = IF up THEN "sent" ELSE "doomed"]
    /\ UNCHANGED healthCache

\* The circuit is open: the fallback throws, and the service is unhealthy.
Refused(c) ==
    /\ check[c] = "none"
    /\ Refuses
    /\ healthCache' = "unhealthy"
    /\ UNCHANGED <<circuit, check>>

Passes(c) ==
    /\ check[c] = "sent"
    /\ OnSuccess
    /\ healthCache' = "healthy"
    /\ check' = [check EXCEPT ![c] = "none"]

Fails(c) ==
    /\ check[c] = "doomed"
    /\ OnFailure
    /\ healthCache' = "unhealthy"
    /\ check' = [check EXCEPT ![c] = "none"]

\* The service stops answering; a response may be on its way already.
Interrupted ==
    \E lost \in SUBSET {c \in Checks : check[c] = "sent"} :
        check' = [c \in Checks |-> IF c \in lost THEN "doomed" ELSE check[c]]

\* What GET /health/services/:serviceName says: the result of the check that
\* ended last.
ReportedHealthy == healthCache = "healthy"

=============================================================================
