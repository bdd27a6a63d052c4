----------------------------- MODULE GatewayProofs -----------------------------
(***************************************************************************)
(* Lemmas about Gateway for any requests, retries and threshold: its       *)
(* invariant, step by step and whatever the service does.  The modules     *)
(* that prove about a service behind the gateway build on them.            *)
(***************************************************************************)
EXTENDS Gateway, FiniteSetTheorems, TLAPS

-----------------------------------------------------------------------------
(* The circuit. *)

\* What a step may do to the circuit, and what it adds to the count.
LEMMA CircuitSteps ==
    ASSUME circuit \in CircuitState, CircuitCountsFailures
    PROVE  /\ OnSuccess => /\ circuit' \in CircuitState
                           /\ CircuitCountsFailures'
                           /\ circuit'.failureCount = 0
           /\ OnFailure => /\ circuit' \in CircuitState
                           /\ CircuitCountsFailures'
                           /\ circuit'.failureCount <= circuit.failureCount + 1
           /\ Enter \/ PeriodEnds => /\ circuit' \in CircuitState
                                     /\ CircuitCountsFailures'
                                     /\ circuit'.failureCount = circuit.failureCount
<1> USE ThresholdAssumption DEF CircuitState, CircuitCountsFailures
<1>1. OnSuccess => /\ circuit' \in CircuitState
                   /\ CircuitCountsFailures'
                   /\ circuit'.failureCount = 0
  BY DEF OnSuccess, Closed
<1>2. ASSUME OnFailure
      PROVE  /\ circuit' \in CircuitState
             /\ CircuitCountsFailures'
             /\ circuit'.failureCount <= circuit.failureCount + 1
  BY <1>2 DEF OnFailure
<1>3. ASSUME Enter
      PROVE  /\ circuit' \in CircuitState
             /\ CircuitCountsFailures'
             /\ circuit'.failureCount = circuit.failureCount
  BY <1>3 DEF Enter, Refuses
<1>4. ASSUME PeriodEnds
      PROVE  /\ circuit' \in CircuitState
             /\ CircuitCountsFailures'
             /\ circuit'.failureCount = circuit.failureCount
  BY <1>4 DEF PeriodEnds
<1> QED BY <1>1, <1>2, <1>3, <1>4

-----------------------------------------------------------------------------
(* The gateway. *)

\* The attempts are numbered from 0 to MaxRetries.
LEMMA AttemptNumbers ==
    /\ Attempts = 0 .. MaxRetries
    /\ 0 \in Attempts /\ MaxRetries \in Attempts /\ MaxRetries \in Nat
  BY GatewayAssumption DEF Attempts

\* Sets of requests are finite, and grow by at least one with a new request.
LEMMA RequestSets ==
    \A S, T \in SUBSET Requests :
        /\ Cardinality(S) \in Nat
        /\ S \subseteq T => Cardinality(S) <= Cardinality(T)
        /\ \A r \in T \ S : S \subseteq T => Cardinality(S) + 1 <= Cardinality(T)
<1> SUFFICES ASSUME NEW S \in SUBSET Requests, NEW T \in SUBSET Requests
             PROVE  /\ Cardinality(S) \in Nat
                    /\ S \subseteq T => Cardinality(S) <= Cardinality(T)
                    /\ \A r \in T \ S :
                          S \subseteq T => Cardinality(S) + 1 <= Cardinality(T)
  OBVIOUS
<1>1. IsFiniteSet(S) /\ IsFiniteSet(T)
  BY FS_Subset, GatewayAssumption
<1>2. Cardinality(S) \in Nat /\ Cardinality(T) \in Nat
  BY <1>1, FS_CardinalityType
<1>3. S \subseteq T => Cardinality(S) <= Cardinality(T)
  BY <1>1, FS_Subset
<1>4. ASSUME NEW r \in T \ S, S \subseteq T
      PROVE  Cardinality(S) + 1 <= Cardinality(T)
  <2>1. S \cup {r} \in SUBSET T
    BY <1>4
  <2>2. Cardinality(S \cup {r}) = Cardinality(S) + 1
    BY <1>1, FS_AddElement
  <2> QED BY <1>1, <2>1, <2>2, FS_Subset
<1> QED BY <1>2, <1>3, <1>4

\* Exhausted is one of them.
LEMMA ExhaustedRequests == Exhausted \in SUBSET Requests /\ Exhausted' \in SUBSET Requests
  BY DEF Exhausted

\* Nothing was sent, counted or answered at first.
LEMMA GatewayInvInit == GatewayInit => GatewayInv
<1> SUFFICES ASSUME GatewayInit PROVE GatewayInv
  OBVIOUS
<1> USE DEF GatewayInit, CircuitInit, Closed
<1>1. GatewayTypeOK
  BY AttemptNumbers, ThresholdAssumption
     DEF GatewayTypeOK, CircuitState, Request, CallState
<1>2. CircuitCountsFailures
  BY ThresholdAssumption DEF CircuitCountsFailures
<1>3. 0 <= Cardinality(Exhausted)
  BY RequestSets, ExhaustedRequests
<1> QED BY <1>1, <1>2, <1>3 DEF GatewayInv, RequestOK, FailuresBounded

\* A refused request is answered without a call and without a failure.
LEMMA RefuseStep ==
    ASSUME GatewayInv, NEW r \in Requests, Refuse(r)
    PROVE  GatewayInv'
<1> USE DEF GatewayInv, Refuse, Answer, RequestOK, FailuresBounded, Awaited
<1>1. GatewayTypeOK' /\ CircuitCountsFailures'
  BY DEF GatewayTypeOK, Request, Statuses, CircuitCountsFailures
<1>2. Exhausted \subseteq Exhausted'
  BY DEF Exhausted, GatewayTypeOK, Request
<1>3. FailuresBounded'
  BY <1>2, RequestSets, ExhaustedRequests DEF GatewayTypeOK, CircuitState
<1> QED BY <1>1, <1>3 DEF GatewayTypeOK, Request

\* The circuit may half-open; its count stays.
LEMMA AdmitStep ==
    ASSUME GatewayInv, NEW r \in Requests, Admit(r)
    PROVE  GatewayInv'
<1> USE DEF GatewayInv, Admit, RequestOK, FailuresBounded, Awaited
<1>1. /\ circuit' \in CircuitState
      /\ CircuitCountsFailures'
      /\ circuit'.failureCount = circuit.failureCount
  BY CircuitSteps DEF GatewayTypeOK
<1>2. <<r, 0>> \in Calls
  BY AttemptNumbers DEF Calls
<1>3. GatewayTypeOK'
  BY <1>1, <1>2 DEF GatewayTypeOK, Request, CallState
<1>4. Exhausted \subseteq Exhausted'
  BY <1>2, AttemptNumbers DEF Exhausted, GatewayTypeOK, Request, CallState, Calls
<1>5. FailuresBounded'
  BY <1>1, <1>4, RequestSets, ExhaustedRequests DEF GatewayTypeOK, CircuitState
<1>6. \A q \in Requests : RequestOK(q)'
  BY <1>2 DEF GatewayTypeOK, Request, Calls
<1> QED BY <1>1, <1>3, <1>5, <1>6

\* The count is back to 0.
LEMMA SucceedStep ==
    ASSUME GatewayInv, NEW r \in Requests, Succeed(r)
    PROVE  GatewayInv'
<1> USE DEF GatewayInv, Succeed, Answer, RequestOK, FailuresBounded, Awaited
<1>1. /\ circuit' \in CircuitState
      /\ CircuitCountsFailures'
      /\ circuit'.failureCount = 0
  BY CircuitSteps DEF GatewayTypeOK
<1>2. Awaited(r) \in Calls
  BY DEF GatewayTypeOK, Request, Calls
<1>3. GatewayTypeOK'
  BY <1>1, <1>2 DEF GatewayTypeOK, Request, CallState, Statuses
<1>4. FailuresBounded'
  BY <1>1, RequestSets, ExhaustedRequests
<1>5. \A q \in Requests : RequestOK(q)'
  BY <1>2 DEF GatewayTypeOK, Request, Calls
<1> QED BY <1>1, <1>3, <1>4, <1>5

\* One more failure is counted exactly when one more request is exhausted.
LEMMA AttemptFailsStep ==
    ASSUME GatewayInv, NEW r \in Requests, AttemptFails(r)
    PROVE  GatewayInv'
<1> USE DEF GatewayInv, AttemptFails, RequestOK, FailuresBounded, Awaited
<1>1. Awaited(r) \in Calls
  BY DEF GatewayTypeOK, Request, Calls
<1>2. call' \in [Calls -> CallState] /\ \A c \in Calls : call[c] # "none" => call'[c] # "none"
  BY <1>1 DEF GatewayTypeOK, CallState, Statuses, Functional
<1>3. \A q \in Requests, k \in Attempts : <<q, k>> \in Calls
  BY DEF Calls
<1>4. CASE Exhaust(r)
  <2> USE <1>4 DEF Exhaust, Answer
  <2>1. /\ circuit' \in CircuitState
        /\ CircuitCountsFailures'
        /\ circuit'.failureCount <= circuit.failureCount + 1
    BY CircuitSteps DEF GatewayTypeOK
  <2>2. GatewayTypeOK'
    BY <1>2, <2>1 DEF GatewayTypeOK, Request, Statuses
  <2>3. r \notin Exhausted
    BY DEF Exhausted
  <2>4. r \in Exhausted' /\ Exhausted \subseteq Exhausted'
    BY <1>2, <1>3, AttemptNumbers DEF Exhausted, GatewayTypeOK, Request
  <2>5. FailuresBounded'
    BY <2>1, <2>3, <2>4, RequestSets, ExhaustedRequests DEF GatewayTypeOK, CircuitState
  <2>6. \A q \in Requests : RequestOK(q)'
    BY <1>2, <1>3 DEF GatewayTypeOK, Request
  <2> QED BY <2>1, <2>2, <2>5, <2>6
<1>5. CASE BackOff(r)
  <2> USE <1>5 DEF BackOff
  <2>1. GatewayTypeOK' /\ CircuitCountsFailures'
    BY <1>2 DEF GatewayTypeOK, Request, CircuitCountsFailures
  <2>2. Exhausted \subseteq Exhausted'
    BY <1>2, <1>3, AttemptNumbers DEF Exhausted, GatewayTypeOK, Request
  <2>3. FailuresBounded'
    BY <2>2, RequestSets, ExhaustedRequests DEF GatewayTypeOK, CircuitState
  <2>4. \A q \in Requests : RequestOK(q)'
    BY <1>2, <1>3 DEF GatewayTypeOK, Request
  <2> QED BY <2>1, <2>3, <2>4
<1> QED BY <1>4, <1>5

\* A retry has an attempt left.
LEMMA RetryStep ==
    ASSUME GatewayInv, NEW r \in Requests, Retry(r)
    PROVE  GatewayInv'
<1> USE DEF GatewayInv, Retry, RequestOK, FailuresBounded, Awaited
<1>1. req[r].attempt + 1 \in Attempts
  BY AttemptNumbers DEF GatewayTypeOK, Request
<1>2. <<r, req[r].attempt + 1>> \in Calls
  BY <1>1 DEF Calls
<1>3. GatewayTypeOK' /\ CircuitCountsFailures'
  BY <1>1, <1>2 DEF GatewayTypeOK, Request, CallState, CircuitCountsFailures
<1>4. Exhausted \subseteq Exhausted'
  BY <1>2, AttemptNumbers DEF Exhausted, GatewayTypeOK, Request, Calls
<1>5. FailuresBounded'
  BY <1>4, RequestSets, ExhaustedRequests DEF GatewayTypeOK, CircuitState
<1>6. \A q \in Requests : RequestOK(q)'
  BY <1>2 DEF GatewayTypeOK, Request, Calls
<1> QED BY <1>3, <1>5, <1>6

\* What the service does to a call: it never takes back that it was sent.
LEMMA ServiceStep ==
    ASSUME GatewayInv, UNCHANGED <<circuit, req>>, call' \in [Calls -> CallState],
           \A c \in Calls : call[c] # "none" => call'[c] # "none"
    PROVE  GatewayInv'
<1> USE DEF GatewayInv, RequestOK, FailuresBounded, Awaited
<1>1. GatewayTypeOK' /\ CircuitCountsFailures'
  BY DEF GatewayTypeOK, CircuitCountsFailures
<1>2. \A q \in Requests, k \in Attempts : <<q, k>> \in Calls
  BY DEF Calls
<1>3. Exhausted \subseteq Exhausted'
  BY <1>2, AttemptNumbers DEF Exhausted
<1>4. FailuresBounded'
  BY <1>3, RequestSets, ExhaustedRequests DEF GatewayTypeOK, CircuitState
<1> QED BY <1>1, <1>2, <1>4 DEF GatewayTypeOK, Request

\* The end of the open period leaves the count alone.
LEMMA PeriodStep ==
    ASSUME GatewayInv, PeriodPasses
    PROVE  GatewayInv'
<1> USE DEF GatewayInv, PeriodPasses, RequestOK, FailuresBounded, Awaited
<1>1. /\ circuit' \in CircuitState
      /\ CircuitCountsFailures'
      /\ circuit'.failureCount = circuit.failureCount
  BY CircuitSteps DEF GatewayTypeOK
<1>2. Exhausted' = Exhausted
  BY DEF Exhausted
<1> QED BY <1>1, <1>2 DEF GatewayTypeOK

\* GatewayInv is inductive.
LEMMA GatewayInvStep ==
    ASSUME GatewayInv, GatewayNext
    PROVE  GatewayInv'
  BY PeriodStep, RefuseStep, AdmitStep, SucceedStep, AttemptFailsStep, RetryStep
     DEF GatewayNext, GatewayStep

\* What an answer to a call becomes.
LEMMA ReplyFacts ==
    ASSUME GatewayTypeOK, NEW c \in Calls, NEW status \in Statuses, Reply(c, status),
           call[c] # "none"
    PROVE  /\ call' \in [Calls -> CallState]
           /\ \A d \in Calls : call[d] # "none" => call'[d] # "none"
           /\ \A d \in Calls : call'[d] = call[d] \/ (d = c /\ call'[d] \in {status, "gone"})
  BY DEF Reply, GatewayTypeOK, CallState, Statuses, Functional

=============================================================================
