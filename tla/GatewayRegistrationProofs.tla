----------------------- MODULE GatewayRegistrationProofs -----------------------
(***************************************************************************)
(* Proofs about GatewayRegistration for any requests, e-mails, retries and *)
(* threshold: its invariant, and that it implements Accounts.              *)
(***************************************************************************)
EXTENDS GatewayRegistration, GatewayProofs

\* Responses stay true as long as accounts stay and new responses are true.
LEMMA ServeStep ==
    ASSUME RegistrationInv, NEW c \in Calls, Serve(c)
    PROVE  /\ RegistrationInv'
           /\ UNCHANGED <<circuit, req>>
           /\ \/ UNCHANGED account
              \/ /\ account[EmailOf(c)] = NoAccount
                 /\ account' = [account EXCEPT ![EmailOf(c)] = c]
<1> USE DEF RegistrationInv, ResponsesTrue, Functional
<1>1. \A d \in Calls : EmailOf(d) \in Emails
  BY DEF EmailOf, Emails, Calls
<1>2. {"500", "409", "201"} \subseteq Statuses /\ GatewayTypeOK
  BY DEF Statuses, Functional, GatewayInv
<1>3. CASE Find(c)
  <2>1. CASE account[EmailOf(c)] # NoAccount
    BY <1>1, <1>2, <1>3, <2>1, ReplyFacts, ServiceStep DEF Find, TypeOK, GatewayInv
  <2>2. CASE account[EmailOf(c)] = NoAccount
    <3>1. call' = [call EXCEPT ![c] = "running"] /\ UNCHANGED <<circuit, req, account>>
      BY <1>3, <2>2 DEF Find
    <3>2. call' \in [Calls -> CallState]
      BY <1>2, <3>1 DEF GatewayTypeOK, CallState
    <3>3. GatewayInv'
      BY <1>2, <3>1, <3>2, ServiceStep DEF GatewayTypeOK
    <3> QED BY <1>2, <3>1, <3>3 DEF TypeOK, GatewayInv, GatewayTypeOK, EmailOf
  <2> QED BY <2>1, <2>2
<1>4. CASE Save(c)
  <2>1. CASE account[EmailOf(c)] # NoAccount
    BY <1>1, <1>2, <1>4, <2>1, ReplyFacts, ServiceStep DEF Save, TypeOK, GatewayInv
  <2>2. CASE account[EmailOf(c)] = NoAccount
    <3>1. /\ account' = [account EXCEPT ![EmailOf(c)] = c]
          /\ Reply(c, "201") /\ UNCHANGED <<circuit, req>> /\ call[c] = "running"
      BY <1>4, <2>2 DEF Save
    <3>2. GatewayInv'
      BY <1>2, <3>1, ReplyFacts, ServiceStep
    <3>3. account' \in [Emails -> Calls \cup {NoAccount}]
      BY <1>1, <3>1 DEF TypeOK
    <3>4. ResponsesTrue'
      BY <1>1, <1>2, <2>2, <3>1, ReplyFacts, RegistrationAssumption DEF TypeOK, EmailOf
    <3> QED BY <2>2, <3>1, <3>2, <3>3, <3>4 DEF TypeOK, GatewayInv
  <2> QED BY <2>1, <2>2
<1>5. CASE DatabaseFails(c)
  BY <1>1, <1>2, <1>5, ReplyFacts, ServiceStep DEF DatabaseFails, TypeOK, GatewayInv
<1> QED BY <1>3, <1>4, <1>5 DEF Serve

\* The gateway makes no response.
LEMMA GatewayKeepsResponses ==
    ASSUME RegistrationInv, GatewayNext, UNCHANGED account
    PROVE  RegistrationInv'
<1> USE DEF RegistrationInv
<1>1. GatewayInv'
  BY GatewayInvStep
<1>2. \A c \in Calls : call'[c] \in {call[c], "sent", "gone"}
  BY DEF GatewayInv, GatewayTypeOK, GatewayNext, GatewayStep, PeriodPasses, Refuse, Admit,
         Succeed, AttemptFails, Retry
<1> QED BY <1>1, <1>2 DEF ResponsesTrue, TypeOK, GatewayInv, EmailOf, Functional

\* RegistrationInv is an invariant.
LEMMA RegistrationInvariance == Spec => []RegistrationInv
<1>1. Init => RegistrationInv
  BY GatewayInvInit DEF Init, RegistrationInv, TypeOK, GatewayInv, ResponsesTrue, GatewayInit, Functional
<1>2. RegistrationInv /\ [Next]_vars => RegistrationInv'
  <2> SUFFICES ASSUME RegistrationInv, [Next]_vars PROVE RegistrationInv'
    OBVIOUS
  <2>1. CASE UNCHANGED vars
    <3>1. GatewayInv'
      BY <2>1, ServiceStep DEF vars, RegistrationInv, GatewayInv, GatewayTypeOK
    <3> QED BY <2>1, <3>1 DEF vars, RegistrationInv, TypeOK, GatewayInv, ResponsesTrue, EmailOf
  <2> QED BY <2>1, ServeStep, GatewayKeepsResponses DEF Next
<1> QED BY <1>1, <1>2, PTL DEF Spec

\* Every variable of the gateway and of users-service keeps its type.
THEOREM GatewayTypes == Spec => []TypeOK
<1>1. RegistrationInv => TypeOK
  BY DEF RegistrationInv
<1> QED BY <1>1, RegistrationInvariance, PTL

\* The circuit is closed exactly below the threshold, for any overlap of
\* executions.
THEOREM CircuitCounts == Spec => []CircuitCountsFailures
<1>1. RegistrationInv => CircuitCountsFailures
  BY DEF RegistrationInv, GatewayInv
<1> QED BY <1>1, RegistrationInvariance, PTL

\* The circuit opens only after a threshold of exhausted requests.
THEOREM CircuitOpening == Spec => []OpensAfterExhaustion
<1>1. RegistrationInv => OpensAfterExhaustion
  <2> SUFFICES ASSUME RegistrationInv, circuit.state # "CLOSE"
               PROVE  Cardinality(Exhausted) >= FailureThreshold
    BY DEF OpensAfterExhaustion
  <2> QED
    BY RequestSets, ExhaustedRequests, ThresholdAssumption
       DEF RegistrationInv, GatewayInv, GatewayTypeOK, CircuitState,
           CircuitCountsFailures, FailuresBounded
<1> QED BY <1>1, RegistrationInvariance, PTL

-----------------------------------------------------------------------------
(* The refinement of Accounts. *)

\* The abstract owners: the requests whose calls inserted the rows.
Owner == [e \in Emails |-> IF account[e] = NoAccount THEN NoAccount ELSE account[e][1]]

Told == [r \in Requests |-> Status(r)]

\* A row that a call inserts is an account that its request makes.
LEMMA ServeRefines ==
    ASSUME RegistrationInv, NEW c \in Calls, Serve(c)
    PROVE  [Promise!Next]_Promise!vars
<1>1. Told' = Told
  BY ServeStep DEF Told, Status
<1>2. CASE UNCHANGED account
  BY <1>1, <1>2 DEF Promise!vars, Told
<1>3. CASE /\ account[EmailOf(c)] = NoAccount
           /\ account' = [account EXCEPT ![EmailOf(c)] = c]
  <2>1. c[1] \in Requests /\ EmailOf(c) \in Emails /\ Email[c[1]] = EmailOf(c)
    BY DEF Calls, EmailOf, Emails
  <2>2. c # NoAccount
    BY RegistrationAssumption
  <2>3. Owner[EmailOf(c)] = NoAccount /\ Owner' = [Owner EXCEPT ![EmailOf(c)] = c[1]]
    BY <1>3, <2>1, <2>2 DEF Owner, RegistrationInv, TypeOK
  <2>4. Promise!Register(c[1])
    BY <1>1, <2>1, <2>3 DEF Promise!Register, Owner, Told
  <2> QED BY <2>1, <2>4 DEF Promise!Next
<1> QED BY <1>2, <1>3, ServeStep

\* An answer of the gateway is one that Accounts allows.
LEMMA TellRefines ==
    ASSUME RegistrationInv, UNCHANGED account, NEW r \in Requests,
           req[r].answer = "none",
           NEW status \in {"201", "409", "503"},
           Answer(r, IF status = "503" THEN "fallback" ELSE status),
           status = "201" => Owner[Email[r]] = r,
           status = "409" => Owner[Email[r]] # NoAccount
    PROVE  Promise!Next
<1>1. Told[r] = "none" /\ Told' = [Told EXCEPT ![r] = status]
  BY DEF Told, Status, Answer, RegistrationInv, GatewayInv, GatewayTypeOK, Request
<1>2. Owner' = Owner
  BY DEF Owner
<1>3. Promise!Tell(r, status)
  BY <1>1, <1>2 DEF Promise!Tell, Owner, Told
<1> QED BY <1>3 DEF Promise!Next

\* A response that becomes the answer tells the truth about the owners.
LEMMA SucceedRefines ==
    ASSUME RegistrationInv, UNCHANGED account, NEW r \in Requests, Succeed(r)
    PROVE  Promise!Next
<1> DEFINE c == Awaited(r)
<1>1. c \in Calls /\ c[1] = r /\ EmailOf(c) = Email[r] /\ Email[r] \in Emails
  BY DEF Awaited, Calls, EmailOf, Emails, RegistrationInv, GatewayInv, GatewayTypeOK, Request
<1>2. call[c] \in {"201", "409"}
  BY <1>1 DEF Succeed, Functional, RegistrationInv, ResponsesTrue
<1>3. call[c] = "201" => Owner[Email[r]] = r
  BY <1>1, RegistrationAssumption DEF Owner, RegistrationInv, ResponsesTrue
<1>4. call[c] = "409" => Owner[Email[r]] # NoAccount
  <2> SUFFICES ASSUME call[c] = "409" PROVE Owner[Email[r]] # NoAccount
    OBVIOUS
  <2>1. account[Email[r]] \in Calls
    BY <1>1 DEF RegistrationInv, ResponsesTrue, TypeOK
  <2> QED BY <1>1, <2>1, RegistrationAssumption DEF Owner, Calls
<1>5. req[r].answer = "none" /\ Answer(r, call[c])
  BY DEF Succeed, RegistrationInv, GatewayInv, RequestOK
<1> QED BY <1>2, <1>3, <1>4, <1>5, TellRefines

\* A client that is told 503 is promised nothing; the other steps tell nothing.
LEMMA GatewayRefines ==
    ASSUME RegistrationInv, UNCHANGED account, GatewayNext
    PROVE  [Promise!Next]_Promise!vars
<1> USE DEF RegistrationInv, GatewayInv, RequestOK
<1>1. ASSUME NEW r \in Requests, req[r].pc # "answered", Answer(r, "fallback")
      PROVE  Promise!Next
  BY <1>1, TellRefines
<1>2. ASSUME Told' = Told PROVE UNCHANGED Promise!vars
  BY <1>2 DEF Promise!vars, Told, Status
<1>3. ASSUME NEW r \in Requests, Refuse(r) PROVE Promise!Next
  BY <1>1, <1>3 DEF Refuse
<1>4. ASSUME NEW r \in Requests, AttemptFails(r) PROVE [Promise!Next]_Promise!vars
  <2>1. CASE Exhaust(r)
    BY <1>1, <1>4, <2>1 DEF AttemptFails, Exhaust
  <2>2. CASE BackOff(r)
    BY <1>2, <2>2 DEF BackOff, Told, Status, GatewayTypeOK, Request
  <2> QED BY <1>4, <2>1, <2>2 DEF AttemptFails
<1>5. ASSUME NEW r \in Requests, Admit(r) \/ Retry(r) PROVE UNCHANGED Promise!vars
  BY <1>2, <1>5 DEF Admit, Retry, Told, Status, GatewayTypeOK, Request
<1>6. ASSUME PeriodPasses PROVE UNCHANGED Promise!vars
  BY <1>2, <1>6 DEF PeriodPasses, Told, Status
<1> QED BY <1>3, <1>4, <1>5, <1>6, SucceedRefines DEF GatewayNext, GatewayStep

\* Registration through the gateway implements Accounts.
THEOREM RegistrationRefinement == Spec => AccountsRefined
<1>1. Init => Promise!Init
  BY DEF Init, GatewayInit, Promise!Init, Emails, Promise!Emails, Status
<1>2. RegistrationInv /\ [Next]_vars => [Promise!Next]_Promise!vars
  BY ServeRefines, GatewayRefines DEF Next, vars, Promise!vars, Status
<1> QED BY <1>1, <1>2, RegistrationInvariance, PTL DEF Spec, AccountsRefined, Promise!Spec

=============================================================================
