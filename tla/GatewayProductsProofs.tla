------------------------- MODULE GatewayProductsProofs -------------------------
(***************************************************************************)
(* Proofs about GatewayProducts for any requests, paths, retries and       *)
(* threshold.  The invariant of the gateway comes from GatewayProofs; the  *)
(* rest is shown part by part, one lemma for each part of ProductsInv.     *)
(***************************************************************************)
EXTENDS GatewayProducts, GatewayProofs

\* The steps of the service that answer call c, with what they answer.
Serves(c, status) ==
    /\ call[c] = "sent"
    /\ Reply(c, status)
    /\ UNCHANGED <<circuit, req, guardVars, known, cache, fallback>>

\* What serves a call: a list, one product or none, a creation or a failure.
LEMMA ServiceSteps ==
    ASSUME NEW c \in Calls, FindAll(c) \/ FindOne(c) \/ Create(c) \/ Breaks(c)
    PROVE  \E status \in {"200", "404", "401", "403", "201", "500"} :
             /\ Serves(c, status)
             /\ status \in {"200", "404"} => c[1] \in Reads
             /\ status = "403" => c[1] \notin sellers
             /\ products' = IF status = "201" THEN products \cup {c} ELSE products
             /\ status = "201" => c[1] \in sellers
             /\ status \in {"401", "403", "201", "500"} => UNCHANGED <<body, late>>
             /\ status = "200" => Respond(c, "200", Selected(c))
             /\ status = "404" => Respond(c, "404", Selected(c)) /\ Selected(c) = {}
<1>1. CASE FindAll(c)
  BY <1>1 DEF FindAll, Respond, Serves
<1>2. CASE FindOne(c)
  BY <1>2 DEF FindOne, Respond, Serves
<1>3. CASE Create(c)
  BY <1>3 DEF Create, Unauthorized, Insert, Serves
<1>4. CASE Breaks(c)
  BY <1>4 DEF Breaks, Serves, catalogVars
<1> QED BY <1>1, <1>2, <1>3, <1>4

\* A call of the service is answered, or its answer is gone.
LEMMA ServesFacts ==
    ASSUME GatewayTypeOK, NEW c \in Calls,
           NEW status \in {"200", "404", "401", "403", "201", "500"}, Serves(c, status)
    PROVE  /\ call' \in [Calls -> CallState]
           /\ \A d \in Calls : call[d] # "none" => call'[d] # "none"
           /\ \A d \in Calls : call'[d] = call[d] \/ (d = c /\ call'[d] \in {status, "gone"})
           /\ UNCHANGED <<circuit, req, guardVars, known, cache, fallback>>
<1>1. status \in Statuses /\ call[c] # "none" /\ Reply(c, status)
  BY DEF Statuses, Functional, Serves
<1> QED BY <1>1, ReplyFacts DEF Serves

\* The steps that leave the gateway and its calls alone.
Aside ==
    \/ \E r \in Requests : (\E p \in Paths : Read(r, p)) \/ Authorize(r) \/ TokenExpires(r)
    \/ \E c \in Calls : LateAnswer(c)
    \/ \E p \in Paths : Expire(p)

\* The steps of the gateway, which leave products-service alone.
Proxies(r) == Refused(r) \/ Sent(r) \/ Answered(r) \/ Failed(r) \/ Retried(r)

\* Every step is of one of four kinds.
LEMMA NextKinds ==
    ASSUME Next
    PROVE  \/ Aside
           \/ \E r \in Requests : Proxies(r)
           \/ \E c \in Calls : FindAll(c) \/ FindOne(c) \/ Create(c) \/ Breaks(c)
           \/ PeriodPasses /\ UNCHANGED catalogVars
  BY DEF Next, Aside, Proxies

LEMMA AsideFrame ==
    ASSUME Aside PROVE UNCHANGED <<circuit, req, call, sellers, products, body, known, fallback>>
  BY DEF Aside, Read, Authorize, TokenExpires, LateAnswer, Expire, guardVars

LEMMA ProxiesFrame ==
    ASSUME NEW r \in Requests, Proxies(r)
    PROVE  /\ UNCHANGED <<guardVars, route, sellers, products>>
           /\ Refuse(r) \/ Admit(r) \/ Succeed(r) \/ AttemptFails(r) \/ Retry(r)
  BY DEF Proxies, Refused, Sent, Answered, Failed, Retried, catalogVars, guardVars

-----------------------------------------------------------------------------
(* The parts of the invariant. *)

LEMMA GatewayPart ==
    ASSUME ProductsInv, Next PROVE GatewayInv'
<1> USE DEF ProductsInv
<1>1. CASE Aside
  BY <1>1, AsideFrame, ServiceStep DEF GatewayInv, GatewayTypeOK
<1>2. ASSUME NEW r \in Requests, Proxies(r) PROVE GatewayInv'
  <2>1. GatewayNext
    BY <1>2, ProxiesFrame DEF GatewayNext, GatewayStep
  <2> QED BY <2>1, GatewayInvStep
<1>3. ASSUME NEW c \in Calls, FindAll(c) \/ FindOne(c) \/ Create(c) \/ Breaks(c)
      PROVE  GatewayInv'
  BY <1>3, ServiceSteps, ServesFacts, ServiceStep DEF GatewayInv
<1>4. CASE PeriodPasses
  BY <1>4, GatewayInvStep DEF GatewayNext
<1> QED BY <1>1, <1>2, <1>3, <1>4, NextKinds

\* What clients know is stored.
LEMMA KnownStored ==
    ASSUME ProductsInv PROVE Confirmed \cup Shown \subseteq products
<1>1. \A s \in Creates : Status(s) = "201" => Awaited(s) \in products
  BY DEF ProductsInv, CreationsTrue, Status
<1>2. \A s \in Reads : body[s] \subseteq products
  BY DEF ProductsInv, TypeOK
<1> QED BY <1>1, <1>2 DEF Confirmed, Shown

\* Routes, cache, late calls and fallbacks of a request fit what it is.
LEMMA TypePart ==
    ASSUME ProductsInv, GatewayInv', Next PROVE TypeOK'
<1> USE DEF TypeOK
<1>1. TypeOK /\ RoutesFit /\ GatewayTypeOK'
  BY DEF ProductsInv, GatewayInv
<1>2. CASE Aside
  <2>1. \A r \in Requests, p \in Paths : Read(r, p) => TypeOK'
    BY <1>1 DEF Read
  <2>2. \A r \in Requests : Authorize(r) \/ TokenExpires(r) => TypeOK'
    BY <1>1 DEF Authorize, TokenExpires
  <2>3. \A c \in Calls : LateAnswer(c) => TypeOK'
    BY <1>1 DEF LateAnswer, Remember, guardVars, Entry
  <2>4. \A p \in Paths : Expire(p) => TypeOK'
    BY <1>1 DEF Expire, guardVars, Entry
  <2> QED BY <1>2, <2>1, <2>2, <2>3, <2>4 DEF Aside
<1>3. ASSUME NEW r \in Requests, Proxies(r) PROVE TypeOK'
  <2>1. CASE Refused(r)
    BY <1>1, <2>1 DEF Refused, FallBack, guardVars
  <2>2. CASE Sent(r)
    BY <1>1, <2>2, KnownStored DEF Sent, guardVars
  <2>3. CASE Answered(r)
    BY <1>1, <2>3 DEF Answered, Remember, guardVars, Entry
  <2>4. CASE Failed(r)
    <3>1. fallback' \in [Requests -> {"none", "error", "default", "cached"}]
      BY <1>1, <2>4 DEF Failed, FallBack
    <3>2. late' \subseteq Reads \X Attempts
      BY <1>1, <2>4 DEF Failed, Awaited, GatewayTypeOK, Request
    <3>3. body' \in [Reads -> SUBSET products']
      BY <1>1, <2>4 DEF Failed
    <3> QED BY <1>1, <2>4, <3>1, <3>2, <3>3 DEF Failed, guardVars
  <2>5. CASE Retried(r)
    BY <1>1, <2>5 DEF Retried, catalogVars, guardVars
  <2> QED BY <1>3, <2>1, <2>2, <2>3, <2>4, <2>5 DEF Proxies
<1>4. ASSUME NEW c \in Calls, FindAll(c) \/ FindOne(c) \/ Create(c) \/ Breaks(c)
      PROVE  TypeOK'
  <2>1. PICK status \in {"200", "404", "401", "403", "201", "500"} :
          /\ Serves(c, status)
          /\ status \in {"200", "404"} => c[1] \in Reads
          /\ products' = IF status = "201" THEN products \cup {c} ELSE products
          /\ status = "201" => c[1] \in sellers
          /\ status \in {"401", "403", "201", "500"} => UNCHANGED <<body, late>>
          /\ status = "200" => Respond(c, "200", Selected(c))
          /\ status = "404" => Respond(c, "404", Selected(c)) /\ Selected(c) = {}
    BY <1>4, ServiceSteps
  <2>2. c = <<c[1], c[2]>> /\ c[2] \in Attempts /\ c[1] \in Requests
    BY DEF Calls
  <2>3. products' \subseteq sellers \X Attempts
    BY <1>1, <2>1, <2>2
  <2>4. Selected(c) \subseteq products /\ products \subseteq products'
    BY <2>1 DEF Selected
  <2>5. body' \in [Reads -> SUBSET products'] /\ late' \subseteq Reads \X Attempts
    <3>1. CASE status \in {"200", "404"}
      BY <1>1, <2>1, <2>2, <2>4, <3>1 DEF Respond
    <3> QED BY <1>1, <2>1, <3>1
  <2> QED BY <1>1, <2>1, <2>3, <2>5 DEF Serves, guardVars
<1>5. CASE PeriodPasses /\ UNCHANGED catalogVars
  BY <1>1, <1>5 DEF catalogVars, guardVars
<1> QED BY <1>2, <1>3, <1>4, <1>5, NextKinds

LEMMA RoutesPart ==
    ASSUME ProductsInv, Next PROVE RoutesFit'
<1>1. /\ RoutesFit /\ req \in [Requests -> Request]
      /\ route \in [Requests -> Paths \cup {"new", "create", "401"}]
      /\ \A r \in Requests : r \in Creates <=> r \notin Reads
  BY ProductsAssumption DEF ProductsInv, TypeOK, GatewayTypeOK, Reads
<1>2. CASE Aside
  <2>1. UNCHANGED req
    BY <1>2, AsideFrame
  <2>2. \/ UNCHANGED route
        \/ \E r \in Reads, p \in Paths : route[r] = "new" /\ route' = [route EXCEPT ![r] = p]
        \/ \E r \in Creates \cap Requests, p \in {"create", "401"} :
             route[r] = "new" /\ route' = [route EXCEPT ![r] = p]
    BY <1>2 DEF Aside, Read, Authorize, TokenExpires, LateAnswer, Expire, guardVars
  <2>3. \A r \in Requests : route[r] = "new" => req[r].pc = "idle"
    BY <1>1, ProductsAssumption DEF RoutesFit, Past, Paths
  <2> QED BY <1>1, <2>1, <2>2, <2>3 DEF RoutesFit, Past, Reads
<1>3. ASSUME NEW r \in Requests, Proxies(r) PROVE RoutesFit'
  <2>1. UNCHANGED route
    BY <1>3, ProxiesFrame
  <2>2. Past(r)
    BY <1>1, <1>3 DEF RoutesFit, Proxies, Refused, Sent, Answered, Failed, Retried,
                      Succeed, AttemptFails, Retry
  <2>3. \A q \in Requests : q # r => req'[q] = req[q]
    BY <1>1, <1>3, ProxiesFrame
       DEF Refuse, Admit, Succeed, AttemptFails, Exhaust, BackOff, Retry, Answer
  <2> QED BY <1>1, <2>1, <2>2, <2>3 DEF RoutesFit, Past
<1>4. ASSUME NEW c \in Calls, FindAll(c) \/ FindOne(c) \/ Create(c) \/ Breaks(c)
      PROVE  RoutesFit'
  BY <1>1, <1>4, ServiceSteps DEF Serves, guardVars, RoutesFit, Past
<1>5. CASE PeriodPasses /\ UNCHANGED catalogVars
  BY <1>1, <1>5 DEF PeriodPasses, catalogVars, guardVars, RoutesFit, Past
<1> QED BY <1>2, <1>3, <1>4, <1>5, NextKinds

\* What the steps of the gateway do to calls and to answers.
LEMMA ProxyEffects ==
    ASSUME GatewayInv, NEW r \in Requests, Proxies(r)
    PROVE  /\ Awaited(r) \in Calls
           /\ \A c \in Calls : call'[c] \in {call[c], "sent", "gone"}
           /\ \A q \in Requests : q # r => req'[q] = req[q] /\ Awaited(q)' = Awaited(q)
           /\ \A c \in Calls : c[1] # r => call'[c] = call[c]
           /\ req'[r].pc = "calling" => call'[Awaited(r)'] = "sent"
           /\ req'[r].answer \in Functional =>
                /\ Succeed(r)
                /\ req'[r].answer = call[Awaited(r)]
           /\ req'[r].pc = "calling" => req'[r].answer = "none"
<1>1. /\ req \in [Requests -> Request] /\ call \in [Calls -> CallState]
      /\ RequestOK(r)
  BY DEF GatewayInv, GatewayTypeOK
<1>2. Awaited(r) \in Calls
  BY <1>1 DEF Awaited, Calls, Request
<1>3. <<r, 0>> \in Calls
  BY AttemptNumbers DEF Calls
<1>4. CASE Refuse(r)
  BY <1>1, <1>2, <1>4 DEF Refuse, Answer, Awaited, Functional
<1>5. CASE Admit(r)
  BY <1>1, <1>2, <1>3, <1>5 DEF Admit, Awaited, Functional, RequestOK, Calls
<1>6. CASE Succeed(r)
  BY <1>1, <1>2, <1>6 DEF Succeed, Answer, Awaited, Calls
<1>7. CASE AttemptFails(r)
  <2>1. \A c \in Calls :
          /\ call'[c] \in {call[c], "gone"}
          /\ c[1] # r => call'[c] = call[c]
    BY <1>1, <1>2, <1>7 DEF AttemptFails, Awaited
  <2>2. /\ \A q \in Requests : q # r => req'[q] = req[q]
        /\ req'[r].pc \in {"answered", "delay"}
        /\ req'[r].answer \in {"none", "fallback"}
    BY <1>1, <1>7 DEF AttemptFails, Exhaust, BackOff, Answer, RequestOK, Request
  <2> QED BY <1>2, <2>1, <2>2 DEF Awaited, Functional
<1>8. CASE Retry(r)
  <2>1. <<r, req[r].attempt + 1>> \in Calls
    BY <1>1, <1>8, AttemptNumbers DEF Retry, Calls, RequestOK, Request
  <2> QED BY <1>1, <1>2, <1>8, <2>1 DEF Retry, Awaited, Functional, RequestOK, Calls
<1> QED BY <1>4, <1>5, <1>6, <1>7, <1>8, ProxiesFrame

\* A creation answers 201 with its row and 403 without one.
LEMMA CreationsPart ==
    ASSUME ProductsInv, Next PROVE CreationsTrue'
<1>1. /\ CreationsTrue /\ GatewayInv /\ GatewayTypeOK /\ Creates \subseteq Requests
      /\ \A r \in Creates : r \notin Reads
  BY ProductsAssumption DEF ProductsInv, GatewayInv, Reads
<1>2. CASE Aside
  BY <1>1, <1>2, AsideFrame DEF CreationsTrue, Awaited
<1>3. ASSUME NEW r \in Requests, Proxies(r) PROVE CreationsTrue'
  <2>1. UNCHANGED <<products, sellers>>
    BY <1>3, ProxiesFrame
  <2>2. \A c \in Calls : c[1] \in Creates =>
          /\ call'[c] = "201" => c \in products
          /\ call'[c] = "403" => c[1] \notin sellers
    BY <1>1, <1>3, ProxyEffects DEF CreationsTrue
  <2>3. ASSUME NEW q \in Creates
        PROVE  /\ req'[q].answer = "201" => Awaited(q)' \in products
               /\ req'[q].answer = "403" => q \notin sellers
    <3>1. CASE q # r
      <4>1. req'[q] = req[q] /\ Awaited(q)' = Awaited(q)
        BY <1>1, <1>3, <3>1, ProxyEffects
      <4> QED BY <1>1, <4>1 DEF CreationsTrue
    <3>2. CASE q = r /\ req'[r].answer \in {"201", "403"}
      <4>1. req'[r].answer = call[Awaited(r)] /\ Awaited(r) \in Calls
        BY <1>1, <1>3, <3>2, ProxyEffects DEF Functional
      <4>2. Awaited(r)[1] = r /\ req[r].attempt \in Attempts /\ Awaited(r)' = Awaited(r)
        <5>1. Succeed(r)
          BY <1>1, <1>3, <3>2, ProxyEffects DEF Functional
        <5>2. req'[r].attempt = req[r].attempt /\ req[r].attempt \in Attempts
          BY <1>1, <5>1 DEF Succeed, Answer, GatewayTypeOK, Request
        <5> QED BY <5>2 DEF Awaited
      <4> QED BY <1>1, <3>2, <4>1, <4>2 DEF CreationsTrue, Awaited
    <3> QED BY <3>1, <3>2
  <2> QED BY <2>1, <2>2, <2>3 DEF CreationsTrue
<1>4. ASSUME NEW c \in Calls, FindAll(c) \/ FindOne(c) \/ Create(c) \/ Breaks(c)
      PROVE  CreationsTrue'
  <2>1. PICK status \in {"200", "404", "401", "403", "201", "500"} :
          /\ Serves(c, status)
          /\ status = "403" => c[1] \notin sellers
          /\ products' = IF status = "201" THEN products \cup {c} ELSE products
    BY <1>4, ServiceSteps
  <2>2. /\ UNCHANGED <<req, sellers>>
        /\ \A d \in Calls : call'[d] = call[d] \/ (d = c /\ call'[d] \in {status, "gone"})
    BY <1>1, <2>1, ServesFacts DEF guardVars
  <2>3. \A q \in Creates : Awaited(q)' = Awaited(q)
    BY <2>2 DEF Awaited
  <2> QED BY <1>1, <2>1, <2>2, <2>3 DEF CreationsTrue
<1>5. CASE PeriodPasses /\ UNCHANGED catalogVars
  BY <1>1, <1>5 DEF PeriodPasses, catalogVars, guardVars, CreationsTrue, Awaited
<1> QED BY <1>2, <1>3, <1>4, <1>5, NextKinds

\* A response that waits for its reader has what was known when the read was sent,
\* and so has the answer that it becomes.
LEMMA ReadsPart ==
    ASSUME ProductsInv, Next PROVE ReadsCurrent' /\ AnswersCurrent'
<1>1. /\ ReadsCurrent /\ AnswersCurrent /\ GatewayInv /\ GatewayTypeOK /\ TypeOK /\ RoutesFit
      /\ Reads \subseteq Requests
  BY DEF ProductsInv, GatewayInv, Reads
<1>2. CASE Aside
  <2>1. /\ UNCHANGED <<req, call, body, known>>
        /\ \A q \in Reads : Awaited(q)' = Awaited(q)
    BY <1>2, AsideFrame DEF Awaited
  <2>2. \A q \in Reads : req[q].pc # "idle" => route'[q] = route[q]
    <3>1. \A q \in Reads : req[q].pc # "idle" => route[q] # "new"
      BY <1>1, ProductsAssumption DEF RoutesFit, Past, Paths
    <3>2. \A q \in Requests : route'[q] = route[q] \/ route[q] = "new"
      BY <1>1, <1>2 DEF Aside, Read, Authorize, TokenExpires, LateAnswer, Expire, guardVars, TypeOK
    <3> QED BY <1>1, <3>1, <3>2
  <2>3. \A q \in Reads : req[q].pc = "idle" => req[q].answer = "none"
    BY <1>1 DEF GatewayInv, RequestOK
  <2> QED BY <1>1, <2>1, <2>2, <2>3 DEF ReadsCurrent, AnswersCurrent, Complete
<1>3. ASSUME NEW r \in Requests, Proxies(r) PROVE ReadsCurrent' /\ AnswersCurrent'
  <2>1. UNCHANGED route
    BY <1>3, ProxiesFrame
  <2>2. \A q \in Reads : q # r => body'[q] = body[q] /\ known'[q] = known[q]
    BY <1>1, <1>3
       DEF TypeOK, Proxies, Refused, Sent, Answered, Failed, Retried, catalogVars
  <2>3. ASSUME NEW q \in Reads, q # r
        PROVE  /\ req'[q] = req[q] /\ Awaited(q)' = Awaited(q)
               /\ call'[Awaited(q)] = call[Awaited(q)]
    <3>1. Awaited(q) \in Calls /\ Awaited(q)[1] = q
      BY <1>1 DEF Awaited, Calls, GatewayTypeOK, Request
    <3> QED BY <1>1, <1>3, <2>3, <3>1, ProxyEffects
  <2>4. ASSUME NEW q \in Reads, req'[q].pc = "calling"
        PROVE  Complete(q, call[Awaited(q)])'
    <3>1. CASE q = r
      BY <1>1, <1>3, <2>4, <3>1, ProxyEffects DEF Complete
    <3>2. CASE q # r
      BY <1>1, <2>1, <2>2, <2>3, <2>4, <3>2 DEF ReadsCurrent, Complete
    <3> QED BY <3>1, <3>2
  <2>5. ASSUME NEW q \in Reads
        PROVE  Complete(q, req[q].answer)'
    <3>1. CASE q # r
      BY <1>1, <2>1, <2>2, <2>3, <3>1 DEF AnswersCurrent, Complete
    <3>2. CASE q = r /\ req'[q].answer \in {"200", "404"}
      <4>1. Succeed(r) /\ call[Awaited(r)] = req'[q].answer
        BY <1>1, <1>3, <3>2, ProxyEffects DEF Functional
      <4>2. Complete(r, req'[q].answer)
        BY <1>1, <3>2, <4>1 DEF ReadsCurrent, Succeed
      <4>3. req[r].pc = "calling" /\ req'[r].pc = "answered" /\ req'[r].answer \in {"200", "404"}
        BY <1>1, <3>2, <4>1 DEF Succeed, Answer, GatewayTypeOK, Request
      <4>4. Answered(r)
        BY <1>1, <1>3, <4>3 DEF Proxies, Refused, Sent, Failed, Retried, Refuse, Admit, Retry,
           AttemptFails, Exhaust, BackOff, Answer, GatewayTypeOK, Request
      <4> QED BY <2>1, <3>2, <4>2, <4>4 DEF Answered, Complete
    <3>3. CASE req'[q].answer \notin {"200", "404"}
      BY <3>3 DEF Complete
    <3> QED BY <3>1, <3>2, <3>3
  <2> QED BY <2>4, <2>5 DEF ReadsCurrent, AnswersCurrent
<1>4. ASSUME NEW c \in Calls, FindAll(c) \/ FindOne(c) \/ Create(c) \/ Breaks(c)
      PROVE  ReadsCurrent' /\ AnswersCurrent'
  <2>1. PICK status \in {"200", "404", "401", "403", "201", "500"} :
          /\ Serves(c, status)
          /\ status \in {"401", "403", "201", "500"} => UNCHANGED <<body, late>>
          /\ status = "200" => Respond(c, "200", Selected(c))
          /\ status = "404" => Respond(c, "404", Selected(c)) /\ Selected(c) = {}
    BY <1>4, ServiceSteps
  <2>2. /\ UNCHANGED <<req, known, route>> /\ call[c] = "sent"
        /\ \A d \in Calls : call'[d] = call[d] \/ (d = c /\ call'[d] \in {status, "gone"})
    BY <1>1, <2>1, ServesFacts DEF Serves, guardVars
  <2>3. \A q \in Reads :
          \/ body'[q] = body[q]
          \/ /\ req[q].pc = "calling" /\ Awaited(q) = c
             /\ status \in {"200", "404"}
    BY <1>1, <2>1 DEF Respond, TypeOK
  <2>4. ASSUME NEW q \in Reads PROVE Awaited(q) \in Calls /\ Awaited(q)' = Awaited(q)
    BY <1>1, <2>2 DEF Awaited, Calls, GatewayTypeOK, Request
  <2>5. ASSUME NEW q \in Reads, req'[q].pc = "calling"
        PROVE  Complete(q, call[Awaited(q)])'
    <3>1. CASE body'[q] = body[q] /\ call'[Awaited(q)] = call[Awaited(q)]
      BY <1>1, <2>2, <2>4, <2>5, <3>1 DEF ReadsCurrent, Complete
    <3>2. CASE Awaited(q) = c /\ status \in {"200", "404"}
      <4>1. c[1] = q /\ known[q] \subseteq products
        BY <1>1, <3>2 DEF Awaited, TypeOK
      <4>2. body'[q] = Selected(c)
        BY <1>1, <2>1, <2>2, <2>5, <3>2, <4>1 DEF Respond, TypeOK
      <4>3. call'[c] \in {status, "gone", "sent"}
        BY <2>2
      <4>4. known[q] \cap Shows[route[q]] \subseteq Selected(c)
        BY <4>1 DEF Selected
      <4> QED BY <2>1, <2>2, <2>4, <3>2, <4>2, <4>3, <4>4 DEF Complete
    <3>4. CASE call'[Awaited(q)] \notin {"200", "404"}
      BY <2>4, <3>4 DEF Complete
    <3> QED BY <2>2, <2>3, <2>4, <3>1, <3>2, <3>4
  <2>6. ASSUME NEW q \in Reads PROVE Complete(q, req[q].answer)'
    <3>1. CASE req[q].answer \in {"200", "404"}
      <4>1. req[q].pc # "calling"
        BY <1>1, <3>1 DEF GatewayInv, RequestOK
      <4> QED BY <1>1, <2>2, <2>3, <4>1 DEF AnswersCurrent, Complete
    <3>2. CASE req[q].answer \notin {"200", "404"}
      BY <2>2, <3>2 DEF Complete
    <3> QED BY <3>1, <3>2
  <2> QED BY <2>5, <2>6 DEF ReadsCurrent, AnswersCurrent
<1>5. CASE PeriodPasses /\ UNCHANGED catalogVars
  BY <1>1, <1>5
     DEF PeriodPasses, catalogVars, guardVars, ReadsCurrent, AnswersCurrent, Awaited, Complete
<1> QED BY <1>2, <1>3, <1>4, <1>5, NextKinds

\* Entries expire and are overwritten, but a path that has one keeps one.
LEMMA CachePart ==
    ASSUME ProductsInv, Next PROVE AnswersCached'
<1>1. /\ AnswersCached /\ GatewayInv /\ RoutesFit /\ Reads \subseteq Requests
      /\ cache \in [Paths -> Entry] /\ req \in [Requests -> Request]
      /\ route \in [Requests -> Paths \cup {"new", "create", "401"}]
  BY DEF ProductsInv, TypeOK, GatewayTypeOK, Reads
<1>2. \A q \in Reads : req[q].answer \in Functional => route[q] \in Paths
  BY <1>1, ProductsAssumption
     DEF GatewayInv, RequestOK, RoutesFit, Past, Paths, Functional, Reads
<1>3. \A p \in Paths : cache[p] # "none" => cache'[p] # "none"
  BY <1>1 DEF Next, Read, Authorize, TokenExpires, Refused, Sent, Answered, Failed, Retried,
     LateAnswer, FindAll, FindOne, Create, Breaks, Expire, Remember, catalogVars, Entry
<1>4. \A q \in Requests : route'[q] = route[q] \/ route[q] = "new"
  BY <1>1 DEF Next, Read, Authorize, TokenExpires, Refused, Sent, Answered, Failed, Retried,
     LateAnswer, FindAll, FindOne, Create, Breaks, Expire, catalogVars, guardVars
<1>5. \A q \in Reads : route[q] \in Paths => route'[q] = route[q]
  BY <1>1, <1>4, ProductsAssumption DEF Paths
<1>6. \/ UNCHANGED req
      \/ \E r \in Requests : Proxies(r)
  BY NextKinds, AsideFrame, ServiceSteps DEF Serves, PeriodPasses
<1>7. ASSUME NEW r \in Requests, Proxies(r), NEW q \in Reads, req'[q].answer \in Functional
      PROVE  cache'[route'[q]] # "none"
  <2>1. CASE req'[q] = req[q]
    BY <1>1, <1>2, <1>3, <1>5, <1>7, <2>1 DEF AnswersCached
  <2>2. CASE q = r
    <3>1. Succeed(r)
      BY <1>1, <1>7, <2>2, ProxyEffects
    <3>2. req[r].pc = "calling" /\ req'[r].pc = "answered" /\ req'[r].answer # "fallback"
      BY <1>1, <1>7, <2>2, <3>1 DEF Succeed, Answer, Request, Functional
    <3>3. Answered(r)
      BY <1>1, <1>7, <3>2 DEF Proxies, Refused, Sent, Failed, Retried, Refuse, Admit, Retry,
         AttemptFails, Exhaust, BackOff, Answer, Request
    <3>4. route[q] \in Paths
      BY <1>1, <2>2, <3>2, ProductsAssumption DEF RoutesFit, Past, Paths, Reads
    <3> QED BY <1>1, <1>5, <2>2, <3>3, <3>4 DEF Answered, Remember
  <2> QED BY <1>1, <1>7, <2>1, <2>2, ProxyEffects
<1>8. ASSUME UNCHANGED req, NEW q \in Reads, req'[q].answer \in Functional
      PROVE  cache'[route'[q]] # "none"
  BY <1>1, <1>2, <1>3, <1>5, <1>8 DEF AnswersCached
<1> QED BY <1>6, <1>7, <1>8 DEF AnswersCached

-----------------------------------------------------------------------------

LEMMA ProductsInvInit == Init => ProductsInv
<1> SUFFICES ASSUME Init PROVE ProductsInv
  OBVIOUS
<1>1. GatewayInv
  BY GatewayInvInit DEF Init
<1>2. /\ \A r \in Requests : req[r].answer = "none" /\ req[r].pc = "idle"
      /\ \A c \in Calls : call[c] = "none"
  BY DEF Init, GatewayInit
<1>3. TypeOK
  BY <1>1 DEF Init, TypeOK, GatewayInv, Entry
<1>4. RoutesFit
  BY <1>2 DEF Init, RoutesFit, Reads
<1>5. CreationsTrue /\ ReadsCurrent /\ AnswersCurrent /\ AnswersCached
  BY <1>2, ProductsAssumption
     DEF Init, CreationsTrue, ReadsCurrent, AnswersCurrent, Complete, AnswersCached, Functional,
         Reads
<1> QED BY <1>1, <1>3, <1>4, <1>5 DEF ProductsInv

LEMMA ProductsInvNext == ProductsInv /\ [Next]_vars => ProductsInv'
<1> SUFFICES ASSUME ProductsInv, [Next]_vars PROVE ProductsInv'
  OBVIOUS
<1>1. CASE Next
  <2>1. GatewayInv'
    BY <1>1, GatewayPart
  <2> QED BY <1>1, <2>1, TypePart, RoutesPart, CreationsPart, ReadsPart, CachePart
          DEF ProductsInv
<1>2. CASE UNCHANGED vars
  <2>1. UNCHANGED <<circuit, req, call, route, sellers, expired, products, body, known,
                    cache, late, fallback>>
    BY <1>2 DEF vars, catalogVars, guardVars
  <2>2. GatewayInv'
    BY <2>1, ServiceStep DEF ProductsInv, GatewayInv, GatewayTypeOK
  <2>3. TypeOK' /\ RoutesFit' /\ CreationsTrue'
    BY <2>1, <2>2 DEF ProductsInv, GatewayInv, TypeOK, RoutesFit, Past, CreationsTrue, Awaited
  <2>4. ReadsCurrent' /\ AnswersCurrent' /\ AnswersCached'
    BY <2>1 DEF ProductsInv, ReadsCurrent, Awaited, AnswersCurrent, Complete, AnswersCached
  <2> QED BY <2>2, <2>3, <2>4 DEF ProductsInv
<1> QED BY <1>1, <1>2

\* Every reachable state satisfies the inductive invariant.
THEOREM ProductsInvariance == Spec => []ProductsInv
  BY ProductsInvInit, ProductsInvNext, PTL DEF Spec

\* Every variable of the gateway, the guards, the cache and products-service
\* keeps its type.
THEOREM ProductsTypes == Spec => []TypeOK
<1>1. ProductsInv => TypeOK
  BY DEF ProductsInv
<1> QED BY <1>1, ProductsInvariance, PTL

\* A client that is told 201 has a product, one that is told 403 has none,
\* through any timeouts, retries and late calls.
THEOREM CreationsTold == Spec => []CreationsToldTrue
<1>1. ProductsInv => CreationsToldTrue
  <2> SUFFICES ASSUME ProductsInv, NEW r \in Creates
               PROVE  /\ Status(r) = "201" => \E k \in Attempts : <<r, k>> \in products
                      /\ Status(r) = "403" => \A k \in Attempts : <<r, k>> \notin products
    BY DEF CreationsToldTrue
  <2>1. Status(r) \in {"201", "403"} => Status(r) = req[r].answer
    BY DEF Status
  <2>2. Awaited(r) = <<r, req[r].attempt>> /\ req[r].attempt \in Attempts
    BY ProductsAssumption DEF ProductsInv, GatewayInv, GatewayTypeOK, Request, Awaited
  <2> QED BY <2>1, <2>2 DEF ProductsInv, CreationsTrue, TypeOK
<1> QED BY <1>1, ProductsInvariance, PTL

\* What a client was confirmed or shown when a read was sent is in the list that
\* products-service answers the read with, if the list is of all products or of that
\* product's seller, and is not answered 404, whichever attempt is answered.
THEOREM ListsCurrent == Spec => []AnswersCurrent
<1>1. ProductsInv => AnswersCurrent
  BY DEF ProductsInv
<1> QED BY <1>1, ProductsInvariance, PTL

\* The empty page of an outage is for a path without an entry, or with an expired
\* one.
THEOREM EmptyPages == Spec => EmptyPageOnlyUnanswered
<1>1. ASSUME ProductsInv, Next, NEW r \in Reads,
             fallback[r] = "none", fallback'[r] = "default"
      PROVE  \/ cache[route[r]] = "expired"
             \/ \A s \in Reads : route[s] = route[r] => req[s].answer \notin Functional
  <2>1. /\ fallback \in [Requests -> {"none", "error", "default", "cached"}]
        /\ cache \in [Paths -> Entry] /\ r \in Requests /\ RoutesFit /\ AnswersCached
    BY <1>1 DEF ProductsInv, TypeOK, Reads
  <2>2. \E q \in Requests : FallBack(q) /\ (Refused(q) \/ Failed(q))
    BY <1>1 DEF Next, Read, Authorize, TokenExpires, Refused, Sent, Answered, Failed, Retried,
       LateAnswer, FindAll, FindOne, Create, Breaks, Expire, catalogVars
  <2>3. FallBack(r) /\ (Refused(r) \/ Failed(r))
    BY <1>1, <2>1, <2>2 DEF FallBack
  <2>4. cache[route[r]] # "fresh"
    BY <1>1, <2>1, <2>3 DEF FallBack, Reads
  <2>5. route[r] \in Paths
    BY <1>1, <2>1, <2>3, ProductsAssumption
       DEF Refused, Failed, AttemptFails, RoutesFit, Past, Paths
  <2> QED BY <2>1, <2>4, <2>5 DEF Entry, AnswersCached
<1>2. ProductsInv /\ [Next]_vars =>
        [\A r \in Reads :
            (fallback[r] = "none" /\ fallback'[r] = "default")
                => \/ cache[route[r]] = "expired"
                   \/ \A s \in Reads : route[s] = route[r] =>
                          req[s].answer \notin Functional]_vars
  BY <1>1
<1> QED BY <1>2, ProductsInvariance, PTL DEF Spec, EmptyPageOnlyUnanswered

=============================================================================
