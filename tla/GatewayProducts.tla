---------------------------- MODULE GatewayProducts ----------------------------
(***************************************************************************)
(* The catalogue behind the api-gateway: public reads of products, which   *)
(* fill a cache and fall back on it, and POST /products, which the guard   *)
(* of the gateway and products-service both authorize.  Reads and          *)
(* creations share the circuit of products-service.                        *)
(***************************************************************************)
EXTENDS Gateway

CONSTANTS
    Creates,     \* the requests that are POST /products; the others read
    Lists,       \* the paths of lists: of all products, or of a seller's
    Items,       \* the paths of one product each, which may exist or not
    Shows        \* Shows[p]: the calls whose products the query of path p selects

ASSUME ProductsAssumption ==
    /\ Creates \subseteq Requests
    /\ Lists \cap Items = {}
    /\ {"new", "create", "401"} \cap (Lists \cup Items) = {}
    /\ Shows \in [Lists \cup Items -> SUBSET (Creates \X Attempts)]
    /\ \A p \in Lists : \A c \in Shows[p] : {c[1]} \X Attempts \subseteq Shows[p]
    /\ \A p \in Items : \A c, d \in Shows[p] : c = d

VARIABLES
    route,       \* route[r]: what request r is past the guards
    sellers,     \* the creations whose token is that of a seller
    expired,     \* the creations whose token has expired
    products,    \* the calls that inserted a product
    body,        \* body[r]: the products that the response awaited by r carries
    known,       \* known[r]: the products that clients knew when read r was sent
    cache,       \* cache[p]: the entry of path p
    late,        \* calls of reads whose response comes after their timeout
    fallback     \* fallback[r]: what the fallback of r did

guardVars == <<route, sellers, expired>>

catalogVars == <<guardVars, products, body, known, cache, late, fallback>>

vars == <<circuit, req, call, catalogVars>>

Reads == Requests \ Creates
Paths == Lists \cup Items

\* "expired" is an entry older than five minutes, also after the next read of
\* it has deleted it.
Entry == {"none", "fresh", "expired"}

TypeOK ==
    /\ GatewayTypeOK
    /\ route \in [Requests -> Paths \cup {"new", "create", "401"}]
    /\ sellers \subseteq Creates /\ expired \subseteq Creates
    /\ products \subseteq sellers \X Attempts
    /\ body \in [Reads -> SUBSET products]
    /\ known \in [Reads -> SUBSET products]
    /\ cache \in [Paths -> Entry]
    /\ late \subseteq Reads \X Attempts
    /\ fallback \in [Requests -> {"none", "error", "default", "cached"}]

Init ==
    /\ GatewayInit
    /\ route = [r \in Requests |-> "new"]
    /\ sellers \in SUBSET Creates
    /\ expired = {}
    /\ products = {}
    /\ body = [r \in Reads |-> {}]
    /\ known = [r \in Reads |-> {}]
    /\ cache = [p \in Paths |-> "none"]
    /\ late = {}
    /\ fallback = [r \in Requests |-> "none"]

\* What the client gets.  A cached body is no ProxyResponse: the controller reads
\* its status, which is undefined, and throws.
Status(r) ==
    CASE route[r] = "401"          -> "401"
      [] fallback[r] = "error"     -> "503"
      [] fallback[r] = "default"   -> "200"
      [] fallback[r] = "cached"    -> "500"
      [] OTHER                     -> req[r].answer

-----------------------------------------------------------------------------
(* Before the proxy. *)

\* A public handler: the guard lets the read pass.
Read(r, p) ==
    /\ r \in Reads /\ route[r] = "new"
    /\ route' = [route EXCEPT ![r] = p]
    /\ UNCHANGED <<circuit, req, call, sellers, expired, products, body, known, cache, late, fallback>>

\* validateJwtToken: users-service confirms the user of the token; or it says
\* anything else, or nothing in time.
ValidateToken == {"user", "401"}

\* JwtAuthGuard and JwtStrategy: the token is verified, then its user.
Authorize(r) ==
    /\ r \in Creates /\ route[r] = "new"
    /\ \E answer \in ValidateToken :
          route' = [route EXCEPT ![r] =
                       IF r \notin expired /\ answer = "user" THEN "create" ELSE "401"]
    /\ UNCHANGED <<circuit, req, call, sellers, expired, products, body, known, cache, late, fallback>>

TokenExpires(r) ==
    /\ r \in Creates \ expired
    /\ expired' = expired \cup {r}
    /\ UNCHANGED <<circuit, req, call, route, sellers, products, body, known, cache, late, fallback>>

-----------------------------------------------------------------------------
(* The proxy. *)

\* A faulty variant: only the first attempt of a read fills the cache.
RememberFirst(r) ==
    cache' = IF r \in Reads /\ req[r].attempt = 0
             THEN [cache EXCEPT ![route[r]] = "fresh"] ELSE cache

\* setCachedData: any answer below 500 to a read, one of 404 too.
Remember(r) ==
    cache' = IF r \in Reads THEN [cache EXCEPT ![route[r]] = "fresh"] ELSE cache

\* createServiceFallback: an error for a creation; for a read the cached body,
\* or an empty page.
FallBack(r) ==
    fallback' = [fallback EXCEPT ![r] =
                    CASE r \in Creates              -> "error"
                      [] cache[route[r]] = "fresh"  -> "cached"
                      [] OTHER                      -> "default"]

Past(r) == route[r] \in Paths \cup {"create"}

\* A request that the circuit refuses.
Refused(r) ==
    /\ Past(r)
    /\ Refuse(r)
    /\ FallBack(r)
    /\ UNCHANGED <<guardVars, products, body, known, cache, late>>

\* The products that clients know: those of confirmed creations, and those that
\* products-service has shown.
Confirmed == {Awaited(s) : s \in {q \in Creates : Status(q) = "201"}}
Shown     == UNION {body[s] : s \in {q \in Reads : req[q].answer = "200"}}

Sent(r) ==
    /\ Past(r)
    /\ Admit(r)
    /\ known' = IF r \in Reads THEN [known EXCEPT ![r] = Confirmed \cup Shown] ELSE known
    /\ UNCHANGED <<guardVars, products, body, cache, late, fallback>>

Answered(r) ==
    /\ Succeed(r)
    /\ Remember(r)
    /\ UNCHANGED <<guardVars, products, body, known, late, fallback>>

\* A response that lost the race is still to come.
Failed(r) ==
    /\ AttemptFails(r)
    /\ IF req'[r].pc = "answered" THEN FallBack(r) ELSE UNCHANGED fallback
    /\ late' = IF r \in Reads /\ call[Awaited(r)] \in Functional
               THEN late \cup {Awaited(r)} ELSE late
    /\ body' = IF r \in Reads THEN [body EXCEPT ![r] = {}] ELSE body
    /\ UNCHANGED <<guardVars, products, known, cache>>

Retried(r) ==
    /\ Retry(r)
    /\ UNCHANGED catalogVars

\* The operation of an attempt that timed out goes on, and fills the cache.
LateAnswer(c) ==
    /\ c \in late
    /\ late' = late \ {c}
    /\ Remember(c[1])
    /\ UNCHANGED <<circuit, req, call, guardVars, products, body, known, fallback>>

\* Five minutes pass since the entry was written.
Expire(p) ==
    /\ cache[p] = "fresh"
    /\ cache' = [cache EXCEPT ![p] = "expired"]
    /\ UNCHANGED <<circuit, req, call, guardVars, products, body, known, late, fallback>>

-----------------------------------------------------------------------------
(* products-service. *)

\* The response to a read, which goes on its way.
Respond(c, status, found) ==
    /\ Reply(c, status)
    /\ IF req[c[1]].pc = "calling" /\ Awaited(c[1]) = c
       THEN body' = [body EXCEPT ![c[1]] = found] /\ UNCHANGED late
       ELSE late' = late \cup {c} /\ UNCHANGED body

\* The rows that the query of the path of call c selects.
Selected(c) == products \cap Shows[route[c[1]]]

\* A faulty variant of FindAll: a list is read once.
FindAllOnce(c) ==
    /\ call[c] = "sent" /\ c[1] \in Reads /\ route[c[1]] \in Lists
    /\ \/ \E r \in Reads :
            /\ req[r].answer = "200" /\ route[r] = route[c[1]]
            /\ Respond(c, "200", body[r])
       \/ /\ \A r \in Reads : req[r].answer = "200" => route[r] # route[c[1]]
          /\ Respond(c, "200", Selected(c))
    /\ UNCHANGED <<circuit, req, guardVars, products, known, cache, fallback>>

\* findAll and findBySeller.
FindAll(c) ==
    /\ call[c] = "sent" /\ c[1] \in Reads /\ route[c[1]] \in Lists
    /\ Respond(c, "200", Selected(c))
    /\ UNCHANGED <<circuit, req, guardVars, products, known, cache, fallback>>

\* findOne: the product, or 404 without a row.
FindOne(c) ==
    /\ call[c] = "sent" /\ c[1] \in Reads /\ route[c[1]] \in Items
    /\ Respond(c, IF Selected(c) = {} THEN "404" ELSE "200", Selected(c))
    /\ UNCHANGED <<circuit, req, guardVars, products, known, cache, fallback>>

\* A faulty variant of Create: the row is saved before the role is looked at.
CreateThenCheck(c) ==
    /\ call[c] = "sent" /\ c[1] \in Creates
    /\ Reply(c, CASE c[1] \in expired -> "401"
                  [] c[1] \in sellers \ expired -> "201"
                  [] OTHER -> "403")
    /\ products' = IF c[1] \in expired THEN products ELSE products \cup {c}
    /\ UNCHANGED <<circuit, req, guardVars, body, known, cache, late, fallback>>

\* The guard of products-service verifies the token again.
Unauthorized(c) ==
    /\ c[1] \in expired
    /\ Reply(c, "401")
    /\ UNCHANGED products

\* ProductsService.create: every call inserts a product of its own.
Insert(c) ==
    /\ products' = products \cup {c}
    /\ Reply(c, "201")

\* POST /products: past the guard the controller looks at the role.
Create(c) ==
    /\ call[c] = "sent" /\ c[1] \in Creates
    /\ \/ Unauthorized(c)
       \/ c[1] \notin expired \cup sellers /\ Reply(c, "403") /\ UNCHANGED products
       \/ c[1] \in sellers \ expired /\ Insert(c)
    /\ UNCHANGED <<circuit, req, guardVars, body, known, cache, late, fallback>>

\* The database fails: 500, which the gateway takes for no answer.
Breaks(c) ==
    /\ call[c] = "sent"
    /\ Reply(c, "500")
    /\ UNCHANGED <<circuit, req, catalogVars>>

-----------------------------------------------------------------------------

Next ==
    \/ \E r \in Requests :
          \/ \E p \in Paths : Read(r, p)
          \/ Authorize(r) \/ TokenExpires(r)
          \/ Refused(r) \/ Sent(r) \/ Answered(r) \/ Failed(r) \/ Retried(r)
    \/ \E c \in Calls :
          LateAnswer(c) \/ FindAll(c) \/ FindOne(c) \/ Create(c) \/ Breaks(c)
    \/ \E p \in Paths : Expire(p)
    \/ PeriodPasses /\ UNCHANGED catalogVars

Spec == Init /\ [][Next]_vars

-----------------------------------------------------------------------------
(* Properties. *)

\* A client that is told 201 has a product, and one that is told 403 has none,
\* whatever the attempts that it never heard of did; only a seller has one
\* (ProductsController.create behind ProxyService.proxyRequest).
CreationsToldTrue ==
    \A r \in Creates :
        /\ Status(r) = "201" => \E k \in Attempts : <<r, k>> \in products
        /\ Status(r) = "403" => \A k \in Attempts : <<r, k>> \notin products

\* A response to read r with this status has what its path selects of the known.
Complete(r, status) ==
    LET due == known[r] \cap Shows[route[r]]
    IN  /\ status = "200" => due \subseteq body[r]
        /\ status = "404" => due = {}

\* What a client is confirmed or shown stays there for everybody: a list that comes
\* from products-service has every product of that list that some client knew when
\* the request was sent, and no such product is answered 404, through timeouts,
\* retries and overlapping reads of the same path, whose earlier answers are in the
\* cache (ProxyService.proxyRequest, ProductsService).
AnswersCurrent == \A r \in Reads : Complete(r, req[r].answer)

\* An outage shows an empty page only for a path that nobody was answered in
\* the last five minutes: whichever attempt was answered, and while reads
\* overlap, the cache has it (CacheFallbackService, createServiceFallback).
EmptyPageOnlyUnanswered ==
    [][\A r \in Reads :
          (fallback[r] = "none" /\ fallback'[r] = "default")
              => \/ cache[route[r]] = "expired"
                 \/ \A s \in Reads : route[s] = route[r] =>
                        req[s].answer \notin Functional]_vars

-----------------------------------------------------------------------------
(* The inductive invariant.                                                  *)

\* Reads go by their path, creations by the guard, and nothing passes the proxy
\* before it passed the guard.
RoutesFit ==
    \A r \in Requests :
        /\ r \in Reads => route[r] \in Paths \cup {"new"}
        /\ r \in Creates => route[r] \in {"new", "create", "401"}
        /\ req[r].pc # "idle" => Past(r)

\* A response to a creation on its way is true, and so is the answer it became.
CreationsTrue ==
    /\ \A c \in Calls : c[1] \in Creates =>
         /\ call[c] = "201" => c \in products
         /\ call[c] = "403" => c[1] \notin sellers
    /\ \A r \in Creates :
         /\ req[r].answer = "201" => Awaited(r) \in products
         /\ req[r].answer = "403" => r \notin sellers

\* What was known when a read was sent is in every response on its way to that read.
ReadsCurrent ==
    \A r \in Reads : req[r].pc = "calling" => Complete(r, call[Awaited(r)])

\* Whatever a read was answered with went into the cache.
AnswersCached ==
    \A r \in Reads : req[r].answer \in Functional => cache[route[r]] # "none"

ProductsInv ==
    /\ GatewayInv
    /\ TypeOK
    /\ RoutesFit
    /\ CreationsTrue
    /\ ReadsCurrent
    /\ AnswersCurrent
    /\ AnswersCached

=============================================================================
