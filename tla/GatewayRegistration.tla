-------------------------- MODULE GatewayRegistration --------------------------
(***************************************************************************)
(* Registration: POST /auth/register of the api-gateway in front of        *)
(* AuthService.register of users-service.  The service looks for the       *)
(* e-mail, hashes the password and inserts the user, with other calls in   *)
(* between, those of earlier attempts of the same request among them.      *)
(***************************************************************************)
EXTENDS Gateway

CONSTANTS
    Email,        \* Email[r]: the e-mail that request r registers
    NoAccount     \* there is no row with that e-mail

ASSUME RegistrationAssumption ==
    /\ Email \in [Requests -> {Email[r] : r \in Requests}]
    /\ NoAccount \notin Calls
    /\ NoAccount \notin Requests

VARIABLE account     \* account[e]: the call that inserted the row of e

vars == <<circuit, req, call, account>>

Emails == {Email[r] : r \in Requests}

EmailOf(c) == Email[c[1]]

Init ==
    /\ GatewayInit
    /\ account = [e \in Emails |-> NoAccount]

TypeOK ==
    /\ GatewayTypeOK
    /\ account \in [Emails -> Calls \cup {NoAccount}]

\* findOneBy, and 409 when the e-mail is taken; otherwise the hash begins.
Find(c) ==
    /\ call[c] = "sent"
    /\ IF account[EmailOf(c)] # NoAccount
       THEN Reply(c, "409")
       ELSE call' = [call EXCEPT ![c] = "running"]
    /\ UNCHANGED <<circuit, req, account>>

\* A faulty variant of Save: no unique index on the e-mail.
SaveUnchecked(c) ==
    /\ call[c] = "running"
    /\ account' = [account EXCEPT ![EmailOf(c)] = c]
    /\ Reply(c, "201")
    /\ UNCHANGED <<circuit, req>>

\* save inserts the row, unless the unique index has the e-mail by now.
Save(c) ==
    /\ call[c] = "running"
    /\ IF account[EmailOf(c)] # NoAccount
       THEN Reply(c, "409") /\ UNCHANGED account
       ELSE /\ account' = [account EXCEPT ![EmailOf(c)] = c]
            /\ Reply(c, "201")
    /\ UNCHANGED <<circuit, req>>

\* Any other error of the database in findOneBy or save is a 500.
DatabaseFails(c) ==
    /\ call[c] \in {"sent", "running"}
    /\ Reply(c, "500")
    /\ UNCHANGED <<circuit, req, account>>

\* What the client gets: the fallback of users is an error, which proxyRequest
\* makes 503.
Status(r) == IF req[r].answer = "fallback" THEN "503" ELSE req[r].answer

Serve(c) == Find(c) \/ Save(c) \/ DatabaseFails(c)

Next ==
    \/ GatewayNext /\ UNCHANGED account
    \/ \E c \in Calls : Serve(c)

Spec     == Init /\ [][Next]_vars
FairSpec == Spec /\ GatewayFairness

-----------------------------------------------------------------------------
(* Properties. *)

\* Registration through timeouts, retries and concurrent requests keeps what
\* Accounts promises: the answer 201 belongs to the one request that made the
\* account of its e-mail, even when a late attempt made it, and accounts stay
\* (AuthService.register and ProxyService.proxyRequest).
Promise ==
    INSTANCE Accounts
        WITH NoOwner <- NoAccount,
             owner   <- [e \in Emails |-> IF account[e] = NoAccount
                                          THEN NoAccount ELSE account[e][1]],
             answer  <- [r \in Requests |-> Status(r)]

AccountsRefined == Promise!Spec

\* A response on its way tells the truth about the table: what AccountsRefined
\* rests on.
ResponsesTrue ==
    \A c \in Calls :
        /\ call[c] = "201" => account[EmailOf(c)] = c
        /\ call[c] = "409" => account[EmailOf(c)] # NoAccount
        /\ call[c] \notin Functional \ {"201", "409"}

\* The inductive invariant.
RegistrationInv ==
    GatewayInv /\ TypeOK /\ ResponsesTrue

=============================================================================
