------------------------------- MODULE Accounts -------------------------------
(***************************************************************************)
(* What registration promises the clients: an e-mail gets one account and  *)
(* keeps it, a client is told 201 only for an account that it made itself, *)
(* and 409 only when the e-mail has an account.                            *)
(***************************************************************************)
CONSTANTS Requests, Email, NoOwner

VARIABLES
    owner,     \* owner[e]: the request that made the account of e
    answer     \* answer[r]: what the client of r was told

vars == <<owner, answer>>

Emails == {Email[r] : r \in Requests}

Init ==
    /\ owner = [e \in Emails |-> NoOwner]
    /\ answer = [r \in Requests |-> "none"]

Register(r) ==
    /\ owner[Email[r]] = NoOwner
    /\ owner' = [owner EXCEPT ![Email[r]] = r]
    /\ UNCHANGED answer

Tell(r, status) ==
    /\ answer[r] = "none"
    /\ status = "201" => owner[Email[r]] = r
    /\ status = "409" => owner[Email[r]] # NoOwner
    /\ answer' = [answer EXCEPT ![r] = status]
    /\ UNCHANGED owner

Next ==
    \E r \in Requests :
        Register(r) \/ \E status \in {"201", "409", "503"} : Tell(r, status)

Spec == Init /\ [][Next]_vars

=============================================================================
