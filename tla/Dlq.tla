---------------------------------- MODULE Dlq ----------------------------------
(***************************************************************************)
(* DlqService: the operator's calls on payment_queue.dlq.  They run on one *)
(* channel, interleaved with each other and with the consumer that         *)
(* dead-letters messages.                                                  *)
(*                                                                         *)
(* Messages are numbered in the order in which they entered the queue: the *)
(* broker delivers the smallest one that is ready, and a message that is   *)
(* nacked with requeue goes back to the place it had.                      *)
(***************************************************************************)
EXTENDS Naturals, FiniteSets

CONSTANTS
    Orders,        \* order identifiers
    NoOrder,       \* the order of a message that has not arrived
    Garbage,       \* what stands for the order of a message that is no JSON
    Calls,         \* the calls of the operator, each made once
    NoMsg,         \* a call that holds no message
    MaxMessages,   \* bound: messages that ever enter the DLQ
    MaxFaults      \* bound: failed publishes and lost channels

ASSUME DlqAssumption ==
    /\ NoOrder \notin Orders
    /\ Garbage \notin Orders \cup {NoOrder}
    /\ NoMsg \notin Nat
    /\ MaxMessages \in Nat
    /\ MaxFaults \in Nat

VARIABLES
    at,         \* at[m]: where message m is
    msgOrder,   \* msgOrder[m]: the order it is about
    copies,     \* copies[m]: how often it was published to the main queue again
    kind,       \* kind[k]: what call k does
    target,     \* target[k]: the order it is about
    bound,      \* bound[k]: its messageCount, or the limit of a peek
    tries,      \* tries[k]: its loop index i
    got,        \* got[k]: the message it has got and not given back
    pc,         \* pc[k]: its step
    removed,    \* removed[k]: messages it says it took from the DLQ (found, processed)
    failed,     \* failed[k]: how often it came to its catch block
    faults      \* faults so far

dlqVars == <<at, msgOrder, copies, kind, target, bound, tries, got, pc, removed,
             failed, faults>>

Msgs == 1 .. MaxMessages

Places == {"none", "ready", "got", "reprocessed", "discarded", "purged"}

Targeted == {"reprocess", "discard"}

Kinds == Targeted \cup {"reprocess all", "peek"}

Init ==
    /\ at = [m \in Msgs |-> "none"]
    /\ msgOrder = [m \in Msgs |-> NoOrder]
    /\ copies = [m \in Msgs |-> 0]
    /\ kind = [k \in Calls |-> "none"]
    /\ target = [k \in Calls |-> NoOrder]
    /\ bound = [k \in Calls |-> 0]
    /\ tries = [k \in Calls |-> 0]
    /\ got = [k \in Calls |-> NoMsg]
    /\ pc = [k \in Calls |-> "start"]
    /\ removed = [k \in Calls |-> 0]
    /\ failed = [k \in Calls |-> 0]
    /\ faults = 0

Ready == {m \in Msgs : at[m] = "ready"}

Head(m) == m \in Ready /\ \A n \in Ready : m <= n

Goto(k, step) == pc' = [pc EXCEPT ![k] = step]

\* The consumer of payment_queue dead-letters a message about order o, or one that
\* JSON.parse throws on.
DeadLetter(o) ==
    /\ \E m \in Msgs :
         /\ at[m] = "none"
         /\ \A n \in Msgs : n < m => at[n] # "none"
         /\ at' = [at EXCEPT ![m] = "ready"]
         /\ msgOrder' = [msgOrder EXCEPT ![m] = o]
    /\ UNCHANGED <<copies, kind, target, bound, tries, got, pc, removed, failed, faults>>

-----------------------------------------------------------------------------
(* The calls. *)

\* getStats counts the ready messages; peekMessages takes its limit instead.
StartCall(k, kd, o) ==
    /\ pc[k] = "start"
    /\ kind' = [kind EXCEPT ![k] = kd]
    /\ IF kd \in Targeted THEN target' = [target EXCEPT ![k] = o] ELSE UNCHANGED target
    /\ \E limit \in IF kd = "peek" THEN Msgs ELSE {Cardinality(Ready)} :
         bound' = [bound EXCEPT ![k] = limit]
    /\ Goto(k, "get")
    /\ UNCHANGED <<at, msgOrder, copies, tries, got, removed, failed, faults>>

\* A faulty variant: the loop goes on while the queue has messages.
GetUncounted(k) ==
    /\ pc[k] = "get"
    /\ \E m \in Msgs :
         /\ Head(m)
         /\ at' = [at EXCEPT ![m] = "got"]
         /\ got' = [got EXCEPT ![k] = m]
    /\ Goto(k, "handle")
    /\ UNCHANGED <<msgOrder, copies, kind, target, bound, tries, removed, failed, faults>>

\* channel.get: the head of the queue becomes unacked.
Get(k) ==
    /\ pc[k] = "get"
    /\ tries[k] < bound[k]
    /\ \E m \in Msgs :
         /\ Head(m)
         /\ at' = [at EXCEPT ![m] = "got"]
         /\ got' = [got EXCEPT ![k] = m]
    /\ tries' = [tries EXCEPT ![k] = tries[k] + 1]
    /\ Goto(k, "handle")
    /\ UNCHANGED <<msgOrder, copies, kind, target, bound, removed, failed, faults>>

\* The loop index reaches its bound, or the queue is empty.
EndLoop(k) ==
    /\ pc[k] = "get"
    /\ tries[k] >= bound[k] \/ Ready = {}
    /\ Goto(k, "ended")
    /\ UNCHANGED <<at, msgOrder, copies, kind, target, bound, tries, got, removed,
                   failed, faults>>

\* The call gives message got[k] up: it moves to place p.
Release(k, p) ==
    /\ at' = [at EXCEPT ![got[k]] = p]
    /\ got' = [got EXCEPT ![k] = NoMsg]

Readable(k) == msgOrder[got[k]] # Garbage

Matches(k) == msgOrder[got[k]] = target[k]

\* A faulty variant: the message that does not match is not given back.
PutBackForgotten(k) ==
    /\ pc[k] = "handle"
    /\ kind[k] = "peek" \/ (kind[k] \in Targeted /\ ~Matches(k))
    /\ got' = [got EXCEPT ![k] = NoMsg]
    /\ Goto(k, "get")
    /\ UNCHANGED <<at, msgOrder, copies, kind, target, bound, tries, removed, failed,
                   faults>>

\* nack with requeue: a peek looks only, and another order is not touched.
PutBack(k) ==
    /\ pc[k] = "handle"
    /\ Readable(k)
    /\ kind[k] = "peek" \/ (kind[k] \in Targeted /\ ~Matches(k))
    /\ Release(k, "ready")
    /\ Goto(k, "get")
    /\ UNCHANGED <<msgOrder, copies, kind, target, bound, tries, removed, failed, faults>>

\* The catch block: nack with requeue, and the loop goes on.
Catch(k) ==
    /\ Release(k, "ready")
    /\ failed' = [failed EXCEPT ![k] = failed[k] + 1]
    /\ Goto(k, "get")

\* JSON.parse throws.
Unreadable(k) ==
    /\ pc[k] = "handle"
    /\ ~Readable(k)
    /\ Catch(k)
    /\ UNCHANGED <<msgOrder, copies, kind, target, bound, tries, removed, faults>>

Counted(k) == removed' = [removed EXCEPT ![k] = removed[k] + 1]

DiscardsNow(k) == pc[k] = "handle" /\ kind[k] = "discard" /\ Matches(k)

Discard(k) ==
    /\ DiscardsNow(k)
    /\ Release(k, "discarded")
    /\ Counted(k)
    /\ Goto(k, "ended")
    /\ UNCHANGED <<msgOrder, copies, kind, target, bound, tries, failed, faults>>

Reprocesses(k) ==
    /\ pc[k] = "handle"
    /\ Readable(k)
    /\ kind[k] = "reprocess all" \/ (kind[k] = "reprocess" /\ Matches(k))

Published(k) == copies' = [copies EXCEPT ![got[k]] = copies[got[k]] + 1]

\* A faulty variant: publishMessage is not awaited, so its failure goes unseen.
PublishUnawaited(k) ==
    /\ Reprocesses(k)
    /\ Published(k) \/ UNCHANGED copies
    /\ Goto(k, "ack")
    /\ UNCHANGED <<at, msgOrder, kind, target, bound, tries, got, removed, failed, faults>>

\* publishMessage: the copy is on its way to the main queue, the message is not
\* acked yet.
Publish(k) ==
    /\ Reprocesses(k)
    /\ Published(k)
    /\ Goto(k, "ack")
    /\ UNCHANGED <<at, msgOrder, kind, target, bound, tries, got, removed, failed, faults>>

\* publishMessage throws: before it sends anything, or because channel.publish
\* returned false although it sent the message.
PublishFails(k) ==
    /\ faults < MaxFaults
    /\ faults' = faults + 1
    /\ Reprocesses(k)
    /\ Published(k) \/ UNCHANGED copies
    /\ Catch(k)
    /\ UNCHANGED <<msgOrder, kind, target, bound, tries, removed>>

\* ack; reprocessMessage then stops, reprocessAll goes on.
Ack(k) ==
    /\ pc[k] = "ack"
    /\ Release(k, "reprocessed")
    /\ Counted(k)
    /\ Goto(k, IF kind[k] = "reprocess" THEN "ended" ELSE "get")
    /\ UNCHANGED <<msgOrder, copies, kind, target, bound, tries, failed, faults>>

\* purgeAll, in one request to the broker: what is out at a call stays.
PurgeAll ==
    /\ Ready # {}
    /\ at' = [m \in Msgs |-> IF at[m] = "ready" THEN "purged" ELSE at[m]]
    /\ UNCHANGED <<msgOrder, copies, kind, target, bound, tries, got, pc, removed,
                   failed, faults>>

\* What is out when the channel closes goes back to the queue.
Returned ==
    /\ at' = [m \in Msgs |-> IF at[m] = "got" THEN "ready" ELSE at[m]]
    /\ got' = [k \in Calls |-> NoMsg]

Running == {k \in Calls : pc[k] \in {"get", "handle", "ack"}}

\* The channel closes, or the process dies: every call in progress ends with an
\* error, also the one that has published a copy and not acked.
LoseChannel ==
    /\ faults < MaxFaults
    /\ faults' = faults + 1
    /\ Returned
    /\ pc' = [k \in Calls |-> IF k \in Running THEN "error" ELSE pc[k]]
    /\ UNCHANGED <<msgOrder, copies, kind, target, bound, tries, removed, failed>>

\* The channel closes with an ack of call k on its way: the call has counted the
\* message, and a call for one order has its answer, but the broker never sees
\* the ack.
LoseAck(k) ==
    /\ faults < MaxFaults
    /\ faults' = faults + 1
    /\ pc[k] = "ack" \/ DiscardsNow(k)
    /\ Returned
    /\ Counted(k)
    /\ pc' = [j \in Calls |-> IF j = k /\ kind[k] \in Targeted THEN "ended"
                              ELSE IF j \in Running THEN "error" ELSE pc[j]]
    /\ UNCHANGED <<msgOrder, copies, kind, target, bound, tries, failed>>

Proceed(k) ==
    \/ Get(k)
    \/ EndLoop(k)
    \/ PutBack(k)
    \/ Unreadable(k)
    \/ Discard(k)
    \/ Publish(k)
    \/ Ack(k)

Next ==
    \/ \E o \in Orders \cup {Garbage} : DeadLetter(o)
    \/ \E k \in Calls, kd \in Kinds, o \in Orders : StartCall(k, kd, o)
    \/ \E k \in Calls : Proceed(k) \/ PublishFails(k) \/ LoseAck(k)
    \/ PurgeAll
    \/ LoseChannel

Spec == Init /\ [][Next]_dlqVars

(* The event loop and the broker bring every call forward. *)
FairSpec == Spec /\ \A k \in Calls : WF_dlqVars(Proceed(k))

-----------------------------------------------------------------------------

\* The type invariant: no call takes more messages than its loop has turns.
TypeOK ==
    /\ at \in [Msgs -> Places]
    /\ msgOrder \in [Msgs -> Orders \cup {NoOrder, Garbage}]
    /\ copies \in [Msgs -> Nat]
    /\ kind \in [Calls -> Kinds \cup {"none"}]
    /\ target \in [Calls -> Orders \cup {NoOrder}]
    /\ bound \in [Calls -> Msgs \cup {0}]
    /\ tries \in [Calls -> Nat]
    /\ got \in [Calls -> Msgs \cup {NoMsg}]
    /\ pc \in [Calls -> {"start", "get", "handle", "ack", "ended", "error"}]
    /\ removed \in [Calls -> Nat]
    /\ failed \in [Calls -> Nat]
    /\ faults \in 0 .. MaxFaults
    /\ \A k \in Calls : removed[k] + failed[k] <= tries[k] /\ tries[k] <= bound[k]

\* No message stays unacked behind a call: a message is out exactly while one
\* running call handles it, so concurrent calls, early exits and lost channels
\* never hide one from the next call.
OutMeansHandled ==
    /\ \A m \in Msgs : at[m] = "got" <=> \E k \in Calls : got[k] = m
    /\ \A j, k \in Calls : got[j] = got[k] /\ got[k] # NoMsg => j = k
    /\ \A k \in Calls : got[k] # NoMsg <=> pc[k] \in {"handle", "ack"}

\* As many pairs as the counts of the members of S add up to.
Units(count, S) == UNION {{x} \X (1 .. count[x]) : x \in S}

Reprocessing == {k \in Calls : kind[k] \in {"reprocess", "reprocess all"}}

Discarders(o) == {k \in Calls : kind[k] = "discard" /\ target[k] = o /\ removed[k] = 1}

Discarded(o) == {m \in Msgs : at[m] = "discarded" /\ msgOrder[m] = o}

Reprocessed == {m \in Msgs : at[m] = "reprocessed"}

Sent      == Cardinality(Units(copies, Msgs))
Processed == Cardinality(Units(removed, Reprocessing))
Failures  == Cardinality(Units(failed, Reprocessing))

\* Calls that have published a copy and not acked yet, and those that may have and
\* never will.
Acking == {k \in Reprocessing : pc[k] = "ack"}
CutOff == {k \in Reprocessing : pc[k] \in {"ack", "error"}}

DiscardsAddUp ==
    \A o \in Orders :
        /\ Cardinality(Discarded(o)) <= Cardinality(Discarders(o))
        /\ Cardinality(Discarders(o)) <= Cardinality(Discarded(o)) + faults

ReprocessedAddUp ==
    /\ Cardinality(Reprocessed) <= Processed
    /\ Processed <= Cardinality(Reprocessed) + faults

CopiesAddUp ==
    /\ Processed <= Sent
    /\ Sent <= Processed + Failures + Cardinality(CutOff)

\* A message leaves the DLQ for the main queue only after a copy of it did.
ReprocessedAreCopied == \A m \in Msgs : at[m] = "reprocessed" => copies[m] > 0

\* What the answers say is what happened, as far as they can know.  Nothing is
\* discarded or reprocessed that no call counts, and no call counts more than that
\* but for the acks that a lost channel took with it.  A message counted as
\* processed has a copy in the main queue; and every copy is counted as processed,
\* or as failed, or is that of a call cut off between its publish and its ack.
AnswersAddUp == DiscardsAddUp /\ ReprocessedAddUp /\ CopiesAddUp /\ ReprocessedAreCopied

\* Every call ends, however many messages are dead-lettered meanwhile.
CallsEnd == \A k \in Calls : pc[k] # "start" ~> pc[k] \in {"ended", "error"}

\* dlq.service.ts:126-129 and dlq.controller.ts:73-77: reprocessMessage publishes
\* and removes the message of the order it is asked for; it answers "not found in
\* DLQ" only when there is none.  A message of that order among those the call has
\* counted is reprocessed, unless it is purged first.
ReprocessFindsItsOrder ==
    \A k \in Calls, m \in Msgs :
        /\ pc[k] = "get"
        /\ kind[k] = "reprocess"
        /\ tries[k] = 0
        /\ at[m] = "ready"
        /\ msgOrder[m] = target[k]
        /\ Cardinality({n \in Ready : n <= m}) <= bound[k]
        ~> removed[k] = 1 \/ at[m] = "purged"

-----------------------------------------------------------------------------
(* The inductive invariant.                                                  *)

\* A call begins with nothing done, has a turn to spare for the message it
\* handles, and discards once.
CallSteps ==
    \A k \in Calls :
        /\ pc[k] = "start" => tries[k] = 0
        /\ pc[k] \in {"handle", "ack"} => removed[k] + failed[k] < tries[k]
        /\ (kind[k] = "discard" /\ pc[k] \in {"get", "handle", "ack"}) => removed[k] = 0
        /\ pc[k] = "ack" => k \in Reprocessing /\ copies[got[k]] > 0

\* However many calls there may be, those that did something are finite.
AnswersFinite ==
    /\ IsFiniteSet({k \in Calls : pc[k] # "start"})
    /\ IsFiniteSet(Units(removed, Reprocessing))
    /\ IsFiniteSet(Units(failed, Reprocessing))
    /\ IsFiniteSet(Units(copies, Msgs))

\* What is about to be counted as processed has its copy already.
CopiesAhead == Processed + Cardinality(Acking) <= Sent

DlqInv ==
    /\ TypeOK
    /\ OutMeansHandled
    /\ CallSteps
    /\ AnswersFinite
    /\ CopiesAhead
    /\ AnswersAddUp

=============================================================================
