------------------------------- MODULE Delivery -------------------------------
(***************************************************************************)
(* What app/core/db/outbox promises of an event, without leases, clocks    *)
(* and rows: a committed event is tried by workers, several at a time if   *)
(* need be, until one that has delivered it settles it, or until it has    *)
(* failed so often that it is left as a dead letter.  Outbox implements    *)
(* it.                                                                     *)
(***************************************************************************)
EXTENDS Integers

CONSTANTS Event, Worker, MaxRetry

VARIABLES
    status,     \* none, open, aborted, stored or settled
    retries,    \* failures that were counted
    delivered,  \* events delivered at least once
    trying,     \* of a worker: the event it is trying, in a set
    result      \* of a worker: how its attempt ended

deliveryVars == <<status, retries, delivered, trying, result>>

DeliveryInit ==
    /\ status = [e \in Event |-> "none"]
    /\ retries = [e \in Event |-> 0]
    /\ delivered = {}
    /\ trying = [w \in Worker |-> {}]
    /\ result = [w \in Worker |-> "none"]

Moves(e, from, to) ==
    /\ status[e] = from
    /\ status' = [status EXCEPT ![e] = to]
    /\ UNCHANGED <<retries, delivered, trying, result>>

\* A dead letter stays: it is neither tried nor settled any more.
Pending(e) == status[e] = "stored" /\ retries[e] < MaxRetry

Begin(w, e) ==
    /\ trying[w] = {} /\ Pending(e)
    /\ trying' = [trying EXCEPT ![w] = {e}]
    /\ UNCHANGED <<status, retries, delivered, result>>

\* Perhaps once more, and perhaps too late.
Succeed(w, e) ==
    /\ e \in trying[w] /\ result[w] = "none"
    /\ delivered' = delivered \cup {e}
    /\ result' = [result EXCEPT ![w] = "succeeded"]
    /\ UNCHANGED <<status, retries, trying>>

Fail(w) ==
    /\ trying[w] # {} /\ result[w] = "none"
    /\ result' = [result EXCEPT ![w] = "failed"]
    /\ UNCHANGED <<status, retries, delivered, trying>>

Ends(w) ==
    /\ trying' = [trying EXCEPT ![w] = {}]
    /\ result' = [result EXCEPT ![w] = "none"]

Settle(w, e) ==
    /\ e \in trying[w] /\ result[w] = "succeeded" /\ Pending(e)
    /\ status' = [status EXCEPT ![e] = "settled"]
    /\ Ends(w)
    /\ UNCHANGED <<retries, delivered>>

Count(w, e) ==
    /\ e \in trying[w] /\ result[w] = "failed" /\ Pending(e)
    /\ retries' = [retries EXCEPT ![e] = @ + 1]
    /\ Ends(w)
    /\ UNCHANGED <<status, delivered>>

\* A worker is lost, or too late to change anything.
GiveUp(w) ==
    /\ trying[w] # {}
    /\ Ends(w)
    /\ UNCHANGED <<status, retries, delivered>>

DeliveryNext ==
    \/ \E e \in Event : \/ Moves(e, "none", "open")
                        \/ Moves(e, "open", "stored")
                        \/ Moves(e, "open", "aborted")
    \/ \E w \in Worker : Fail(w) \/ GiveUp(w)
    \/ \E w \in Worker, e \in Event :
           Begin(w, e) \/ Succeed(w, e) \/ Settle(w, e) \/ Count(w, e)

DeliverySpec == DeliveryInit /\ [][DeliveryNext]_deliveryVars

=============================================================================
