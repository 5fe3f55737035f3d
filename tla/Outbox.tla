------------------------------- MODULE Outbox -------------------------------
(***************************************************************************)
(* The transactional outbox of app/core/db/outbox.                         *)
(*                                                                         *)
(* A request writes its domain events into outbox_events in the            *)
(* transaction that changes its aggregates.  Two kinds of workers then     *)
(* deliver a committed row: the background task of the request             *)
(* (immediate_dispatch.py), once, right after the response, and the        *)
(* pollers (relay.py), for every row that the task did not finish.  Both   *)
(* CLAIM a row before they dispatch it: they overwrite occurred_at under   *)
(* the row lock and commit.  The claimed occurred_at is at once a lease    *)
(* (a poller leaves the row alone until the lease is redeliver_after old)  *)
(* and a generation (the result of a dispatch is written back only if the  *)
(* row still carries the claimed value).                                   *)
(*                                                                         *)
(* One event per request; the background task of a request is named by     *)
(* its event.                                                              *)
(***************************************************************************)
EXTENDS Integers, FiniteSets

CONSTANTS
    Event,           \* domain events, one outbox row each
    Undecodable,     \* events whose row no worker can deserialize
    Relay,           \* pollers (one OutboxRelay.run_forever per process)
    RedeliverAfter,  \* outbox_redeliver_after_seconds
    MaxRetry,        \* outbox_max_retry
    BatchSize,       \* outbox_batch_size
    Skew,            \* how far behind real time a host's clock may be
    PromptDispatch,  \* assume no dispatch outlives its own lease
    MaxClock,        \* bound on time
    MaxFaults        \* bound on crashes, database errors and cancellations

ASSUME WorkersAssumption ==
    /\ Undecodable \subseteq Event
    /\ Relay \cap Event = {}
    /\ IsFiniteSet(Event) /\ Event # {}

ASSUME SettingsAssumption ==
    /\ RedeliverAfter \in Nat
    /\ MaxRetry \in Nat \ {0}
    /\ BatchSize \in Nat \ {0}
    /\ Skew \in Nat
    /\ PromptDispatch \in BOOLEAN
    /\ MaxClock \in Nat
    /\ MaxFaults \in Nat

VARIABLES
    clock,        \* real time
    txn,          \* the transaction of the request that publishes an event
    born,         \* event.occurred_at, as kept in the payload
    id,           \* the row's autoincremented primary key
    rows,         \* the events that have a committed row
    occurred_at,  \* the row's occurred_at
    retry_count,  \* the row's retry_count
    pc,           \* what a worker is doing
    claim,        \* _ClaimedEvent: the row as the worker claimed it
    left,         \* how many more rows this run_once may claim
    faults,       \* faults so far
    handled,      \* history: generation of the latest successful dispatch, or 0
    failures      \* history: failed dispatches, counted up to MaxRetry

table == <<rows, occurred_at, retry_count>>
history == <<handled, failures>>
producer == <<txn, born, id>>
vars == <<clock, producer, table, pc, claim, left, faults, history>>

Worker == Relay \cup Event

Claim == [event: Event, retry_count: Nat, claimed_at: Nat]

\* What stands in claim before a worker's first claim; no guard reads it.
NoClaim == [event |-> CHOOSE e \in Event : TRUE, retry_count |-> 0, claimed_at |-> 0]

RelayPC == {"sleeping", "polling", "claiming", "dispatching",
            "succeeded", "failed", "stopped"}
TaskPC == {"none", "scheduled", "claiming", "dispatching",
           "succeeded", "failed", "done"}

-----------------------------------------------------------------------------
(* State helpers *)

Maximum(a, b) == IF a >= b THEN a ELSE b

\* What datetime.now(UTC) may return on one of the hosts.
Reading == {t \in 0..clock : t + Skew >= clock}

\* Worker w selected the row FOR UPDATE and has not committed its claim.
Locks(w, e) == pc[w] = "claiming" /\ claim[w].event = e
Locked(e) == \E w \in Worker : Locks(w, e)

\* Worker w committed a claim of e and has not written a result back.
Live(w, e) ==
    /\ pc[w] \in {"dispatching", "succeeded", "failed"}
    /\ claim[w].event = e

\* Mutants: the result is written back without comparing the generation, or
\* without comparing anything.
IsCurrentIfStored(w) == claim[w].event \in rows
IsCurrentByRetryOnly(w) ==
    LET e == claim[w].event IN
    e \in rows /\ retry_count[e] = claim[w].retry_count

\* The WHERE clause of the delete and of the update that end a dispatch.
IsCurrent(w) ==
    LET e == claim[w].event IN
    /\ e \in rows
    /\ retry_count[e] = claim[w].retry_count
    /\ occurred_at[e] = claim[w].claimed_at

\* Mutants: the poller ignores leases, or gives up one retry too early.
ClaimableIgnoringLease(t) ==
    {e \in rows : retry_count[e] < MaxRetry /\ ~Locked(e)}
ClaimableOneRetryShort(t) ==
    {e \in rows : /\ occurred_at[e] < t - RedeliverAfter
                  /\ retry_count[e] + 1 < MaxRetry
                  /\ ~Locked(e)}

\* The rows _claim_next may choose from at time t, the locked ones skipped.
Claimable(t) ==
    {e \in rows : /\ occurred_at[e] < t - RedeliverAfter
                  /\ retry_count[e] < MaxRetry
                  /\ ~Locked(e)}

\* Where a worker goes once it is through with a row.
Rest(w) == IF w \in Relay THEN "polling" ELSE "done"

-----------------------------------------------------------------------------
Init ==
    /\ clock = 0
    /\ txn = [e \in Event |-> "none"]
    /\ born = [e \in Event |-> 0]
    /\ id = [e \in Event |-> 0]
    /\ rows = {}
    /\ occurred_at = [e \in Event |-> 0]
    /\ retry_count = [e \in Event |-> 0]
    /\ pc = [w \in Worker |-> IF w \in Relay THEN "sleeping" ELSE "none"]
    /\ claim = [w \in Worker |-> NoClaim]
    /\ left = [r \in Relay |-> 0]
    /\ faults = 0
    /\ handled = [e \in Event |-> 0]
    /\ failures = [e \in Event |-> 0]
-----------------------------------------------------------------------------
(* The request: OutboxEventPublisher.publish inside the caller's unit of   *)
(* work, then the commit or the rollback of that unit of work.             *)

\* The event is created and its row added to the open transaction.
Publish(e) ==
    /\ txn[e] = "none"
    /\ txn' = [txn EXCEPT ![e] = "open"]
    /\ \E t \in Reading : /\ born' = [born EXCEPT ![e] = t]
                          /\ occurred_at' = [occurred_at EXCEPT ![e] = t]
    /\ id' = [id EXCEPT ![e] = Cardinality({f \in Event : txn[f] # "none"})]
    /\ UNCHANGED <<clock, rows, retry_count, pc, claim, left, faults, history>>

\* The row becomes visible and the response starts the background task.
Commit(e) ==
    /\ txn[e] = "open"
    /\ txn' = [txn EXCEPT ![e] = "committed"]
    /\ rows' = rows \cup {e}
    /\ pc' = [pc EXCEPT ![e] = "scheduled"]
    /\ UNCHANGED <<clock, born, id, occurred_at, retry_count, claim, left,
                   faults, history>>

\* The row vanishes with the transaction.  The task was added to the
\* response by publish() and may run all the same.
Rollback(e) ==
    /\ txn[e] = "open"
    /\ txn' = [txn EXCEPT ![e] = "aborted"]
    /\ pc' = [pc EXCEPT ![e] = "scheduled"]
    /\ UNCHANGED <<clock, born, id, table, claim, left, faults, history>>

-----------------------------------------------------------------------------
(* Claiming *)

\* Worker w has the row lock of e and is about to write claimed_at.
Lock(w, e, t) ==
    /\ pc' = [pc EXCEPT ![w] = "claiming"]
    /\ claim' = [claim EXCEPT ![w] =
                    [event |-> e,
                     retry_count |-> retry_count[e],
                     claimed_at |-> Maximum(t, occurred_at[e] + 1)]]

\* A row the background task leaves alone: it is gone (never committed, or
\* already delivered), it cannot be deserialized, it failed before, or a
\* poller claimed it first.
ImmediateMayClaim(e) ==
    /\ e \in rows
    /\ e \notin Undecodable
    /\ retry_count[e] = 0
    /\ occurred_at[e] = born[e]

\* SELECT .. FOR UPDATE waits for a poller that is claiming the row.
ImmediateClaim(e) ==
    /\ pc[e] = "scheduled"
    /\ ~Locked(e)
    /\ ImmediateMayClaim(e)
    /\ \E t \in Reading : Lock(e, e, t)
    /\ UNCHANGED <<clock, producer, table, left, faults, history>>

ImmediateSkip(e) ==
    /\ pc[e] = "scheduled"
    /\ ~Locked(e)
    /\ ~ImmediateMayClaim(e)
    /\ pc' = [pc EXCEPT ![e] = "done"]
    /\ UNCHANGED <<clock, producer, table, claim, left, faults, history>>

\* run_forever opens a session and calls run_once.
RelayWake(r) ==
    /\ pc[r] = "sleeping"
    /\ pc' = [pc EXCEPT ![r] = "polling"]
    /\ left' = [left EXCEPT ![r] = BatchSize]
    /\ UNCHANGED <<clock, producer, table, claim, faults, history>>

\* SELECT .. ORDER BY id LIMIT 1 FOR UPDATE SKIP LOCKED.
RelayClaim(r) ==
    /\ pc[r] = "polling"
    /\ left[r] > 0
    /\ \E t \in Reading : \E e \in Claimable(t) :
           /\ \A f \in Claimable(t) : id[e] <= id[f]
           /\ Lock(r, e, t)
    /\ left' = [left EXCEPT ![r] = @ - 1]
    /\ UNCHANGED <<clock, producer, table, faults, history>>

\* The batch is full or no row is due: run_once returns.
RelaySleep(r) ==
    /\ pc[r] = "polling"
    /\ left[r] = 0 \/ \E t \in Reading : Claimable(t) = {}
    /\ pc' = [pc EXCEPT ![r] = "sleeping"]
    /\ UNCHANGED <<clock, producer, table, claim, left, faults, history>>

\* Mutants: the claim deletes the row, or writes no lease.
CommitClaimDeleting(w) ==
    /\ pc[w] = "claiming"
    /\ rows' = rows \ {claim[w].event}
    /\ pc' = [pc EXCEPT ![w] = "dispatching"]
    /\ UNCHANGED <<clock, producer, occurred_at, retry_count, claim, left,
                   faults, history>>
CommitClaimWithoutLease(w) ==
    /\ pc[w] = "claiming"
    /\ pc' = [pc EXCEPT ![w] = "dispatching"]
    /\ UNCHANGED <<clock, producer, table, claim, left, faults, history>>

\* The commit that ends the claim: the lease is visible, the lock released.
CommitClaim(w) ==
    /\ pc[w] = "claiming"
    /\ occurred_at' = [occurred_at EXCEPT ![claim[w].event] = claim[w].claimed_at]
    /\ pc' = [pc EXCEPT ![w] = "dispatching"]
    /\ UNCHANGED <<clock, producer, rows, retry_count, claim, left, faults, history>>

-----------------------------------------------------------------------------
(* Dispatching, outside of any transaction *)

DispatchOk(w) ==
    /\ pc[w] = "dispatching"
    /\ claim[w].event \notin Undecodable
    /\ pc' = [pc EXCEPT ![w] = "succeeded"]
    /\ handled' = [handled EXCEPT ![claim[w].event] = claim[w].claimed_at]
    /\ UNCHANGED <<clock, producer, table, claim, left, faults, failures>>

\* A handler, or for a poller the deserialization, raised.
DispatchFail(w) ==
    /\ pc[w] = "dispatching"
    /\ pc' = [pc EXCEPT ![w] = "failed"]
    /\ failures' = [failures EXCEPT ![claim[w].event] =
                       IF @ < MaxRetry THEN @ + 1 ELSE @]
    /\ UNCHANGED <<clock, producer, table, claim, left, faults, handled>>

\* DELETE .. WHERE event_id, retry_count, occurred_at are the claimed ones.
DeleteSucceeded(w) ==
    /\ pc[w] = "succeeded"
    /\ IsCurrent(w) => ~Locked(claim[w].event)
    /\ rows' = IF IsCurrent(w) THEN rows \ {claim[w].event} ELSE rows
    /\ pc' = [pc EXCEPT ![w] = Rest(w)]
    /\ UNCHANGED <<clock, producer, occurred_at, retry_count, claim, left,
                   faults, history>>

\* UPDATE .. SET retry_count = claimed + 1 with the same WHERE clause.
MarkFailed(w) ==
    /\ pc[w] = "failed"
    /\ IsCurrent(w) => ~Locked(claim[w].event)
    /\ retry_count' = IF IsCurrent(w)
                      THEN [retry_count EXCEPT ![claim[w].event] =
                               claim[w].retry_count + 1]
                      ELSE retry_count
    /\ pc' = [pc EXCEPT ![w] = Rest(w)]
    /\ UNCHANGED <<clock, producer, rows, occurred_at, claim, left, faults, history>>

-----------------------------------------------------------------------------
(* Faults and time *)

Busy(w) == pc[w] \in {"claiming", "dispatching", "succeeded", "failed"}

\* The process dies or the database raises: an open transaction is rolled
\* back, the row stays.  run_forever logs and goes back to sleep; a
\* background task is not run again.
Abandon(w) ==
    /\ Busy(w)
    /\ faults < MaxFaults
    /\ faults' = faults + 1
    /\ pc' = [pc EXCEPT ![w] = IF w \in Relay THEN "sleeping" ELSE "done"]
    /\ UNCHANGED <<clock, producer, table, claim, left, history>>

\* The lifespan cancels the poller: CancelledError is raised at the await
\* run_once is suspended in, whatever that is.
Cancel(r) ==
    /\ pc[r] # "stopped"
    /\ faults < MaxFaults
    /\ faults' = faults + 1
    /\ pc' = [pc EXCEPT ![r] = "stopped"]
    /\ UNCHANGED <<clock, producer, table, claim, left, history>>

\* The next process starts a poller of its own.
Restart(r) ==
    /\ pc[r] = "stopped"
    /\ pc' = [pc EXCEPT ![r] = "sleeping"]
    /\ UNCHANGED <<clock, producer, table, claim, left, faults, history>>

\* Some row is not yet due on the slowest clock.  Once none is left, the
\* passing of time changes no guard.
TimeMatters ==
    \E e \in Event :
        /\ txn[e] = "open" \/ (e \in rows /\ retry_count[e] < MaxRetry)
        /\ occurred_at[e] + RedeliverAfter + Skew >= clock

Tick ==
    /\ clock < MaxClock
    /\ TimeMatters
    /\ PromptDispatch =>
           \A w \in Worker : Busy(w) => claim[w].claimed_at + RedeliverAfter > clock
    /\ clock' = clock + 1
    /\ UNCHANGED <<producer, table, pc, claim, left, faults, history>>

-----------------------------------------------------------------------------
Producer(e) == Publish(e) \/ Commit(e) \/ Rollback(e)

Deliver(w) ==
    \/ CommitClaim(w)
    \/ DispatchOk(w)
    \/ DispatchFail(w)
    \/ DeleteSucceeded(w)
    \/ MarkFailed(w)

ImmediateStep(e) == ImmediateClaim(e) \/ ImmediateSkip(e) \/ Deliver(e)

RelayStep(r) ==
    \/ RelayWake(r)
    \/ RelayClaim(r)
    \/ RelaySleep(r)
    \/ Deliver(r)
    \/ Restart(r)

Next ==
    \/ \E e \in Event : Producer(e) \/ ImmediateStep(e)
    \/ \E r \in Relay : RelayStep(r) \/ Cancel(r)
    \/ \E w \in Worker : Abandon(w)
    \/ Tick

Spec == Init /\ [][Next]_vars

\* A worker that is neither crashed nor cancelled goes on, and so does time.
Fairness ==
    /\ \A e \in Event : WF_vars(ImmediateStep(e))
    /\ \A r \in Relay : WF_vars(RelayStep(r))
    /\ WF_vars(Tick)

FairSpec == Spec /\ Fairness

-----------------------------------------------------------------------------
(* Properties *)

\* Every variable has its type (table columns of orm.py, worker program
\* counters, claims of relay.py).
TypeOK ==
    /\ clock \in Nat
    /\ txn \in [Event -> {"none", "open", "committed", "aborted"}]
    /\ born \in [Event -> Nat]
    /\ id \in [Event -> Nat]
    /\ rows \in SUBSET Event
    /\ occurred_at \in [Event -> Nat]
    /\ retry_count \in [Event -> Nat]
    /\ pc \in [Worker -> RelayPC \cup TaskPC]
    /\ \A r \in Relay : pc[r] \in RelayPC
    /\ \A e \in Event : pc[e] \in TaskPC
    /\ claim \in [Worker -> Claim]
    /\ left \in [Relay -> Nat]
    /\ faults \in Nat
    /\ handled \in [Event -> Nat]
    /\ failures \in [Event -> Nat]

\* At-least-once delivery: a committed event whose row is gone was handled.
\* Crashes, stale workers and lost races between the background task and
\* the pollers never remove an unhandled row (immediate_dispatch.py:86-95,
\* relay.py:119-128).
NoEventLost ==
    \A e \in Event : (txn[e] = "committed" /\ e \notin rows) => handled[e] # 0

\* No phantom event: only the event of a committed transaction is claimed
\* or dispatched, though the background task is scheduled before the commit
\* (publisher.py:11-17, immediate_dispatch.py:32-35).
NoPhantomDispatch ==
    \A w \in Worker, e \in Event :
        (Locks(w, e) \/ Live(w, e)) => txn[e] = "committed"

\* Two workers that work on the same event at the same time hold claims
\* more than redeliver_after apart: the second one took over an expired
\* lease, whatever the clocks of their hosts said (relay.py:83-105,
\* immediate_dispatch.py:51-62).
LeaseSeparation ==
    \A w1, w2 \in Worker, e \in Event :
        (Live(w1, e) /\ Live(w2, e) /\ w1 # w2) =>
            \/ claim[w1].claimed_at > claim[w2].claimed_at + RedeliverAfter
            \/ claim[w2].claimed_at > claim[w1].claimed_at + RedeliverAfter

\* An event is never being dispatched under a claim less than
\* redeliver_after away from the claim that already handled it: a duplicate
\* delivery needs an expired lease (relay.py:114-116).
RedeliverySpacing ==
    \A w \in Worker, e \in Event :
        (Live(w, e) /\ pc[w] = "dispatching" /\ handled[e] # 0) =>
            \/ claim[w].claimed_at > handled[e] + RedeliverAfter
            \/ handled[e] > claim[w].claimed_at + RedeliverAfter

\* A retry is spent by a failed dispatch and by nothing else: a crash, a
\* takeover or a stale worker's late failure does not consume one
\* (relay.py:114-116 and 130-141), so no row becomes a dead letter before
\* it has failed MaxRetry times.
RetryPaidByFailure == \A e \in Event : retry_count[e] <= failures[e]

\* While a worker dispatches under the row's current claim, the others
\* leave the row as it is, but for a takeover of the expired lease: a stale
\* worker that finishes late neither deletes the row nor counts a failure
\* against it (the WHERE clauses of relay.py:119-141 and
\* immediate_dispatch.py:64-94).
LiveClaimUndisturbed ==
    [][\A w \in Worker :
          (pc[w] = "dispatching" /\ pc'[w] = "dispatching" /\ IsCurrent(w)) =>
              LET e == claim[w].event IN
              /\ e \in rows'
              /\ retry_count'[e] = retry_count[e]
              /\ \/ occurred_at'[e] = occurred_at[e]
                 \/ occurred_at'[e] > occurred_at[e] + RedeliverAfter]_vars

\* Every committed event is in the end delivered and its row removed, or
\* left behind as a dead letter after MaxRetry failures: a poisonous row, a
\* crash or a cancelled poller delays the others and does not block them
\* (settings.py:134-137, relay.py:143-167).
EventuallySettled ==
    \A e \in Event :
        txn[e] = "committed" ~> (e \notin rows \/ retry_count[e] >= MaxRetry)

\* Rows, leases and claims implement at-least-once delivery: an event is
\* settled by a worker that delivered it itself, counted once for each
\* failure that is counted, and left alone for good as a dead letter
\* (relay.py:56-141, immediate_dispatch.py:29-95).
AtLeastOnce == INSTANCE Delivery WITH
    status <- [e \in Event |-> IF txn[e] # "committed" THEN txn[e]
                               ELSE IF e \in rows THEN "stored" ELSE "settled"],
    retries <- retry_count,
    delivered <- {e \in Event : handled[e] # 0},
    trying <- [w \in Worker |-> IF Busy(w) THEN {claim[w].event} ELSE {}],
    result <- [w \in Worker |-> IF pc[w] \in {"succeeded", "failed"} THEN pc[w] ELSE "none"]
IsAtLeastOnce == AtLeastOnce!DeliverySpec

(* The inductive invariant behind the safety properties. *)

\* A row belongs to a committed transaction and its generation only grows
\* from the event's own occurred_at; so does the generation that handled it.
RowsGrow ==
    \A e \in Event :
        /\ e \in rows => txn[e] = "committed"
        /\ occurred_at[e] >= born[e]
        /\ handled[e] # 0 => /\ txn[e] = "committed"
                             /\ handled[e] > born[e]
                             /\ handled[e] <= occurred_at[e]

\* What a worker knows of the event it claimed, whatever the row has become.
ClaimsCommitted ==
    \A w \in Worker : Busy(w) =>
        LET e == claim[w].event IN
        /\ txn[e] = "committed"
        /\ claim[w].claimed_at > born[e]
        /\ claim[w].retry_count < MaxRetry
        /\ claim[w].retry_count <= failures[e]
        /\ pc[w] = "failed" => claim[w].retry_count < failures[e]
        /\ pc[w] = "succeeded" => handled[e] # 0
        /\ pc[w] # "claiming" => claim[w].claimed_at <= occurred_at[e]

\* The row lock: one worker at a time claims a row, the row cannot change
\* under it, and it is the first claim or its predecessor has expired.
ClaimsLocked ==
    /\ \A w \in Worker : pc[w] = "claiming" =>
           LET e == claim[w].event IN
           /\ e \in rows
           /\ retry_count[e] = claim[w].retry_count
           /\ \/ occurred_at[e] = born[e]
              \/ claim[w].claimed_at > occurred_at[e] + RedeliverAfter
    /\ \A w1, w2 \in Worker, e \in Event :
           (Locks(w1, e) /\ Locks(w2, e)) => w1 = w2

\* Every claim, every lock and every history value is consistent with the
\* rows: the strengthening that makes the invariants above inductive.
DeliveryInvariant ==
    /\ RowsGrow
    /\ ClaimsCommitted
    /\ ClaimsLocked
    /\ LeaseSeparation
    /\ RedeliverySpacing
    /\ NoEventLost
    /\ RetryPaidByFailure

=============================================================================
