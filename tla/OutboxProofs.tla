---------------------------- MODULE OutboxProofs ----------------------------
(***************************************************************************)
(* Safety of the outbox for every set of events and pollers, every clock   *)
(* skew and every setting: type correctness, the inductive invariant       *)
(* DeliveryInvariant and the properties of Outbox that follow from it.     *)
(***************************************************************************)
EXTENDS Outbox, FiniteSetTheorems, TLAPS

USE WorkersAssumption, SettingsAssumption

LEMMA ReadingIsNat == ASSUME TypeOK PROVE Reading \subseteq Nat
BY DEF Reading, TypeOK

LEMMA PublishedCount ==
    ASSUME TypeOK
    PROVE  Cardinality({f \in Event : txn[f] # "none"}) \in Nat
<1>1. IsFiniteSet({f \in Event : txn[f] # "none"})
  BY FS_Subset
<1> QED  BY <1>1, FS_CardinalityType

LEMMA MaximumFacts ==
    ASSUME NEW a \in Nat, NEW b \in Nat
    PROVE  Maximum(a, b) \in Nat /\ Maximum(a, b) >= a /\ Maximum(a, b) >= b
BY DEF Maximum

-----------------------------------------------------------------------------
(* Type correctness *)

LEMMA InitTypeOK == Init => TypeOK
<1>1. (CHOOSE e \in Event : TRUE) \in Event
  OBVIOUS
<1> QED  BY <1>1 DEF Init, TypeOK, Worker, Claim, NoClaim, RelayPC, TaskPC

\* The record a claim writes has its type.
LEMMA LockType ==
    ASSUME TypeOK, NEW w \in Worker, NEW e \in Event, NEW t \in Nat, Lock(w, e, t)
    PROVE  /\ claim' \in [Worker -> Claim]
           /\ pc' \in [Worker -> RelayPC \cup TaskPC]
           /\ \A r \in Relay : pc'[r] \in RelayPC
           /\ \A f \in Event : pc'[f] \in TaskPC
<1>1. Maximum(t, occurred_at[e] + 1) \in Nat
  BY DEF TypeOK, Maximum
<1> QED  BY <1>1 DEF Lock, TypeOK, Claim, RelayPC, TaskPC, Worker

LEMMA NextTypeOK == TypeOK /\ [Next]_vars => TypeOK'
<1> SUFFICES ASSUME TypeOK, [Next]_vars PROVE TypeOK'
  OBVIOUS
<1> USE DEF Worker, RelayPC, TaskPC
<1>1. ASSUME NEW e \in Event, Publish(e) PROVE TypeOK'
  BY <1>1, ReadingIsNat, PublishedCount DEF Publish, TypeOK, history
<1>2. ASSUME NEW e \in Event, Commit(e) PROVE TypeOK'
  BY <1>2 DEF Commit, TypeOK, history
<1>3. ASSUME NEW e \in Event, Rollback(e) PROVE TypeOK'
  BY <1>3 DEF Rollback, TypeOK, history, table
<1>4. ASSUME NEW e \in Event, ImmediateClaim(e) PROVE TypeOK'
  BY <1>4, ReadingIsNat, LockType DEF ImmediateClaim, TypeOK, history, table, producer
<1>5. ASSUME NEW e \in Event, ImmediateSkip(e) PROVE TypeOK'
  BY <1>5 DEF ImmediateSkip, TypeOK, history, table, producer
<1>6. ASSUME NEW r \in Relay, RelayWake(r) PROVE TypeOK'
  BY <1>6 DEF RelayWake, TypeOK, history, table, producer
<1>7. ASSUME NEW r \in Relay, RelayClaim(r) PROVE TypeOK'
  <2>1. PICK t \in Reading, e \in Event : e \in Claimable(t) /\ Lock(r, e, t)
    BY <1>7 DEF RelayClaim, Claimable, TypeOK
  <2>2. t \in Nat
    BY ReadingIsNat
  <2>3. left' \in [Relay -> Nat]
    BY <1>7 DEF RelayClaim, TypeOK
  <2> QED  BY <1>7, <2>1, <2>2, <2>3, LockType
             DEF RelayClaim, TypeOK, history, table, producer
<1>8. ASSUME NEW r \in Relay, RelaySleep(r) PROVE TypeOK'
  BY <1>8 DEF RelaySleep, TypeOK, history, table, producer
<1>9. ASSUME NEW w \in Worker, CommitClaim(w) PROVE TypeOK'
  BY <1>9 DEF CommitClaim, TypeOK, history, producer, Claim
<1>10. ASSUME NEW w \in Worker, DispatchOk(w) PROVE TypeOK'
  BY <1>10 DEF DispatchOk, TypeOK, table, producer, Claim
<1>11. ASSUME NEW w \in Worker, DispatchFail(w) PROVE TypeOK'
  BY <1>11 DEF DispatchFail, TypeOK, table, producer, Claim
<1>12. ASSUME NEW w \in Worker, DeleteSucceeded(w) PROVE TypeOK'
  BY <1>12 DEF DeleteSucceeded, TypeOK, history, producer, Claim, Rest
<1>13. ASSUME NEW w \in Worker, MarkFailed(w) PROVE TypeOK'
  BY <1>13 DEF MarkFailed, TypeOK, history, producer, Claim, Rest
<1>14. ASSUME NEW w \in Worker, Abandon(w) PROVE TypeOK'
  BY <1>14 DEF Abandon, TypeOK, history, table, producer
<1>15. ASSUME NEW r \in Relay, Cancel(r) PROVE TypeOK'
  BY <1>15 DEF Cancel, TypeOK, history, table, producer
<1>16. ASSUME NEW r \in Relay, Restart(r) PROVE TypeOK'
  BY <1>16 DEF Restart, TypeOK, history, table, producer
<1>17. ASSUME Tick PROVE TypeOK'
  BY <1>17 DEF Tick, TypeOK, history, table, producer
<1>18. CASE UNCHANGED vars
  BY <1>18 DEF vars, TypeOK, history, table, producer
<1> QED
  BY <1>1, <1>2, <1>3, <1>4, <1>5, <1>6, <1>7, <1>8, <1>9, <1>10, <1>11, <1>12,
     <1>13, <1>14, <1>15, <1>16, <1>17, <1>18
     DEF Next, Producer, ImmediateStep, RelayStep, Deliver

\* Type correctness of the outbox.
THEOREM TypeCorrect == Spec => []TypeOK
BY InitTypeOK, NextTypeOK, PTL DEF Spec

-----------------------------------------------------------------------------
(* The inductive invariant *)

LEMMA InitDelivery == Init => DeliveryInvariant
BY DEF Init, DeliveryInvariant, RowsGrow, ClaimsCommitted, ClaimsLocked,
       LeaseSeparation, RedeliverySpacing, NoEventLost, RetryPaidByFailure,
       Worker, Locks, Live, Busy

\* Taking the row lock of e: the claimed generation is above the row's, and
\* above the expired one's by more than the lease unless e is unclaimed.
LEMMA LockDelivery ==
    ASSUME TypeOK, DeliveryInvariant,
           NEW w \in Worker, NEW e \in Event, NEW t \in Nat,
           ~Busy(w), Lock(w, e, t), ~Locked(e),
           e \in rows, retry_count[e] < MaxRetry,
           occurred_at[e] = born[e] \/ occurred_at[e] < t - RedeliverAfter,
           UNCHANGED <<txn, born, table, history>>
    PROVE  DeliveryInvariant'
<1> USE DEF DeliveryInvariant, table, history
<1>1. claim[w]' = [event |-> e, retry_count |-> retry_count[e],
                   claimed_at |-> Maximum(t, occurred_at[e] + 1)]
  BY DEF Lock, TypeOK
<1>2. \A v \in Worker \ {w} : claim'[v] = claim[v] /\ pc'[v] = pc[v]
  BY DEF Lock, TypeOK
<1>3. pc'[w] = "claiming"
  BY DEF Lock, TypeOK
<1>4. /\ claim'[w].claimed_at > occurred_at[e]
      /\ occurred_at[e] = born[e] \/ claim'[w].claimed_at > occurred_at[e] + RedeliverAfter
  BY <1>1 DEF TypeOK, Maximum
<1>5. RowsGrow'
  BY DEF RowsGrow
<1>6. ClaimsCommitted'
  <2> SUFFICES ASSUME NEW v \in Worker, Busy(v)'
               PROVE  LET f == claim[v].event IN
                      (/\ txn[f] = "committed"
                       /\ claim[v].claimed_at > born[f]
                       /\ claim[v].retry_count < MaxRetry
                       /\ claim[v].retry_count <= failures[f]
                       /\ pc[v] = "failed" => claim[v].retry_count < failures[f]
                       /\ pc[v] = "succeeded" => handled[f] # 0
                       /\ pc[v] # "claiming" => claim[v].claimed_at <= occurred_at[f])'
    BY DEF ClaimsCommitted
  <2>1. CASE v = w
    <3>1. txn[e] = "committed" /\ occurred_at[e] >= born[e]
      BY DEF RowsGrow
    <3>2. claim'[w].event = e /\ claim'[w].retry_count = retry_count[e]
      BY <1>1
    <3>3. claim'[w].claimed_at > born[e]
      BY <3>1, <1>1, <1>4 DEF TypeOK, Maximum
    <3> QED  BY <2>1, <3>1, <3>2, <3>3, <1>3 DEF RetryPaidByFailure
  <2>2. CASE v # w
    BY <2>2, <1>2 DEF ClaimsCommitted, Busy
  <2> QED  BY <2>1, <2>2
<1>7. ClaimsLocked'
  BY <1>1, <1>2, <1>3, <1>4 DEF ClaimsLocked, Locked, Locks
<1>8. \A v \in Worker, f \in Event : Live(v, f)' => v # w /\ Live(v, f)
  BY <1>2, <1>3 DEF Live
<1>9. LeaseSeparation'
  BY <1>2, <1>8 DEF LeaseSeparation
<1>10. RedeliverySpacing'
  BY <1>2, <1>8 DEF RedeliverySpacing
<1>11. NoEventLost' /\ RetryPaidByFailure'
  BY DEF NoEventLost, RetryPaidByFailure
<1> QED  BY <1>5, <1>6, <1>7, <1>9, <1>10, <1>11

\* A worker that stops working on its row, for whatever reason, and changes
\* nothing else.
LEMMA LeaveDelivery ==
    ASSUME TypeOK, DeliveryInvariant, NEW w \in Worker,
           NEW p \in {"sleeping", "polling", "stopped", "none", "scheduled", "done"},
           pc' = [pc EXCEPT ![w] = p],
           UNCHANGED <<txn, born, table, claim, history>>
    PROVE  DeliveryInvariant'
<1> USE DEF DeliveryInvariant, table, history
<1>1. \A v \in Worker : pc'[v] = pc[v] \/ (v = w /\ pc'[v] = p)
  BY DEF TypeOK
<1>2. RowsGrow' /\ NoEventLost' /\ RetryPaidByFailure'
  BY DEF RowsGrow, NoEventLost, RetryPaidByFailure
<1>3. ClaimsCommitted'
  BY <1>1 DEF ClaimsCommitted, Busy
<1>4. ClaimsLocked'
  BY <1>1 DEF ClaimsLocked, Locks
<1>5. \A v \in Worker, f \in Event : Live(v, f)' => (Live(v, f) /\ pc'[v] = pc[v])
  BY <1>1 DEF Live
<1>6. LeaseSeparation' /\ RedeliverySpacing'
  BY <1>5 DEF LeaseSeparation, RedeliverySpacing
<1> QED  BY <1>2, <1>3, <1>4, <1>6

\* The commit of a claim: the takeover rule of ClaimsLocked is what keeps
\* the new claim apart from every claim that is still live.
LEMMA CommitClaimDelivery ==
    ASSUME TypeOK, DeliveryInvariant, NEW w \in Worker, CommitClaim(w)
    PROVE  DeliveryInvariant'
<1> USE DEF DeliveryInvariant, history, producer
<1> DEFINE e == claim[w].event
<1>1. e \in Event /\ claim[w].claimed_at \in Nat
  BY DEF TypeOK, Claim
<1>2. pc[w] = "claiming" /\ pc' = [pc EXCEPT ![w] = "dispatching"]
  BY DEF CommitClaim
<1>3. /\ occurred_at' = [occurred_at EXCEPT ![e] = claim[w].claimed_at]
      /\ UNCHANGED <<txn, born, rows, retry_count, claim, handled, failures>>
  BY DEF CommitClaim
<1>4. /\ e \in rows
      /\ retry_count[e] = claim[w].retry_count
      /\ \/ occurred_at[e] = born[e]
         \/ claim[w].claimed_at > occurred_at[e] + RedeliverAfter
      /\ claim[w].claimed_at > born[e]
  BY <1>2 DEF ClaimsLocked, ClaimsCommitted, Busy
<1>5. occurred_at[e] >= born[e] /\ claim[w].claimed_at >= occurred_at[e]
  BY <1>1, <1>4 DEF RowsGrow, TypeOK
<1>6. \A f \in Event : occurred_at'[f] >= occurred_at[f]
  BY <1>1, <1>3, <1>5 DEF TypeOK
<1>7. \A v \in Worker : v # w => pc'[v] = pc[v]
  BY <1>2 DEF TypeOK
<1>8. pc'[w] = "dispatching"
  BY <1>2 DEF TypeOK
<1>9. \A v \in Worker, f \in Event : Locks(v, f)' => v # w /\ f # e /\ Locks(v, f)
  BY <1>2, <1>3, <1>7, <1>8 DEF Locks, ClaimsLocked
<1>10. (\E v \in Worker : v # w /\ Live(v, e)) => occurred_at[e] # born[e]
  BY <1>1 DEF ClaimsCommitted, Live, Busy, TypeOK, Claim
<1>11. \A v \in Worker : v # w /\ Live(v, e) =>
          claim[w].claimed_at > claim[v].claimed_at + RedeliverAfter
  BY <1>1, <1>4, <1>10 DEF ClaimsCommitted, Live, Busy, TypeOK, Claim
<1>12. handled[e] # 0 => claim[w].claimed_at > handled[e] + RedeliverAfter
  BY <1>1, <1>4 DEF RowsGrow, TypeOK
<1>13. RowsGrow'
  BY <1>1, <1>3, <1>6 DEF RowsGrow, TypeOK
<1>14. ClaimsCommitted'
  BY <1>1, <1>2, <1>3, <1>6, <1>7, <1>8 DEF ClaimsCommitted, Busy, TypeOK, Claim
<1>15. ClaimsLocked'
  <2>1. \A v \in Worker : pc'[v] = "claiming" =>
           pc[v] = "claiming" /\ claim[v].event # e /\ claim[v].event \in Event
    BY <1>9, <1>3 DEF Locks, TypeOK, Claim
  <2>2. \A f \in Event : f # e => occurred_at'[f] = occurred_at[f]
    BY <1>3 DEF TypeOK
  <2> QED  BY <1>3, <1>9, <2>1, <2>2 DEF ClaimsLocked
<1>16. \A v \in Worker, f \in Event : Live(v, f)' => (v = w /\ f = e) \/ (v # w /\ Live(v, f))
  BY <1>3, <1>7 DEF Live
<1>17. LeaseSeparation'
  BY <1>3, <1>11, <1>16 DEF LeaseSeparation
<1>18. RedeliverySpacing'
  BY <1>3, <1>7, <1>12, <1>16 DEF RedeliverySpacing
<1>19. NoEventLost' /\ RetryPaidByFailure'
  BY <1>3 DEF NoEventLost, RetryPaidByFailure
<1> QED  BY <1>13, <1>14, <1>15, <1>17, <1>18, <1>19

\* The outcome of a dispatch is recorded in the history variables only.
LEMMA DispatchDelivery ==
    ASSUME TypeOK, DeliveryInvariant, NEW w \in Worker,
           DispatchOk(w) \/ DispatchFail(w)
    PROVE  DeliveryInvariant'
<1> USE DEF DeliveryInvariant, table, producer
<1> DEFINE e == claim[w].event
<1>1. e \in Event /\ claim[w].claimed_at \in Nat /\ claim[w].retry_count \in Nat
  BY DEF TypeOK, Claim
<1>2. /\ UNCHANGED <<txn, born, rows, occurred_at, retry_count, claim>>
      /\ pc[w] = "dispatching"
      /\ \/ pc'[w] = "succeeded" /\ handled'[e] = claim[w].claimed_at
         \/ pc'[w] = "failed" /\ failures'[e] = (IF failures[e] < MaxRetry
                                                 THEN failures[e] + 1 ELSE failures[e])
                              /\ UNCHANGED handled
  BY <1>1 DEF DispatchOk, DispatchFail, TypeOK
<1>3. /\ \A v \in Worker : v # w => pc'[v] = pc[v]
      /\ \A f \in Event : /\ failures'[f] >= failures[f]
                          /\ f # e => handled'[f] = handled[f]
                          /\ handled'[f] = handled[f] \/ (pc'[w] = "succeeded" /\ f = e)
  BY <1>1 DEF DispatchOk, DispatchFail, TypeOK
<1>4. /\ txn[e] = "committed"
      /\ claim[w].claimed_at > born[e]
      /\ claim[w].claimed_at <= occurred_at[e]
      /\ claim[w].retry_count < MaxRetry
      /\ claim[w].retry_count <= failures[e]
  BY <1>2 DEF ClaimsCommitted, Busy
<1>5. RowsGrow'
  BY <1>1, <1>2, <1>3, <1>4 DEF RowsGrow, TypeOK
<1>6. handled'[e] # 0 \/ handled'[e] = handled[e]
  BY <1>1, <1>2, <1>3, <1>4 DEF TypeOK
<1>7. ClaimsCommitted'
  <2> SUFFICES ASSUME NEW v \in Worker, Busy(v)'
               PROVE  LET f == claim[v].event IN
                      (/\ txn[f] = "committed"
                       /\ claim[v].claimed_at > born[f]
                       /\ claim[v].retry_count < MaxRetry
                       /\ claim[v].retry_count <= failures[f]
                       /\ pc[v] = "failed" => claim[v].retry_count < failures[f]
                       /\ pc[v] = "succeeded" => handled[f] # 0
                       /\ pc[v] # "claiming" => claim[v].claimed_at <= occurred_at[f])'
    BY DEF ClaimsCommitted
  <2>1. claim[v].event \in Event /\ claim[v].retry_count \in Nat
    BY DEF TypeOK, Claim
  <2>2. failures'[e] \in Nat /\ failures[e] \in Nat /\ born[e] \in Nat
    BY <1>1, <1>2, <1>3 DEF TypeOK, DispatchOk, DispatchFail
  <2>3. CASE v = w
    BY <2>3, <2>2, <1>1, <1>2, <1>3, <1>4
  <2>4. CASE v # w
    <3>1. Busy(v) /\ pc'[v] = pc[v]
      BY <2>4, <1>3 DEF Busy
    <3> QED  BY <3>1, <2>1, <2>4, <1>2, <1>3, <1>6
               DEF ClaimsCommitted, TypeOK, DispatchOk, DispatchFail
  <2> QED  BY <2>3, <2>4
<1>8. \A v \in Worker, f \in Event : Locks(v, f)' => Locks(v, f)
  BY <1>2, <1>3 DEF Locks
<1>9. ClaimsLocked'
  BY <1>2, <1>3, <1>8 DEF ClaimsLocked, Locks
<1>10. \A v \in Worker, f \in Event : Live(v, f)' => Live(v, f)
  BY <1>2, <1>3 DEF Live
<1>11. LeaseSeparation'
  BY <1>2, <1>10 DEF LeaseSeparation
<1>12. RedeliverySpacing'
  <2> SUFFICES ASSUME NEW v \in Worker, NEW f \in Event,
                      Live(v, f)', pc'[v] = "dispatching", handled'[f] # 0
               PROVE  \/ claim[v].claimed_at > handled'[f] + RedeliverAfter
                      \/ handled'[f] > claim[v].claimed_at + RedeliverAfter
    BY <1>2 DEF RedeliverySpacing
  <2>1. v # w /\ pc[v] = "dispatching" /\ Live(v, f)
    BY <1>2, <1>3, <1>10
  <2>2. CASE handled'[f] = handled[f]
    BY <2>1, <2>2 DEF RedeliverySpacing
  <2>3. CASE f = e /\ handled'[e] = claim[w].claimed_at
    BY <2>1, <2>3, <1>2 DEF LeaseSeparation, Live
  <2> QED  BY <2>2, <2>3, <1>2, <1>3
<1>13. NoEventLost' /\ RetryPaidByFailure'
  <2>1. \A f \in Event : failures'[f] \in Nat
    BY <1>1 DEF TypeOK, DispatchOk, DispatchFail
  <2> QED  BY <1>2, <1>3, <1>6, <2>1 DEF NoEventLost, RetryPaidByFailure, TypeOK
<1> QED  BY <1>5, <1>7, <1>9, <1>11, <1>12, <1>13

\* The delete after a success: it removes the row only if it is current, and
\* then nobody else is at work on the row's generation.
LEMMA DeleteDelivery ==
    ASSUME TypeOK, DeliveryInvariant, NEW w \in Worker, DeleteSucceeded(w)
    PROVE  DeliveryInvariant'
<1> USE DEF DeliveryInvariant, history, producer
<1> DEFINE e == claim[w].event
<1>1. /\ pc[w] = "succeeded" /\ e \in Event
      /\ UNCHANGED <<txn, born, occurred_at, retry_count, claim, handled, failures>>
      /\ rows' \subseteq rows
      /\ \A f \in rows : f \in rows' \/ (f = e /\ IsCurrent(w) /\ ~Locked(e))
  BY DEF DeleteSucceeded, TypeOK, Claim
<1>2. /\ \A v \in Worker : v # w => pc'[v] = pc[v]
      /\ pc'[w] \in {"polling", "done"}
  BY DEF DeleteSucceeded, Rest, TypeOK
<1>3. handled[e] # 0
  BY <1>1 DEF ClaimsCommitted, Busy
<1>4. RowsGrow' /\ RetryPaidByFailure'
  BY <1>1 DEF RowsGrow, RetryPaidByFailure
<1>5. ClaimsCommitted'
  BY <1>1, <1>2 DEF ClaimsCommitted, Busy
<1>6. \A v \in Worker, f \in Event : Locks(v, f)' => Locks(v, f)
  BY <1>1, <1>2 DEF Locks
<1>7. ClaimsLocked'
  <2>1. \A v \in Worker : pc'[v] = "claiming" => pc[v] = "claiming"
    BY <1>2
  <2>2. \A v \in Worker : pc'[v] = "claiming" => claim[v].event \in rows'
    BY <1>1, <2>1 DEF ClaimsLocked, Locked, Locks
  <2> QED  BY <1>1, <1>6, <2>1, <2>2 DEF ClaimsLocked
<1>8. \A v \in Worker, f \in Event : Live(v, f)' => (Live(v, f) /\ pc'[v] = pc[v])
  BY <1>1, <1>2 DEF Live
<1>9. LeaseSeparation' /\ RedeliverySpacing'
  BY <1>1, <1>8 DEF LeaseSeparation, RedeliverySpacing
<1>10. NoEventLost'
  BY <1>1, <1>3 DEF NoEventLost
<1> QED  BY <1>4, <1>5, <1>7, <1>9, <1>10

\* The update after a failure: the retry it counts was paid for.
LEMMA MarkDelivery ==
    ASSUME TypeOK, DeliveryInvariant, NEW w \in Worker, MarkFailed(w)
    PROVE  DeliveryInvariant'
<1> USE DEF DeliveryInvariant, history, producer
<1> DEFINE e == claim[w].event
<1>1. /\ pc[w] = "failed" /\ e \in Event
      /\ UNCHANGED <<txn, born, rows, occurred_at, claim, handled, failures>>
      /\ \A f \in Event : \/ retry_count'[f] = retry_count[f]
                          \/ /\ f = e /\ ~Locked(e)
                             /\ retry_count'[f] = claim[w].retry_count + 1
  BY DEF MarkFailed, TypeOK, Claim
<1>2. /\ \A v \in Worker : v # w => pc'[v] = pc[v]
      /\ pc'[w] \in {"polling", "done"}
  BY DEF MarkFailed, Rest, TypeOK
<1>3. /\ claim[w].retry_count < failures[e]
      /\ claim[w].retry_count \in Nat /\ failures[e] \in Nat
  BY <1>1 DEF ClaimsCommitted, Busy, TypeOK, Claim
<1>4. RowsGrow' /\ NoEventLost'
  BY <1>1 DEF RowsGrow, NoEventLost
<1>5. RetryPaidByFailure'
  BY <1>1, <1>3 DEF RetryPaidByFailure
<1>6. ClaimsCommitted'
  BY <1>1, <1>2 DEF ClaimsCommitted, Busy
<1>7. \A v \in Worker, f \in Event : Locks(v, f)' => Locks(v, f)
  BY <1>1, <1>2 DEF Locks
<1>8. ClaimsLocked'
  <2>1. \A v \in Worker : pc'[v] = "claiming" => pc[v] = "claiming"
    BY <1>2
  <2>2. \A v \in Worker : pc'[v] = "claiming" =>
           retry_count'[claim[v].event] = retry_count[claim[v].event]
    BY <1>1, <2>1 DEF Locked, Locks, TypeOK, Claim
  <2> QED  BY <1>1, <1>7, <2>1, <2>2 DEF ClaimsLocked
<1>9. \A v \in Worker, f \in Event : Live(v, f)' => (Live(v, f) /\ pc'[v] = pc[v])
  BY <1>1, <1>2 DEF Live
<1>10. LeaseSeparation' /\ RedeliverySpacing'
  BY <1>1, <1>9 DEF LeaseSeparation, RedeliverySpacing
<1> QED  BY <1>4, <1>5, <1>6, <1>8, <1>10

\* The publishing transaction never meets a worker: no claim is held on an
\* event before its transaction has committed.
LEMMA ProducerDelivery ==
    ASSUME TypeOK, DeliveryInvariant, NEW e \in Event, Producer(e)
    PROVE  DeliveryInvariant'
<1> USE DEF DeliveryInvariant, history
<1>1. \A w \in Worker : Busy(w) => claim[w].event # e
  BY DEF ClaimsCommitted, Producer, Publish, Commit, Rollback
<1>2. e \notin rows /\ handled[e] = 0
  BY DEF RowsGrow, Producer, Publish, Commit, Rollback
<1>3. \A w \in Worker : pc'[w] = pc[w] \/ (w = e /\ pc'[w] = "scheduled")
  BY DEF Producer, Publish, Commit, Rollback, TypeOK
<1>4. /\ UNCHANGED <<retry_count, claim, handled, failures>>
      /\ rows' = rows \/ (rows' = rows \cup {e} /\ txn'[e] = "committed")
      /\ occurred_at'[e] = born'[e] \/ UNCHANGED <<occurred_at, born>>
      /\ \A f \in Event : f # e => /\ txn'[f] = txn[f]
                                   /\ born'[f] = born[f]
                                   /\ occurred_at'[f] = occurred_at[f]
      /\ txn[e] # "committed"
      /\ txn'[e] = "committed" => e \in rows'
      /\ occurred_at'[e] \in Nat /\ born'[e] \in Nat
  BY ReadingIsNat DEF Producer, Publish, Commit, Rollback, TypeOK, table
<1>5. RowsGrow'
  BY <1>2, <1>4 DEF RowsGrow, TypeOK
<1>6. \A w \in Worker : Busy(w)' => (Busy(w) /\ pc'[w] = pc[w])
  BY <1>3 DEF Busy
<1>7. \A w \in Worker : claim[w].event \in Event
  BY DEF TypeOK, Claim
<1>8. ClaimsCommitted'
  BY <1>1, <1>4, <1>6, <1>7 DEF ClaimsCommitted
<1>9. \A w \in Worker, f \in Event : Locks(w, f)' => (Locks(w, f) /\ f # e)
  BY <1>1, <1>3, <1>4 DEF Locks, Busy
<1>10. \A w \in Worker : pc'[w] = "claiming" => pc[w] = "claiming" /\ claim[w].event # e
  BY <1>1, <1>3 DEF Busy
<1>11. ClaimsLocked'
  BY <1>4, <1>7, <1>9, <1>10 DEF ClaimsLocked
<1>12. \A w \in Worker, f \in Event : Live(w, f)' => (Live(w, f) /\ pc'[w] = pc[w])
  BY <1>3, <1>4 DEF Live
<1>13. LeaseSeparation' /\ RedeliverySpacing'
  BY <1>4, <1>12 DEF LeaseSeparation, RedeliverySpacing
<1>14. NoEventLost' /\ RetryPaidByFailure'
  BY <1>4 DEF NoEventLost, RetryPaidByFailure
<1> QED  BY <1>5, <1>8, <1>11, <1>13, <1>14

LEMMA NextDelivery == TypeOK /\ DeliveryInvariant /\ [Next]_vars => DeliveryInvariant'
<1> SUFFICES ASSUME TypeOK, DeliveryInvariant, [Next]_vars PROVE DeliveryInvariant'
  OBVIOUS
<1> USE DEF Worker, producer
<1>1. ASSUME NEW e \in Event, Producer(e) PROVE DeliveryInvariant'
  BY <1>1, ProducerDelivery
<1>2. ASSUME NEW e \in Event, ImmediateClaim(e) PROVE DeliveryInvariant'
  BY <1>2, LockDelivery, ReadingIsNat DEF ImmediateClaim, ImmediateMayClaim, Busy
<1>3. ASSUME NEW e \in Event, ImmediateSkip(e) PROVE DeliveryInvariant'
  BY <1>3, LeaveDelivery DEF ImmediateSkip
<1>4. ASSUME NEW r \in Relay, RelayWake(r) PROVE DeliveryInvariant'
  BY <1>4, LeaveDelivery DEF RelayWake
<1>5. ASSUME NEW r \in Relay, RelayClaim(r) PROVE DeliveryInvariant'
  <2>1. PICK t \in Reading, e \in Event : e \in Claimable(t) /\ Lock(r, e, t)
    BY <1>5 DEF RelayClaim, Claimable, TypeOK
  <2>2. t \in Nat
    BY ReadingIsNat
  <2>3. ~Busy(r) /\ UNCHANGED <<txn, born, table, history>>
    BY <1>5 DEF RelayClaim, Busy
  <2> QED  BY <2>1, <2>2, <2>3, LockDelivery DEF Claimable
<1>6. ASSUME NEW r \in Relay, RelaySleep(r) PROVE DeliveryInvariant'
  BY <1>6, LeaveDelivery DEF RelaySleep
<1>7. ASSUME NEW w \in Worker, Deliver(w) PROVE DeliveryInvariant'
  BY <1>7, CommitClaimDelivery, DispatchDelivery, DeleteDelivery, MarkDelivery DEF Deliver
<1>8. ASSUME NEW w \in Worker, Abandon(w) PROVE DeliveryInvariant'
  BY <1>8, LeaveDelivery DEF Abandon
<1>9. ASSUME NEW r \in Relay, Cancel(r) PROVE DeliveryInvariant'
  BY <1>9, LeaveDelivery DEF Cancel
<1>10. ASSUME NEW r \in Relay, Restart(r) PROVE DeliveryInvariant'
  BY <1>10, LeaveDelivery DEF Restart
<1>11. ASSUME UNCHANGED <<txn, born, table, pc, claim, history>> PROVE DeliveryInvariant'
  BY <1>11 DEF DeliveryInvariant, RowsGrow, ClaimsCommitted, ClaimsLocked,
       LeaseSeparation, RedeliverySpacing, NoEventLost, RetryPaidByFailure,
       Locks, Live, Busy, table, history
<1>12. CASE Tick
  BY <1>12, <1>11 DEF Tick
<1>13. CASE UNCHANGED vars
  BY <1>13, <1>11 DEF vars
<1> QED
  BY <1>1, <1>2, <1>3, <1>4, <1>5, <1>6, <1>7, <1>8, <1>9, <1>10, <1>12, <1>13
     DEF Next, ImmediateStep, RelayStep

\* The inductive invariant of the outbox.
THEOREM DeliveryInvariantHolds == Spec => []DeliveryInvariant
BY InitTypeOK, NextTypeOK, InitDelivery, NextDelivery, PTL DEF Spec

\* At-least-once delivery: no committed event is lost.
THEOREM NoCommittedEventLost == Spec => []NoEventLost
<1>1. DeliveryInvariant => NoEventLost
  BY DEF DeliveryInvariant
<1> QED  BY <1>1, DeliveryInvariantHolds, PTL

\* Two workers hold one event only when the earlier lease has run out.
THEOREM LeasesSeparate == Spec => []LeaseSeparation
<1>1. DeliveryInvariant => LeaseSeparation
  BY DEF DeliveryInvariant
<1> QED  BY <1>1, DeliveryInvariantHolds, PTL

\* An event is dispatched again only by a claim that a lease separates from the
\* claim that handled it.
THEOREM RedeliveriesAreSpaced == Spec => []RedeliverySpacing
<1>1. DeliveryInvariant => RedeliverySpacing
  BY DEF DeliveryInvariant
<1> QED  BY <1>1, DeliveryInvariantHolds, PTL

\* Retries are spent by failed dispatches only.
THEOREM RetriesArePaid == Spec => []RetryPaidByFailure
<1>1. DeliveryInvariant => RetryPaidByFailure
  BY DEF DeliveryInvariant
<1> QED  BY <1>1, DeliveryInvariantHolds, PTL

\* Only events of committed transactions are claimed and dispatched.
THEOREM NoPhantoms == Spec => []NoPhantomDispatch
<1>1. DeliveryInvariant => NoPhantomDispatch
  BY DEF DeliveryInvariant, ClaimsCommitted, NoPhantomDispatch, Busy, Locks, Live
<1> QED  BY <1>1, DeliveryInvariantHolds, PTL

-----------------------------------------------------------------------------
(* Stale workers *)

\* Two workers never hold the current claim of one row.
LEMMA OneCurrentClaim ==
    ASSUME TypeOK, DeliveryInvariant,
           NEW v \in Worker, NEW w \in Worker, NEW e \in Event, v # w,
           Live(v, e), Live(w, e), IsCurrent(v), IsCurrent(w)
    PROVE  FALSE
<1>1. claim[v].claimed_at = claim[w].claimed_at /\ claim[w].claimed_at \in Nat
  BY DEF Live, IsCurrent, TypeOK, Claim
<1> QED  BY <1>1 DEF DeliveryInvariant, LeaseSeparation

\* One step leaves the row of a live current claim as it is, or takes over
\* its expired lease.
LEMMA RowOfLiveClaim ==
    ASSUME TypeOK, DeliveryInvariant, [Next]_vars, NEW w \in Worker,
           pc[w] = "dispatching", pc'[w] = "dispatching", IsCurrent(w)
    PROVE  LET e == claim[w].event IN
           /\ e \in rows'
           /\ retry_count'[e] = retry_count[e]
           /\ \/ occurred_at'[e] = occurred_at[e]
              \/ occurred_at'[e] > occurred_at[e] + RedeliverAfter
<1> DEFINE e == claim[w].event
           Kept == /\ e \in rows'
                   /\ retry_count'[e] = retry_count[e]
                   /\ \/ occurred_at'[e] = occurred_at[e]
                      \/ occurred_at'[e] > occurred_at[e] + RedeliverAfter
<1>1. /\ e \in Event /\ e \in rows /\ Live(w, e) /\ txn[e] = "committed"
      /\ occurred_at[e] = claim[w].claimed_at /\ claim[w].claimed_at > born[e]
  BY DEF IsCurrent, Live, TypeOK, Claim, DeliveryInvariant, ClaimsCommitted, Busy
<1>2. ASSUME UNCHANGED table PROVE Kept
  BY <1>1, <1>2 DEF table
<1>3. ASSUME NEW f \in Event, Producer(f) PROVE Kept
  BY <1>1, <1>3 DEF Producer, Publish, Commit, Rollback, TypeOK, table
<1>4. ASSUME NEW v \in Worker, CommitClaim(v) PROVE Kept
  <2>1. CASE claim[v].event = e
    <3>1. claim[v].claimed_at > occurred_at[e] + RedeliverAfter
      BY <1>1, <1>4, <2>1 DEF CommitClaim, DeliveryInvariant, ClaimsLocked, TypeOK
    <3> QED  BY <1>1, <1>4, <2>1, <3>1 DEF CommitClaim, TypeOK
  <2>2. CASE claim[v].event # e
    BY <1>1, <1>4, <2>2 DEF CommitClaim, TypeOK
  <2> QED  BY <2>1, <2>2
<1>5. ASSUME NEW v \in Worker, DeleteSucceeded(v) PROVE Kept
  <2>1. v # w
    BY <1>5 DEF DeleteSucceeded
  <2>2. ~(claim[v].event = e /\ IsCurrent(v))
    BY <1>1, <1>5, <2>1, OneCurrentClaim DEF DeleteSucceeded, Live
  <2> QED  BY <1>1, <1>5, <2>2 DEF DeleteSucceeded
<1>6. ASSUME NEW v \in Worker, MarkFailed(v) PROVE Kept
  <2>1. v # w
    BY <1>6 DEF MarkFailed
  <2>2. ~(claim[v].event = e /\ IsCurrent(v))
    BY <1>1, <1>6, <2>1, OneCurrentClaim DEF MarkFailed, Live
  <2> QED  BY <1>1, <1>6, <2>2 DEF MarkFailed, TypeOK
<1> QED
  BY <1>2, <1>3, <1>4, <1>5, <1>6
     DEF Next, Deliver, ImmediateStep, RelayStep, ImmediateClaim, ImmediateSkip,
         RelayWake, RelayClaim, RelaySleep, DispatchOk, DispatchFail, Abandon,
         Cancel, Restart, Tick, vars, Worker

\* A stale worker never disturbs the row of a live current claim.
THEOREM StaleWorkersAreHarmless == Spec => LiveClaimUndisturbed
<1>1. TypeOK /\ DeliveryInvariant /\ [Next]_vars =>
          [\A w \in Worker :
              (pc[w] = "dispatching" /\ pc'[w] = "dispatching" /\ IsCurrent(w)) =>
                  LET e == claim[w].event IN
                  /\ e \in rows'
                  /\ retry_count'[e] = retry_count[e]
                  /\ \/ occurred_at'[e] = occurred_at[e]
                     \/ occurred_at'[e] > occurred_at[e] + RedeliverAfter]_vars
  BY RowOfLiveClaim
<1> QED  BY <1>1, TypeCorrect, DeliveryInvariantHolds, PTL DEF Spec, LiveClaimUndisturbed

-----------------------------------------------------------------------------
(* Outbox implements Delivery *)

\* The background task of a request does nothing before the request ends.
TasksWait == \A e \in Event : txn[e] \in {"none", "open"} => pc[e] = "none"

LEMMA TasksWaitHolds == Spec => []TasksWait
<1>1. Init => TasksWait
  BY DEF Init, TasksWait, Worker
<1>2. TypeOK /\ TasksWait /\ [Next]_vars => TasksWait'
  <2> SUFFICES ASSUME TypeOK, TasksWait, [Next]_vars PROVE TasksWait'
    OBVIOUS
  <2>1. ASSUME UNCHANGED txn, NEW w \in Worker, pc[w] # "none",
               \A v \in Worker : v # w => pc'[v] = pc[v]
        PROVE  TasksWait'
    BY <2>1 DEF TasksWait, Worker
  <2>2. ASSUME NEW e \in Event, Producer(e) PROVE TasksWait'
    BY <2>2 DEF Producer, Publish, Commit, Rollback, TasksWait, TypeOK, Worker
  <2>3. ASSUME NEW e \in Event, ImmediateClaim(e) \/ ImmediateSkip(e) PROVE TasksWait'
    BY <2>1, <2>3 DEF ImmediateClaim, ImmediateSkip, Lock, producer, TypeOK, Worker
  <2>4. ASSUME NEW w \in Worker, Deliver(w) PROVE TasksWait'
    BY <2>1, <2>4 DEF Deliver, CommitClaim, DispatchOk, DispatchFail, DeleteSucceeded,
                      MarkFailed, producer, TypeOK
  <2>5. ASSUME NEW r \in Relay, RelayWake(r) \/ RelayClaim(r) \/ RelaySleep(r) \/ Restart(r)
        PROVE  TasksWait'
    BY <2>1, <2>5 DEF RelayWake, RelayClaim, RelaySleep, Restart, Lock, producer, TypeOK,
                      RelayPC, Worker
  <2>6. ASSUME NEW r \in Relay, Cancel(r) PROVE TasksWait'
    BY <2>1, <2>6 DEF Cancel, producer, TypeOK, RelayPC, Worker
  <2>7. ASSUME NEW w \in Worker, Abandon(w) PROVE TasksWait'
    BY <2>1, <2>7 DEF Abandon, Busy, producer, TypeOK
  <2>8. CASE Tick \/ UNCHANGED vars
    BY <2>8 DEF Tick, TasksWait, vars, producer
  <2> QED
    BY <2>2, <2>3, <2>4, <2>5, <2>6, <2>7, <2>8
       DEF Next, ImmediateStep, RelayStep, Worker
<1> QED  BY <1>1, <1>2, TypeCorrect, PTL DEF Spec

LEMMA InitImplements == Init => AtLeastOnce!DeliveryInit
BY DEF Init, AtLeastOnce!DeliveryInit, Busy, Worker, RelayPC, TaskPC

\* What Delivery sees of an event, of a worker, and of the rows.
Status(f) == IF txn[f] # "committed" THEN txn[f]
             ELSE IF f \in rows THEN "stored" ELSE "settled"
Trying(w) == IF Busy(w) THEN {claim[w].event} ELSE {}
Result(w) == IF pc[w] \in {"succeeded", "failed"} THEN pc[w] ELSE "none"
Seen == <<txn, rows, retry_count, handled>>

\* A step that changes nothing Delivery sees.
LEMMA StutterImplements ==
    ASSUME UNCHANGED Seen,
           \A w \in Worker : Trying(w)' = Trying(w) /\ Result(w)' = Result(w)
    PROVE  UNCHANGED AtLeastOnce!deliveryVars
BY DEF Seen, Trying, Result, AtLeastOnce!deliveryVars

LEMMA ProducerImplements ==
    ASSUME TypeOK, DeliveryInvariant, TasksWait, NEW e \in Event, Producer(e)
    PROVE  AtLeastOnce!DeliveryNext
<1>1. \A w \in Worker : Trying(w)' = Trying(w) /\ Result(w)' = Result(w)
  BY DEF Producer, Publish, Commit, Rollback, TypeOK, TasksWait, Trying, Result, Busy
<1>2. e \notin rows
  BY DEF Producer, Publish, Commit, Rollback, DeliveryInvariant, RowsGrow
<1>3. /\ UNCHANGED <<retry_count, handled>>
      /\ \/ txn[e] = "none" /\ txn' = [txn EXCEPT ![e] = "open"] /\ rows' = rows
         \/ txn[e] = "open" /\ txn' = [txn EXCEPT ![e] = "committed"]
            /\ rows' = rows \cup {e}
         \/ txn[e] = "open" /\ txn' = [txn EXCEPT ![e] = "aborted"] /\ rows' = rows
  BY DEF Producer, Publish, Commit, Rollback, history, table
<1>4. \/ AtLeastOnce!Moves(e, "none", "open")
      \/ AtLeastOnce!Moves(e, "open", "stored")
      \/ AtLeastOnce!Moves(e, "open", "aborted")
  BY <1>1, <1>2, <1>3 DEF AtLeastOnce!Moves, TypeOK, Trying, Result
<1> QED  BY <1>4 DEF AtLeastOnce!DeliveryNext

\* A worker that locks a row begins an attempt.
LEMMA LockImplements ==
    ASSUME TypeOK, DeliveryInvariant, NEW w \in Worker, NEW e \in rows, NEW t \in Nat,
           retry_count[e] < MaxRetry, ~Busy(w), Lock(w, e, t), UNCHANGED Seen
    PROVE  AtLeastOnce!DeliveryNext
<1>1. e \in Event /\ txn[e] = "committed"
  BY DEF TypeOK, DeliveryInvariant, RowsGrow
<1>2. /\ Trying(w) = {} /\ Trying(w)' = {e}
      /\ \A v \in Worker : (v # w => Trying(v)' = Trying(v)) /\ Result(v)' = Result(v)
  BY DEF Lock, TypeOK, Trying, Result, Busy
<1>3. AtLeastOnce!Begin(w, e)
  BY <1>1, <1>2 DEF AtLeastOnce!Begin, AtLeastOnce!Pending, Seen, Trying, Result
<1> QED  BY <1>1, <1>3 DEF AtLeastOnce!DeliveryNext

\* A worker that leaves a row it has not finished gives up.
LEMMA LeaveImplements ==
    ASSUME TypeOK, NEW w \in Worker, UNCHANGED Seen, UNCHANGED claim,
           \E to \in {"sleeping", "stopped", "polling", "done"} : pc' = [pc EXCEPT ![w] = to]
    PROVE  AtLeastOnce!DeliveryNext \/ UNCHANGED AtLeastOnce!deliveryVars
<1>1. /\ Trying(w)' = {} /\ Result(w)' = "none"
      /\ \A v \in Worker : v # w => Trying(v)' = Trying(v) /\ Result(v)' = Result(v)
  BY DEF TypeOK, Trying, Result, Busy
<1>2. CASE Busy(w)
  <2>1. AtLeastOnce!GiveUp(w)
    BY <1>1, <1>2 DEF AtLeastOnce!GiveUp, AtLeastOnce!Ends, Seen, Trying, Result
  <2> QED  BY <2>1 DEF AtLeastOnce!DeliveryNext
<1>3. CASE ~Busy(w)
  BY <1>1, <1>3, StutterImplements DEF Trying, Result, Busy
<1> QED  BY <1>2, <1>3

\* The commit of a claim and a failing dispatch, a dispatch that succeeds.
LEMMA AttemptImplements ==
    ASSUME TypeOK, DeliveryInvariant, NEW w \in Worker,
           CommitClaim(w) \/ DispatchOk(w) \/ DispatchFail(w)
    PROVE  AtLeastOnce!DeliveryNext \/ UNCHANGED AtLeastOnce!deliveryVars
<1>1. PICK e \in Event : e = claim[w].event /\ claim[w].claimed_at > 0
  BY DEF TypeOK, Claim, DeliveryInvariant, ClaimsCommitted, Busy, CommitClaim, DispatchOk,
         DispatchFail
<1>2. \A v \in Worker : Trying(v)' = Trying(v) /\ (v # w => Result(v)' = Result(v))
  BY DEF TypeOK, Trying, Result, Busy, CommitClaim, DispatchOk, DispatchFail
<1>3. Trying(w) = {e}
  BY <1>1 DEF Trying, Busy, CommitClaim, DispatchOk, DispatchFail
<1>4. CASE CommitClaim(w)
  <2>1. Result(w)' = Result(w) /\ UNCHANGED Seen
    BY <1>4 DEF CommitClaim, TypeOK, Result, Seen, producer, history
  <2> QED  BY <1>2, <2>1, StutterImplements
<1>5. CASE DispatchOk(w)
  <2>1. /\ Result(w) = "none" /\ Result(w)' = "succeeded"
        /\ UNCHANGED <<txn, rows, retry_count>>
        /\ {f \in Event : handled'[f] # 0} = {f \in Event : handled[f] # 0} \cup {e}
    BY <1>1, <1>5 DEF DispatchOk, TypeOK, Result, producer, table
  <2>2. AtLeastOnce!Succeed(w, e)
    BY <1>1, <1>2, <1>3, <2>1 DEF AtLeastOnce!Succeed, Trying, Result
  <2> QED  BY <1>1, <2>2 DEF AtLeastOnce!DeliveryNext
<1>6. CASE DispatchFail(w)
  <2>1. Result(w) = "none" /\ Result(w)' = "failed" /\ UNCHANGED Seen
    BY <1>6 DEF DispatchFail, TypeOK, Result, Seen, producer, table
  <2>2. AtLeastOnce!Fail(w)
    BY <1>2, <1>3, <2>1 DEF AtLeastOnce!Fail, Seen, Trying, Result
  <2> QED  BY <2>2 DEF AtLeastOnce!DeliveryNext
<1> QED  BY <1>4, <1>5, <1>6

\* The outcome that is written back under the current claim.
LEMMA OutcomeImplements ==
    ASSUME TypeOK, DeliveryInvariant, NEW w \in Worker,
           DeleteSucceeded(w) \/ MarkFailed(w)
    PROVE  AtLeastOnce!DeliveryNext \/ UNCHANGED AtLeastOnce!deliveryVars
<1>1. Rest(w) \in {"polling", "done"}
  BY DEF Rest
<1>2. CASE ~IsCurrent(w)
  BY <1>1, <1>2, LeaveImplements
     DEF DeleteSucceeded, MarkFailed, Seen, producer, history, table
<1>3. CASE IsCurrent(w)
  <2>1. PICK e \in Event :
        /\ e = claim[w].event /\ e \in rows /\ txn[e] = "committed"
        /\ retry_count[e] = claim[w].retry_count /\ retry_count[e] < MaxRetry
    BY <1>3 DEF IsCurrent, DeleteSucceeded, MarkFailed, DeliveryInvariant, ClaimsCommitted,
                TypeOK, Claim, Busy
  <2>2. /\ Trying(w) = {e} /\ Trying(w)' = {} /\ Result(w)' = "none"
        /\ \A v \in Worker : v # w => Trying(v)' = Trying(v) /\ Result(v)' = Result(v)
    BY <1>1, <2>1 DEF DeleteSucceeded, MarkFailed, TypeOK, Trying, Result, Busy
  <2>3. CASE DeleteSucceeded(w)
    <3>1. /\ Result(w) = "succeeded" /\ rows' = rows \ {e}
          /\ UNCHANGED <<txn, retry_count, handled>>
      BY <1>3, <2>1, <2>3 DEF DeleteSucceeded, Result, producer, history
    <3>2. \A f \in Event : Status(f)' = IF f = e THEN "settled" ELSE Status(f)
      BY <2>1, <3>1 DEF Status
    <3>3. AtLeastOnce!Ends(w)
      BY <2>2 DEF AtLeastOnce!Ends, Trying, Result
    <3>4. AtLeastOnce!Pending(e)
      BY <2>1 DEF AtLeastOnce!Pending
    <3>5. AtLeastOnce!Settle(w, e)
      BY <2>1, <2>2, <3>1, <3>2, <3>3, <3>4 DEF AtLeastOnce!Settle, Status, Trying, Result
    <3> QED  BY <2>1, <3>5 DEF AtLeastOnce!DeliveryNext
  <2>4. CASE MarkFailed(w)
    <3>1. /\ Result(w) = "failed" /\ retry_count' = [retry_count EXCEPT ![e] = @ + 1]
          /\ UNCHANGED <<txn, rows, handled>>
      BY <1>3, <2>1, <2>4 DEF MarkFailed, Result, producer, history
    <3>2. AtLeastOnce!Ends(w)
      BY <2>2 DEF AtLeastOnce!Ends, Trying, Result
    <3>3. AtLeastOnce!Pending(e)
      BY <2>1 DEF AtLeastOnce!Pending
    <3>4. AtLeastOnce!Count(w, e)
      BY <2>1, <2>2, <3>1, <3>2, <3>3 DEF AtLeastOnce!Count, Trying, Result
    <3> QED  BY <2>1, <3>4 DEF AtLeastOnce!DeliveryNext
  <2> QED  BY <2>3, <2>4
<1> QED  BY <1>2, <1>3

LEMMA NextImplements ==
    ASSUME TypeOK, DeliveryInvariant, TasksWait, [Next]_vars
    PROVE  [AtLeastOnce!DeliveryNext]_(AtLeastOnce!deliveryVars)
<1> DEFINE Implemented == AtLeastOnce!DeliveryNext \/ UNCHANGED AtLeastOnce!deliveryVars
<1>1. ASSUME NEW e \in Event, Producer(e) PROVE Implemented
  BY <1>1, ProducerImplements
<1>2. ASSUME NEW e \in Event, ImmediateClaim(e) PROVE Implemented
  <2>1. PICK t \in Reading : Lock(e, e, t)
    BY <1>2 DEF ImmediateClaim
  <2>2. e \in rows /\ retry_count[e] < MaxRetry /\ ~Busy(e) /\ UNCHANGED Seen
    BY <1>2 DEF ImmediateClaim, ImmediateMayClaim, Busy, Seen, producer, table, history
  <2> QED  BY <2>1, <2>2, ReadingIsNat, LockImplements DEF Worker
<1>3. ASSUME NEW e \in Event, ImmediateSkip(e) PROVE Implemented
  BY <1>3, LeaveImplements DEF ImmediateSkip, Seen, producer, table, history, Worker
<1>4. ASSUME NEW r \in Relay, RelayClaim(r) PROVE Implemented
  <2>1. PICK t \in Reading, e \in Event : e \in Claimable(t) /\ Lock(r, e, t)
    BY <1>4 DEF RelayClaim, Claimable, TypeOK
  <2>2. e \in rows /\ retry_count[e] < MaxRetry /\ ~Busy(r) /\ UNCHANGED Seen
    BY <1>4, <2>1 DEF RelayClaim, Claimable, Busy, Seen, producer, table, history
  <2> QED  BY <2>1, <2>2, ReadingIsNat, LockImplements DEF Worker
<1>5. ASSUME NEW r \in Relay, RelayWake(r) \/ RelaySleep(r) \/ Restart(r) \/ Cancel(r)
      PROVE  Implemented
  BY <1>5, LeaveImplements
     DEF RelayWake, RelaySleep, Restart, Cancel, Seen, producer, table, history, Worker
<1>6. ASSUME NEW w \in Worker, Deliver(w) PROVE Implemented
  BY <1>6, AttemptImplements, OutcomeImplements DEF Deliver
<1>7. ASSUME NEW w \in Worker, Abandon(w) PROVE Implemented
  BY <1>7, LeaveImplements DEF Abandon, Seen, producer, table, history
<1>8. CASE Tick \/ UNCHANGED vars
  BY <1>8, StutterImplements
     DEF Tick, vars, Seen, Trying, Result, Busy, producer, table, history
<1> QED
  BY <1>1, <1>2, <1>3, <1>4, <1>5, <1>6, <1>7, <1>8
     DEF Next, ImmediateStep, RelayStep, Worker

\* Leases, generations and row locks implement at-least-once delivery: every
\* step of the outbox is one of Delivery or changes nothing it sees.
THEOREM DeliveryImplemented == Spec => IsAtLeastOnce
<1>1. TypeOK /\ DeliveryInvariant /\ TasksWait /\ [Next]_vars =>
          [AtLeastOnce!DeliveryNext]_(AtLeastOnce!deliveryVars)
  BY NextImplements
<1> QED
  BY <1>1, InitImplements, TypeCorrect, DeliveryInvariantHolds, TasksWaitHolds, PTL
     DEF Spec, IsAtLeastOnce, AtLeastOnce!DeliverySpec

=============================================================================
