---------------------------- MODULE CreditsProofs ----------------------------
(***************************************************************************)
(* Safety of Credits for every set of requests, users, keys and amounts:   *)
(* the inductive invariant CreditInvariant and what follows from it, and   *)
(* the refinement of Account when every user has a row and nobody leaves.  *)
(***************************************************************************)
EXTENDS Credits, SetFacts, TLAPS

USE RequestsAssumption, AttributesAssumption

-----------------------------------------------------------------------------
(* Arithmetic of the aggregate *)

LEMMA AggregateTypes ==
    ASSUME NEW b \in Balance, Consistent(b), NEW n \in Nat
    PROVE  /\ Granted(b, n) \in Balance /\ Consistent(Granted(b, n))
           /\ CanCover(b, n) => Used(b, n) \in Balance /\ Consistent(Used(b, n))
BY DEF Balance, Consistent, Granted, Used, CanCover

LEMMA OverlayType ==
    ASSUME NEW row \in Balance, NEW old \in Balance, NEW new \in Balance
    PROVE  Overlay(row, old, new) \in Balance
BY DEF Balance, Overlay

LEMMA OverlayOfItself ==
    ASSUME NEW row \in Balance, NEW new \in Balance
    PROVE  Overlay(row, row, new) = new
BY DEF Balance, Overlay

LEMMA ZeroType == Zero \in Balance /\ Consistent(Zero)
BY DEF Zero, Balance, Consistent

LEMMA WrittenType ==
    ASSUME CreditTypeOK, NEW g \in Grant
    PROVE  Written(g) \in Balance
BY OverlayType DEF Written, CreditTypeOK, Request, Mine

-----------------------------------------------------------------------------
(* The inductive invariant *)

LEMMA InitInvariant == CreditInit => CreditInvariant
<1> SUFFICES ASSUME CreditInit PROVE CreditInvariant
  OBVIOUS
<1>1. Granted(Zero, FirstCount) \in Balance /\ Consistent(Granted(Zero, FirstCount))
  BY ZeroType, AggregateTypes
<1>2. CreditTypeOK
  BY <1>1, ZeroType DEF CreditInit, CreditTypeOK, GrantPC
<1>3. \A r \in Request : pc[r] = "start" /\ view[r] = Zero
  BY DEF CreditInit
<1> QED
  BY <1>2, <1>3, ZeroType DEF CreditInit, CreditInvariant, LockExclusion,
     LockedRowsExist, WritersHoldLock, WritesAreConsistent, KeysReserved, HasKey, KeyCreditedOnce,
     Request

\* A transaction that ends without writing.
LEMMA FinishPreserves ==
    ASSUME CreditInvariant, NEW r \in Request, NEW result,
           result \in GrantPC \cup UsagePC \cup WithdrawalPC,
           result \notin {"keyed", "flushed", "reserved"},
           Finish(r, result), UNCHANGED <<tables, memory, erasing>>
    PROVE  CreditInvariant'
<1> USE DEF tables, memory, Finish
<1>1. CreditTypeOK'
  BY DEF CreditInvariant, CreditTypeOK, Request
<1>2. LockExclusion' /\ LockedRowsExist'
  BY DEF CreditInvariant, CreditTypeOK, LockExclusion, LockedRowsExist, Mine
<1>3. WritersHoldLock' /\ WritesAreConsistent' /\ KeysReserved' /\ KeyCreditedOnce'
  BY DEF CreditInvariant, CreditTypeOK, Request, WritersHoldLock, WritesAreConsistent,
     KeysReserved, KeyCreditedOnce, HasKey, Updates, Written, Mine, IsDuplicate
<1> QED  BY <1>1, <1>2, <1>3 DEF CreditInvariant

-----------------------------------------------------------------------------
\* Nobody else has the row that a grant writes: an INSERT that succeeds finds
\* none, and an UPDATE has waited for every lock of it.
LEMMA RowIsFree ==
    ASSUME CreditInvariant, NEW g \in Grant, WriteRow(g), g \in inserting \/ Updates(g),
           NEW o \in locks, Mine(o) = Mine(g)
    PROVE  o = g
<1>0. inserting \subseteq Grant
  BY DEF CreditInvariant, CreditTypeOK
<1>1. CASE g \in inserting
  <2>1. Mine(g) \notin owners /\ \A q \in Grant : ~WroteRowOf(q, g)
    BY <1>1 DEF WriteRow, CanWriteRow, RowConflict
  <2>2. o \in inserting /\ pc[o] = "flushed"
    BY <2>1 DEF CreditInvariant, LockedRowsExist
  <2> QED  BY <1>0, <2>1, <2>2 DEF WroteRowOf
<1>2. CASE Updates(g)
  BY <1>2 DEF WriteRow, CanWriteRow, WriteError, Unlocked
<1> QED  BY <1>1, <1>2

LEMMA StepOfGrant ==
    ASSUME CreditInvariant, NEW g \in Grant, GrantStep(g)
    PROVE  CreditInvariant'
<1> USE DEF tables, memory
<1>0. g \in Request /\ Mine(g) \in User /\ AmountOf[g] \in Nat
  BY DEF Request, Mine
<1>1. CASE CheckDuplicate(g)
  <2>1. CreditTypeOK'
    BY <1>1 DEF CheckDuplicate, CreditInvariant, CreditTypeOK, GrantPC
  <2>2. LockExclusion' /\ LockedRowsExist'
    BY <1>1 DEF CheckDuplicate, CreditInvariant, LockExclusion, LockedRowsExist, Mine
  <2>3. WritersHoldLock' /\ WritesAreConsistent' /\ KeysReserved' /\ KeyCreditedOnce'
    BY <1>0, <1>1 DEF CheckDuplicate, CreditInvariant, CreditTypeOK, Request, WritersHoldLock,
       WritesAreConsistent, KeysReserved, KeyCreditedOnce, HasKey, Updates, Written, Mine, IsDuplicate
  <2> QED  BY <2>1, <2>2, <2>3 DEF CreditInvariant
<1>2. CASE SelectForUpdate(g)
  <2>0. Granted(balance[Mine(g)], AmountOf[g]) \in Balance
        /\ Consistent(Granted(balance[Mine(g)], AmountOf[g]))
    BY <1>0, AggregateTypes DEF CreditInvariant, CreditTypeOK
  <2>1. CreditTypeOK'
    BY <1>0, <1>2, <2>0 DEF SelectForUpdate, CreditInvariant, CreditTypeOK, GrantPC
  <2>2. LockExclusion' /\ LockedRowsExist'
    BY <1>2 DEF SelectForUpdate, CreditInvariant, LockExclusion, LockedRowsExist, Mine, Unlocked
  <2>3. WritersHoldLock' /\ WritesAreConsistent' /\ KeysReserved' /\ KeyCreditedOnce'
    BY <1>0, <1>2, <2>0 DEF SelectForUpdate, CreditInvariant, CreditTypeOK, Request,
       WritersHoldLock, WritesAreConsistent, KeysReserved, KeyCreditedOnce, HasKey, Updates,
       Written, Mine, IsDuplicate
  <2> QED  BY <2>1, <2>2, <2>3 DEF CreditInvariant
<1>3. CASE Save(g)
  <2>1. CreditTypeOK'
    BY <1>0, <1>3 DEF Save, CreditInvariant, CreditTypeOK, GrantPC
  <2>2. LockExclusion' /\ LockedRowsExist'
    BY <1>3 DEF Save, CreditInvariant, LockExclusion, LockedRowsExist, Mine
  <2>3. WritersHoldLock' /\ WritesAreConsistent' /\ KeysReserved' /\ KeyCreditedOnce'
    BY <1>0, <1>3 DEF Save, CreditInvariant, CreditTypeOK, Request, WritersHoldLock,
       WritesAreConsistent, KeysReserved, KeyCreditedOnce, HasKey, Updates, Written, Mine, IsDuplicate
  <2> QED  BY <2>1, <2>2, <2>3 DEF CreditInvariant
<1>4. CASE InsertEntry(g)
  <2>1. CreditTypeOK'
    BY <1>0, <1>4 DEF InsertEntry, CreditInvariant, CreditTypeOK, GrantPC
  <2>2. LockExclusion' /\ LockedRowsExist'
    BY <1>0, <1>4 DEF InsertEntry, CanInsertEntry, CreditInvariant, CreditTypeOK, LockExclusion,
       LockedRowsExist, Mine
  <2>3. WritersHoldLock' /\ WritesAreConsistent'
    BY <1>0, <1>4 DEF InsertEntry, CreditInvariant, CreditTypeOK, Request, WritersHoldLock,
       WritesAreConsistent, Updates, Written, Mine
  <2>4. KeysReserved' /\ KeyCreditedOnce'
    BY <1>0, <1>4 DEF InsertEntry, CanInsertEntry, CreditInvariant, CreditTypeOK, Request,
       KeysReserved, KeyCreditedOnce, HasKey, IsDuplicate, KeyPending
  <2> QED  BY <2>1, <2>2, <2>3, <2>4 DEF CreditInvariant
<1>5. CASE WriteRow(g)
  <2>1. CreditTypeOK'
    BY <1>0, <1>5 DEF WriteRow, CreditInvariant, CreditTypeOK, GrantPC
  <2>2. LockExclusion' /\ LockedRowsExist'
    <3>1. CASE g \in inserting \/ Updates(g)
      <4>1. locks' = locks \cup {g} /\ \A o \in locks : Mine(o) = Mine(g) => o = g
        BY <1>5, <3>1, RowIsFree DEF WriteRow
      <4>2. Mine(g) \in owners \/ g \in inserting
        BY <1>5, <3>1 DEF WriteRow, WriteError
      <4>3. LockExclusion'
        BY <4>1 DEF CreditInvariant, LockExclusion, Mine
      <4>4. LockedRowsExist'
        BY <1>0, <1>5, <4>1, <4>2
           DEF WriteRow, CreditInvariant, CreditTypeOK, LockedRowsExist, Mine
      <4> QED  BY <4>3, <4>4
    <3>2. CASE ~(g \in inserting \/ Updates(g))
      BY <1>0, <1>5, <3>2 DEF WriteRow, CreditInvariant, CreditTypeOK, LockExclusion,
         LockedRowsExist, Mine
    <3> QED  BY <3>1, <3>2
  <2>3. WritersHoldLock' /\ WritesAreConsistent'
    BY <1>0, <1>5 DEF WriteRow, WriteError, CreditInvariant, CreditTypeOK, Request,
       WritersHoldLock, WritesAreConsistent, Updates, Written, Mine
  <2>4. KeysReserved' /\ KeyCreditedOnce'
    BY <1>0, <1>5 DEF WriteRow, CanWriteRow, CreditInvariant, CreditTypeOK, Request,
       KeysReserved, KeyCreditedOnce, HasKey, IsDuplicate
  <2> QED  BY <2>1, <2>2, <2>3, <2>4 DEF CreditInvariant
<1>6. CASE FlushConflict(g)
  BY <1>0, <1>6, FinishPreserves DEF FlushConflict, GrantPC
<1>7. CASE FlushError(g)
  BY <1>0, <1>7, FinishPreserves DEF FlushError, GrantPC
<1>8. CASE CommitGrant(g)
  <2>0. /\ Written(g) \in Balance
        /\ g \in inserting \/ Updates(g) => Consistent(Written(g)) /\ g \in locks
    BY <1>0, <1>8, WrittenType DEF CommitGrant, CreditInvariant, WritesAreConsistent,
       WritersHoldLock, Written
  <2>1. CreditTypeOK'
    BY <1>0, <1>8, <2>0 DEF CommitGrant, Finish, CreditInvariant, CreditTypeOK, GrantPC
  <2>2. LockExclusion' /\ LockedRowsExist'
    BY <1>8 DEF CommitGrant, Finish, CreditInvariant, LockExclusion, LockedRowsExist, Mine
  <2>3. WritersHoldLock'
    BY <1>0, <1>8 DEF CommitGrant, Finish, CreditInvariant, CreditTypeOK, Request,
       WritersHoldLock, Updates
  <2>4. WritesAreConsistent'
    <3> SUFFICES ASSUME NEW h \in Grant, pc'[h] = "flushed", Updates(h)'
                 PROVE  Consistent(Written(h))'
      BY <1>8 DEF CommitGrant, CreditInvariant, WritesAreConsistent
    <3>1. h # g /\ pc[h] = "flushed" /\ Updates(h)
      BY <1>0, <1>8 DEF CommitGrant, Finish, CreditInvariant, CreditTypeOK, Request, Updates
    <3>2. Consistent(Written(h)) /\ h \in locks
      BY <3>1 DEF CreditInvariant, WritesAreConsistent, WritersHoldLock
    <3>3. balance'[Mine(h)] = balance[Mine(h)]
      <4>1. CASE g \in inserting \/ Updates(g)
        <5>1. Mine(h) # Mine(g)
          BY <2>0, <3>1, <3>2, <4>1 DEF CreditInvariant, LockExclusion
        <5> QED  BY <1>0, <1>8, <4>1, <5>1 DEF CommitGrant, CreditInvariant, CreditTypeOK
      <4>2. CASE ~(g \in inserting \/ Updates(g))
        BY <1>8, <4>2 DEF CommitGrant
      <4> QED  BY <4>1, <4>2
    <3>4. Written(h)' = Written(h)
      BY <1>8, <3>3 DEF CommitGrant, Written, Mine
    <3> QED  BY <3>2, <3>4 DEF Consistent
  <2>5. KeysReserved' /\ KeyCreditedOnce'
    BY <1>0, <1>8 DEF CommitGrant, Finish, CreditInvariant, CreditTypeOK, Request,
       KeysReserved, KeyCreditedOnce, HasKey, IsDuplicate
  <2> QED  BY <2>1, <2>2, <2>3, <2>4, <2>5 DEF CreditInvariant
<1> QED  BY <1>1, <1>2, <1>3, <1>4, <1>5, <1>6, <1>7, <1>8 DEF GrantStep

\* A commit that changes the balance of one user only, under the lock of
\* that user's row, leaves alone what others have flushed.
LEMMA FlushedStay ==
    ASSUME CreditInvariant, NEW r \in Request, r \in locks,
           \A u \in User : u # Mine(r) => balance'[u] = balance[u],
           UNCHANGED memory,
           NEW g \in Grant, g # r, pc[g] = "flushed", Updates(g)
    PROVE  Written(g)' = Written(g) /\ Consistent(Written(g))
<1>1. g \in locks /\ Consistent(Written(g))
  BY DEF CreditInvariant, WritersHoldLock, WritesAreConsistent
<1>2. Mine(g) # Mine(r) /\ Mine(g) \in User
  BY <1>1 DEF CreditInvariant, LockExclusion, Mine, Request
<1>3. balance'[Mine(g)] = balance[Mine(g)]
  BY <1>2
<1> QED  BY <1>1, <1>3 DEF Written, memory, Mine

LEMMA StepOfUsage ==
    ASSUME CreditInvariant, NEW u \in Usage, UsageStep(u)
    PROVE  CreditInvariant'
<1> USE DEF tables, memory
<1>0. u \in Request /\ Mine(u) \in User /\ AmountOf[u] \in Nat /\ u \notin Grant
  BY DEF Request, Mine
<1>1. CASE Reserve(u)
  <2>0. Used(balance[Mine(u)], AmountOf[u]) \in Balance
        /\ Consistent(Used(balance[Mine(u)], AmountOf[u]))
    BY <1>0, <1>1, AggregateTypes DEF Reserve, CreditInvariant, CreditTypeOK
  <2>1. CreditTypeOK'
    BY <1>0, <1>1, <2>0 DEF Reserve, CreditInvariant, CreditTypeOK, UsagePC
  <2>2. LockExclusion' /\ LockedRowsExist'
    BY <1>1 DEF Reserve, CreditInvariant, LockExclusion, LockedRowsExist, Mine, Unlocked
  <2>3. WritersHoldLock' /\ WritesAreConsistent' /\ KeysReserved' /\ KeyCreditedOnce'
    BY <1>0, <1>1, <2>0 DEF Reserve, CreditInvariant, CreditTypeOK, Request, WritersHoldLock,
       WritesAreConsistent, KeysReserved, KeyCreditedOnce, HasKey, Updates, Written, Mine, IsDuplicate
  <2> QED  BY <2>1, <2>2, <2>3 DEF CreditInvariant
<1>2. CASE RejectUse(u)
  <2>1. CreditTypeOK'
    BY <1>0, <1>2 DEF RejectUse, CreditInvariant, CreditTypeOK, UsagePC
  <2>2. LockExclusion' /\ LockedRowsExist'
    BY <1>2 DEF RejectUse, CreditInvariant, LockExclusion, LockedRowsExist, Mine
  <2>3. WritersHoldLock' /\ WritesAreConsistent' /\ KeysReserved' /\ KeyCreditedOnce'
    BY <1>0, <1>2 DEF RejectUse, CreditInvariant, CreditTypeOK, Request, WritersHoldLock,
       WritesAreConsistent, KeysReserved, KeyCreditedOnce, HasKey, Updates, Written, Mine, IsDuplicate
  <2> QED  BY <2>1, <2>2, <2>3 DEF CreditInvariant
<1>3. CASE FinalizeUsage(u)
  <2>0. u \in locks /\ view[u] \in Balance /\ Consistent(view[u])
    BY <1>0, <1>3 DEF FinalizeUsage, CreditInvariant, CreditTypeOK, WritersHoldLock,
       WritesAreConsistent
  <2>1. CreditTypeOK'
    BY <1>0, <1>3, <2>0 DEF FinalizeUsage, Finish, CreditInvariant, CreditTypeOK, UsagePC
  <2>2. LockExclusion' /\ LockedRowsExist'
    BY <1>3 DEF FinalizeUsage, Finish, CreditInvariant, LockExclusion, LockedRowsExist, Mine
  <2>3. WritersHoldLock'
    BY <1>0, <1>3 DEF FinalizeUsage, Finish, CreditInvariant, CreditTypeOK, Request,
       WritersHoldLock, Updates
  <2>4. WritesAreConsistent'
    <3>1. \A w \in User : w # Mine(u) => balance'[w] = balance[w]
      BY <1>0, <1>3 DEF FinalizeUsage, CreditInvariant, CreditTypeOK
    <3>2. ASSUME NEW g \in Grant, pc'[g] = "flushed", Updates(g)'
          PROVE  Consistent(Written(g))'
      <4>1. g # u /\ pc[g] = "flushed" /\ Updates(g)
        BY <1>0, <1>3, <3>2 DEF FinalizeUsage, Finish, CreditInvariant, CreditTypeOK,
           Request, Updates
      <4> QED  BY <1>0, <1>3, <2>0, <3>1, <4>1, FlushedStay DEF FinalizeUsage, Consistent
    <3> QED  BY <1>3, <3>2 DEF FinalizeUsage, CreditInvariant, WritesAreConsistent
  <2>5. KeysReserved' /\ KeyCreditedOnce'
    BY <1>0, <1>3 DEF FinalizeUsage, Finish, CreditInvariant, CreditTypeOK, Request,
       KeysReserved, KeyCreditedOnce, HasKey, IsDuplicate
  <2> QED  BY <2>1, <2>2, <2>3, <2>4, <2>5 DEF CreditInvariant
<1> QED  BY <1>1, <1>2, <1>3 DEF UsageStep

LEMMA StepOfWithdrawal ==
    ASSUME CreditInvariant, NEW w \in Withdrawal, WithdrawalStep(w)
    PROVE  CreditInvariant'
<1> USE DEF tables, memory
<1>0. w \in Request /\ Mine(w) \in User /\ w \notin Grant /\ w \notin Usage
  BY DEF Request, Mine
<1>1. CASE DeleteLedger(w)
  <2>1. CreditTypeOK'
    BY <1>0, <1>1 DEF DeleteLedger, CreditInvariant, CreditTypeOK, WithdrawalPC
  <2>2. LockExclusion' /\ LockedRowsExist'
    BY <1>1 DEF DeleteLedger, CreditInvariant, LockExclusion, LockedRowsExist, Mine
  <2>3. WritersHoldLock' /\ WritesAreConsistent' /\ KeysReserved' /\ KeyCreditedOnce'
    BY <1>0, <1>1 DEF DeleteLedger, CreditInvariant, CreditTypeOK, Request, WritersHoldLock,
       WritesAreConsistent, KeysReserved, KeyCreditedOnce, HasKey, Updates, Written, Mine, IsDuplicate
  <2> QED  BY <2>1, <2>2, <2>3 DEF CreditInvariant
<1>2. CASE DeleteWallet(w)
  <2>1. CreditTypeOK'
    BY <1>0, <1>2 DEF DeleteWallet, CreditInvariant, CreditTypeOK, WithdrawalPC
  <2>2. LockExclusion' /\ LockedRowsExist'
    BY <1>2 DEF DeleteWallet, CreditInvariant, LockExclusion, LockedRowsExist, Mine, Unlocked
  <2>3. WritersHoldLock' /\ WritesAreConsistent' /\ KeysReserved' /\ KeyCreditedOnce'
    BY <1>0, <1>2 DEF DeleteWallet, CreditInvariant, CreditTypeOK, Request, WritersHoldLock,
       WritesAreConsistent, KeysReserved, KeyCreditedOnce, HasKey, Updates, Written, Mine, IsDuplicate
  <2> QED  BY <2>1, <2>2, <2>3 DEF CreditInvariant
<1>3. CASE CommitWithdrawal(w)
  <2>1. CreditTypeOK'
    BY <1>0, <1>3, ZeroType DEF CommitWithdrawal, Finish, CreditInvariant, CreditTypeOK,
       WithdrawalPC
  <2>2. LockExclusion' /\ LockedRowsExist'
    BY <1>3 DEF CommitWithdrawal, Finish, CreditInvariant, LockExclusion, LockedRowsExist, Mine
  <2>3. WritersHoldLock'
    BY <1>0, <1>3 DEF CommitWithdrawal, Finish, CreditInvariant, CreditTypeOK, Request,
       WritersHoldLock, Updates
  <2>4. WritesAreConsistent'
    <3>2. ASSUME NEW g \in Grant, pc'[g] = "flushed", Updates(g)'
          PROVE  Consistent(Written(g))'
      <4>1. g # w /\ pc[g] = "flushed" /\ Updates(g)
        BY <1>0, <1>3, <3>2 DEF CommitWithdrawal, Finish, CreditInvariant, CreditTypeOK,
           Request, Updates
      <4>2. CASE w \in locks
        <5>1. \A u \in User : u # Mine(w) => balance'[u] = balance[u]
          BY <1>0, <1>3, <4>2 DEF CommitWithdrawal, CreditInvariant, CreditTypeOK
        <5> QED  BY <1>0, <1>3, <4>1, <4>2, <5>1, FlushedStay DEF CommitWithdrawal, Consistent
      <4>3. CASE w \notin locks
        BY <1>3, <4>1, <4>3 DEF CommitWithdrawal, CreditInvariant, WritesAreConsistent,
           Written, Mine, Consistent
      <4> QED  BY <4>2, <4>3
    <3> QED  BY <1>3, <3>2 DEF CommitWithdrawal, CreditInvariant, WritesAreConsistent
  <2>5. KeysReserved' /\ KeyCreditedOnce'
    BY <1>0, <1>3 DEF CommitWithdrawal, Finish, CreditInvariant, CreditTypeOK, Request,
       KeysReserved, KeyCreditedOnce, HasKey, IsDuplicate
  <2> QED  BY <2>1, <2>2, <2>3, <2>4, <2>5 DEF CreditInvariant
<1> QED  BY <1>1, <1>2, <1>3 DEF WithdrawalStep

LEMMA StepOfAbort ==
    ASSUME CreditInvariant, NEW r \in Request, Abort(r)
    PROVE  CreditInvariant'
BY FinishPreserves DEF Abort, GrantPC

LEMMA NextInvariant == CreditInvariant /\ [CreditNext]_creditVars => CreditInvariant'
<1> SUFFICES ASSUME CreditInvariant, [CreditNext]_creditVars PROVE CreditInvariant'
  OBVIOUS
<1>1. CASE UNCHANGED creditVars
  BY <1>1 DEF creditVars, tables, memory, CreditInvariant, CreditTypeOK, LockExclusion,
     WritersHoldLock, WritesAreConsistent, LockedRowsExist, KeysReserved, KeyCreditedOnce, HasKey, Updates, Written,
     Mine, IsDuplicate, Consistent
<1>2. CASE \E g \in Grant : GrantStep(g)
  BY <1>2, StepOfGrant
<1>3. CASE \E u \in Usage : UsageStep(u)
  BY <1>3, StepOfUsage
<1>4. CASE \E w \in Withdrawal : WithdrawalStep(w)
  BY <1>4, StepOfWithdrawal
<1>5. CASE \E q, r \in Request : BreakDeadlock(q, r)
  BY <1>5, StepOfAbort DEF BreakDeadlock
<1>6. CASE \E r \in Request : Abort(r)
  BY <1>6, StepOfAbort
<1> QED  BY <1>1, <1>2, <1>3, <1>4, <1>5, <1>6 DEF CreditNext

-----------------------------------------------------------------------------
(* What holds of every instance *)

\* The strengthening is an invariant: the locks of flush_pending_writes and
\* of SELECT .. FOR UPDATE protect what is written under them
\* (repository.py:42-51, 94-100).
THEOREM CreditInvariantHolds == CreditSpec => []CreditInvariant
<1>1. CreditInit => CreditInvariant
  BY InitInvariant
<1>2. CreditInvariant /\ [CreditNext]_creditVars => CreditInvariant'
  BY NextInvariant
<1> QED  BY <1>1, <1>2, PTL DEF CreditSpec

\* Every variable has its type, and a committed row passes its check
\* constraints (orm.py:15-35), lost updates or not.
THEOREM CreditTypeCorrect == CreditSpec => []CreditTypeOK
<1>1. CreditInvariant => CreditTypeOK
  BY DEF CreditInvariant
<1> QED  BY <1>1, CreditInvariantHolds, PTL

\* The row lock is exclusive, inserts included (repository.py:42-51, 58-67).
THEOREM LocksExclude == CreditSpec => []LockExclusion
<1>1. CreditInvariant => LockExclusion
  BY DEF CreditInvariant
<1> QED  BY <1>1, CreditInvariantHolds, PTL

\* No idempotency key is credited twice, although the check for it takes no
\* lock (use_case.py:79-95).
THEOREM KeysCreditedOnce == CreditSpec => []KeyCreditedOnce
<1>1. CreditInvariant => KeyCreditedOnce
  BY DEF CreditInvariant
<1> QED  BY <1>1, CreditInvariantHolds, PTL

LEMMA StepHeldRow ==
    ASSUME CreditInvariant, [CreditNext]_creditVars,
           NEW r \in locks, NEW q \in Request,
           Mine(q) = Mine(r), pc'[q] # pc[q], q # r
    PROVE  UNCHANGED <<balance[Mine(r)], Mine(r) \in owners>>
<1> USE DEF tables, memory, creditVars
<1>0. r \in Request /\ Mine(r) \in User /\ pc \in [Request -> GrantPC \cup UsagePC \cup WithdrawalPC]
      /\ balance \in [User -> Balance] /\ q \notin locks
  BY DEF CreditInvariant, CreditTypeOK, Mine, LockExclusion
<1>1. ASSUME NEW g \in Grant, GrantStep(g)
      PROVE  UNCHANGED <<balance[Mine(r)], Mine(r) \in owners>>
  <2>1. CASE CommitGrant(g)
    <3>1. q = g
      BY <1>0, <2>1 DEF CommitGrant, Finish, Request
    <3>2. ~(g \in inserting \/ Updates(g))
      BY <1>0, <2>1, <3>1 DEF CommitGrant, CreditInvariant, WritersHoldLock
    <3> QED  BY <2>1, <3>2 DEF CommitGrant
  <2>2. CASE ~CommitGrant(g)
    BY <1>1, <2>2 DEF GrantStep, CheckDuplicate, SelectForUpdate, Save, InsertEntry,
       WriteRow, FlushConflict, FlushError
  <2> QED  BY <2>1, <2>2
<1>2. ASSUME NEW u \in Usage, UsageStep(u)
      PROVE  UNCHANGED <<balance[Mine(r)], Mine(r) \in owners>>
  <2>1. CASE FinalizeUsage(u)
    <3>1. q = u
      BY <1>0, <2>1 DEF FinalizeUsage, Finish, Request
    <3> QED  BY <1>0, <2>1, <3>1 DEF FinalizeUsage, CreditInvariant, WritersHoldLock
  <2>2. CASE ~FinalizeUsage(u)
    BY <1>2, <2>2 DEF UsageStep, Reserve, RejectUse
  <2> QED  BY <2>1, <2>2
<1>3. ASSUME NEW w \in Withdrawal, WithdrawalStep(w)
      PROVE  UNCHANGED <<balance[Mine(r)], Mine(r) \in owners>>
  <2>1. CASE CommitWithdrawal(w)
    <3>1. q = w
      BY <1>0, <2>1 DEF CommitWithdrawal, Finish, Request
    <3> QED  BY <1>0, <2>1, <3>1 DEF CommitWithdrawal
  <2>2. CASE ~CommitWithdrawal(w)
    BY <1>3, <2>2 DEF WithdrawalStep, DeleteLedger, DeleteWallet
  <2> QED  BY <2>1, <2>2
<1>4. ASSUME NEW a \in Request, Abort(a)
      PROVE  UNCHANGED <<balance[Mine(r)], Mine(r) \in owners>>
  BY <1>4 DEF Abort
<1>5. CASE UNCHANGED creditVars
  BY <1>5
<1> QED  BY <1>1, <1>2, <1>3, <1>4, <1>5 DEF CreditNext, BreakDeadlock, Request

\* While a transaction holds a row, as an analysis does during its OCR call
\* (ocr use_case.py:51-53), no one else's step changes or removes the row.
THEOREM HeldRowsStay == CreditSpec => HeldRowUnchanged
<1>1. CreditInvariant /\ [CreditNext]_creditVars =>
        [\A r \in locks, q \in Request :
            Mine(q) = Mine(r) /\ pc'[q] # pc[q] /\ q # r =>
               UNCHANGED <<balance[Mine(r)], Mine(r) \in owners>>]_creditVars
  BY StepHeldRow
<1> QED  BY <1>1, CreditInvariantHolds, PTL DEF CreditSpec, HeldRowUnchanged

-----------------------------------------------------------------------------
(* The refinement of Account *)

\* The hypothesis of the refinement: everybody has a row and nobody leaves.
Settled == FirstOwners = User /\ Withdrawal = {}

LEMMA InitSerial == ASSUME Settled, CreditInit PROVE SerialInvariant
<1>1. CreditInvariant
  BY InitInvariant
<1>2. \A r \in Request : pc[r] = "start"
  BY DEF CreditInit
<1> QED  BY <1>1, <1>2 DEF SerialInvariant, Settled, CreditInit, Request

\* What a step of one request leaves of the facts about another.
LEMMA OthersUndisturbed ==
    ASSUME SerialInvariant, CreditInvariant',
           NEW q \in Request,
           \A r \in Request : r # q =>
              /\ pc'[r] = pc[r] /\ view'[r] = view[r] /\ loaded'[r] = loaded[r]
              /\ r \in locks => r \in locks'
           , owners' = owners, inserting' = inserting,
           q \in locks \/ balance' = balance,
           \A u \in User : u # Mine(q) => balance'[u] = balance[u],
           \A u \in ledger' \cap Usage : u \in ledger \/ u = q,
           q \in ledger' /\ q \in Usage => pc'[q] = "used",
           q \in Grant /\ pc'[q] \in {"selected", "saved", "keyed", "flushed"} =>
              q \in locks' /\ view'[q] = Granted(balance'[Mine(q)], AmountOf[q]),
           q \in Grant /\ pc'[q] \in {"saved", "keyed", "flushed"} =>
              loaded'[q] = balance'[Mine(q)],
           q \in Usage /\ pc'[q] = "reserved" =>
              /\ CanCover(balance'[Mine(q)], AmountOf[q])
              /\ view'[q] = Used(balance'[Mine(q)], AmountOf[q])
    PROVE  SerialInvariant'
<1>1. ASSUME NEW r \in Request, r # q, r \in locks
      PROVE  balance'[Mine(r)] = balance[Mine(r)]
  <2>1. CASE q \in locks
    BY <1>1, <2>1 DEF SerialInvariant, CreditInvariant, LockExclusion, Mine, Request
  <2>2. CASE balance' = balance
    BY <2>2
  <2> QED  BY <2>1, <2>2
<1>2. ASSUME NEW g \in Grant, pc'[g] \in {"selected", "saved", "keyed", "flushed"}
      PROVE  g \in locks' /\ view'[g] = Granted(balance'[Mine(g)], AmountOf[g])
  <2>1. CASE g = q
    BY <1>2, <2>1
  <2>2. CASE g # q
    BY <1>1, <1>2, <2>2 DEF SerialInvariant, Request
  <2> QED  BY <2>1, <2>2
<1>3. ASSUME NEW g \in Grant, pc'[g] \in {"saved", "keyed", "flushed"}
      PROVE  loaded'[g] = balance'[Mine(g)]
  <2>1. CASE g = q
    BY <1>3, <2>1
  <2>2. CASE g # q
    BY <1>1, <1>3, <2>2 DEF SerialInvariant, Request
  <2> QED  BY <2>1, <2>2
<1>4. ASSUME NEW u \in Usage, pc'[u] = "reserved"
      PROVE  /\ CanCover(balance'[Mine(u)], AmountOf[u])
             /\ view'[u] = Used(balance'[Mine(u)], AmountOf[u])
  <2>1. CASE u = q
    BY <1>4, <2>1
  <2>2. CASE u # q
    <3>1. u \in Request /\ pc[u] = "reserved" /\ u \in locks
      BY <1>4, <2>2 DEF SerialInvariant, CreditInvariant, WritersHoldLock, Request
    <3> QED  BY <1>1, <2>2, <3>1 DEF SerialInvariant
  <2> QED  BY <2>1, <2>2
<1>5. \A u \in ledger' \cap Usage : pc'[u] = "used"
  BY DEF SerialInvariant, Request
<1>6. owners' = User /\ inserting' = {}
  BY DEF SerialInvariant
<1> QED  BY <1>2, <1>3, <1>4, <1>5, <1>6 DEF SerialInvariant, Mine

LEMMA SerialWrite ==
    ASSUME SerialInvariant, NEW g \in Grant, pc[g] \in {"saved", "keyed", "flushed"}
    PROVE  Updates(g) /\ Written(g) = Granted(balance[Mine(g)], AmountOf[g])
<1>1. /\ balance[Mine(g)] \in Balance /\ Consistent(balance[Mine(g)])
      /\ AmountOf[g] \in Nat /\ AmountOf[g] # 0
  BY DEF SerialInvariant, CreditInvariant, CreditTypeOK, Mine, Request
<1>2. Granted(balance[Mine(g)], AmountOf[g]) \in Balance
  BY <1>1, AggregateTypes
<1>3. Granted(balance[Mine(g)], AmountOf[g]) # balance[Mine(g)]
  BY <1>1 DEF Granted, Balance
<1> QED  BY <1>1, <1>2, <1>3, OverlayOfItself DEF Written, Updates, SerialInvariant

LEMMA NextSerial ==
    ASSUME Settled, SerialInvariant, [CreditNext]_creditVars PROVE SerialInvariant'
<1> USE DEF tables, memory
<1>0. CreditInvariant /\ CreditInvariant'
  BY NextInvariant DEF SerialInvariant
<1>t. /\ pc \in [Request -> GrantPC \cup UsagePC \cup WithdrawalPC]
      /\ view \in [Request -> Balance] /\ loaded \in [Request -> Balance]
      /\ balance \in [User -> Balance]
  BY <1>0 DEF CreditInvariant, CreditTypeOK
<1>1. ASSUME NEW g \in Grant, GrantStep(g) PROVE SerialInvariant'
  <2>0. g \in Request /\ Mine(g) \in User /\ g \notin Usage
    BY DEF Request, Mine
  <2>1. CASE CheckDuplicate(g)
    BY <1>0, <1>t, <2>0, <2>1, OthersUndisturbed DEF CheckDuplicate, SerialInvariant
  <2>2. CASE SelectForUpdate(g)
    BY <1>0, <1>t, <2>0, <2>2, OthersUndisturbed DEF SelectForUpdate, SerialInvariant
  <2>3. CASE Save(g)
    <3>1. inserting' = inserting
      BY <2>0, <2>3 DEF Save, SerialInvariant
    <3> QED  BY <1>0, <1>t, <2>0, <2>3, <3>1, OthersUndisturbed DEF Save, SerialInvariant
  <2>4. CASE InsertEntry(g)
    BY <1>0, <1>t, <2>0, <2>4, OthersUndisturbed
       DEF InsertEntry, CanInsertEntry, SerialInvariant
  <2>8. CASE WriteRow(g)
    BY <1>0, <1>t, <2>0, <2>8, OthersUndisturbed DEF WriteRow, CanWriteRow, SerialInvariant
  <2>5. CASE FlushConflict(g)
    BY <1>0, <1>t, <2>0, <2>5, OthersUndisturbed DEF FlushConflict, Finish, SerialInvariant
  <2>6. CASE FlushError(g)
    BY <1>0, <1>t, <2>0, <2>6, OthersUndisturbed DEF FlushError, Finish, SerialInvariant
  <2>7. CASE CommitGrant(g)
    <3>1. g \in locks /\ owners' = owners
      BY <2>7 DEF CommitGrant, SerialInvariant
    <3>2. \A u \in User : u # Mine(g) => balance'[u] = balance[u]
      BY <1>t, <2>7 DEF CommitGrant
    <3> QED  BY <1>0, <1>t, <2>0, <2>7, <3>1, <3>2, OthersUndisturbed
             DEF CommitGrant, Finish, SerialInvariant
  <2> QED  BY <1>1, <2>1, <2>2, <2>3, <2>4, <2>5, <2>6, <2>7, <2>8 DEF GrantStep
<1>2. ASSUME NEW u \in Usage, UsageStep(u) PROVE SerialInvariant'
  <2>0. u \in Request /\ Mine(u) \in User /\ u \notin Grant
    BY DEF Request, Mine
  <2>1. CASE Reserve(u)
    BY <1>0, <1>t, <2>0, <2>1, OthersUndisturbed DEF Reserve, SerialInvariant
  <2>2. CASE RejectUse(u)
    BY <1>0, <1>t, <2>0, <2>2, OthersUndisturbed DEF RejectUse, SerialInvariant
  <2>3. CASE FinalizeUsage(u)
    <3>1. u \in locks
      BY <1>0, <2>3 DEF FinalizeUsage, CreditInvariant, WritersHoldLock
    <3>2. \A v \in User : v # Mine(u) => balance'[v] = balance[v]
      BY <1>t, <2>3 DEF FinalizeUsage
    <3> QED  BY <1>0, <1>t, <2>0, <2>3, <3>1, <3>2, OthersUndisturbed
             DEF FinalizeUsage, Finish, SerialInvariant
  <2> QED  BY <1>2, <2>1, <2>2, <2>3 DEF UsageStep
<1>3. ASSUME NEW r \in Request, Abort(r) PROVE SerialInvariant'
  BY <1>0, <1>t, <1>3, OthersUndisturbed DEF Abort, Finish, Final, SerialInvariant
<1>4. CASE UNCHANGED creditVars
  BY <1>0, <1>4 DEF creditVars, SerialInvariant, Mine
<1> QED  BY <1>1, <1>2, <1>3, <1>4 DEF CreditNext, BreakDeadlock, Settled

LEMMA SerialStep ==
    ASSUME Settled, SerialInvariant, [CreditNext]_creditVars
    PROVE  [SerialAccount!AccountNext]_(SerialAccount!accountVars)
<1> USE DEF tables, memory, SerialAccount!accountVars
<1>t. /\ balance \in [User -> Balance] /\ pc \in [Request -> GrantPC \cup UsagePC \cup WithdrawalPC]
      /\ CreditInvariant
  BY DEF SerialInvariant, CreditInvariant, CreditTypeOK
<1>1. ASSUME NEW g \in Grant, GrantStep(g)
      PROVE  [SerialAccount!AccountNext]_(SerialAccount!accountVars)
  <2>1. CASE CommitGrant(g)
    <3>1. Updates(g) /\ Written(g) = Granted(balance[Mine(g)], AmountOf[g])
      BY <2>1, SerialWrite DEF CommitGrant
    <3>2. \A o \in ledger \cap Grant : KeyOf[o] # KeyOf[g]
      BY <1>t, <2>1 DEF CommitGrant, CreditInvariant, KeysReserved, HasKey, IsDuplicate
    <3>3. SerialAccount!GrantOnce(g)
      BY <1>t, <2>1, <3>1, <3>2
         DEF CommitGrant, SerialAccount!GrantOnce, Granted, SerialAccount!Granted, Mine
    <3> QED  BY <3>3 DEF SerialAccount!AccountNext
  <2>2. CASE ~CommitGrant(g)
    BY <1>1, <2>2 DEF GrantStep, CheckDuplicate, SelectForUpdate, Save, InsertEntry,
       WriteRow, FlushConflict, FlushError
  <2> QED  BY <2>1, <2>2
<1>2. ASSUME NEW u \in Usage, UsageStep(u)
      PROVE  [SerialAccount!AccountNext]_(SerialAccount!accountVars)
  <2>1. CASE FinalizeUsage(u)
    <3>1. /\ CanCover(balance[Mine(u)], AmountOf[u])
          /\ view[u] = Used(balance[Mine(u)], AmountOf[u])
          /\ u \notin ledger
      BY <2>1 DEF FinalizeUsage, SerialInvariant
    <3>2. SerialAccount!Use(u)
      BY <1>t, <2>1, <3>1 DEF FinalizeUsage, SerialAccount!Use, Used, SerialAccount!Used,
         CanCover, SerialAccount!CanCover, Mine
    <3> QED  BY <3>2 DEF SerialAccount!AccountNext
  <2>2. CASE ~FinalizeUsage(u)
    BY <1>2, <2>2 DEF UsageStep, Reserve, RejectUse
  <2> QED  BY <2>1, <2>2
<1>3. ASSUME NEW r \in Request, Abort(r)
      PROVE  [SerialAccount!AccountNext]_(SerialAccount!accountVars)
  BY <1>3 DEF Abort
<1>4. CASE UNCHANGED creditVars
  BY <1>4 DEF creditVars
<1> QED  BY <1>1, <1>2, <1>3, <1>4 DEF CreditNext, BreakDeadlock, Settled

\* When every user has a row and nobody leaves, the interleaved transactions
\* implement the serial account: every commit moves the balance by its own
\* entry, keys are credited once and no analysis overdraws (grant
\* use_case.py:28-77, ocr use_case.py:43-98).
THEOREM SerialAccountImplemented ==
    ASSUME Settled PROVE CreditSpec => IsSerialAccount
<1>1. CreditInit => SerialInvariant
  BY InitSerial
<1>2. SerialInvariant /\ [CreditNext]_creditVars => SerialInvariant'
  BY NextSerial
<1>3. CreditInit => SerialAccount!AccountInit
  BY DEF CreditInit, SerialAccount!AccountInit, Settled, Zero, Granted
<1>4. SerialInvariant /\ [CreditNext]_creditVars =>
         [SerialAccount!AccountNext]_(SerialAccount!accountVars)
  BY SerialStep
<1> QED
  BY <1>1, <1>2, <1>3, <1>4, PTL DEF CreditSpec, IsSerialAccount, SerialAccount!AccountSpec

-----------------------------------------------------------------------------
(* The balance is the sum of the ledger *)

EntriesOf(u) == {r \in ledger : Mine(r) = u}

\* BalanceMatchesLedger with what its step needs: the sums are finite.
SummedLedger ==
    /\ IsFiniteSet(ledger)
    /\ BalanceMatchesLedger

LEMMA EntriesFinite ==
    ASSUME IsFiniteSet(ledger), NEW u
    PROVE  /\ IsFiniteSet(EntriesOf(u) \cap Grant)
           /\ IsFiniteSet(EntriesOf(u) \cap Usage)
<1>1. EntriesOf(u) \cap Grant \in SUBSET ledger /\ EntriesOf(u) \cap Usage \in SUBSET ledger
  BY DEF EntriesOf
<1> QED  BY <1>1, FS_Subset

LEMMA TotalIsSum == \A S : TotalAmount(S) = SumOver(AmountOf, S)
BY DEF TotalAmount, SumOver

\* An entry that joins the ledger joins the sum of its user and of its kind,
\* and no other sum.
LEMMA EntryJoinsItsSum ==
    ASSUME IsFiniteSet(ledger), ledger \subseteq Grant \cup Usage,
           NEW r \in Grant \cup Usage, r \notin ledger, ledger' = ledger \cup {r},
           NEW u \in User
    PROVE  /\ TotalAmount(EntriesOf(u)' \cap Grant) =
                 TotalAmount(EntriesOf(u) \cap Grant)
                    + (IF r \in Grant /\ u = Mine(r) THEN AmountOf[r] ELSE 0)
           /\ TotalAmount(EntriesOf(u)' \cap Usage) =
                 TotalAmount(EntriesOf(u) \cap Usage)
                    + (IF r \in Usage /\ u = Mine(r) THEN AmountOf[r] ELSE 0)
<1> DEFINE G == EntriesOf(u) \cap Grant
           U == EntriesOf(u) \cap Usage
<1>1. /\ EntriesOf(u)' \cap Grant = IF r \in Grant /\ u = Mine(r) THEN G \cup {r} ELSE G
      /\ EntriesOf(u)' \cap Usage = IF r \in Usage /\ u = Mine(r) THEN U \cup {r} ELSE U
      /\ r \notin G /\ r \notin U
  BY DEF EntriesOf, Mine
<1>2. IsFiniteSet(G) /\ IsFiniteSet(U)
  BY EntriesFinite
<1>3. /\ \A x \in G \cup {r} : AmountOf[x] \in Int
      /\ \A x \in U \cup {r} : AmountOf[x] \in Int
  BY DEF Request
<1> HIDE DEF G, U
<1>4. /\ SumOver(AmountOf, G \cup {r}) = SumOver(AmountOf, G) + AmountOf[r]
      /\ SumOver(AmountOf, U \cup {r}) = SumOver(AmountOf, U) + AmountOf[r]
  BY <1>1, <1>2, <1>3, SumGrows
<1>5. SumOver(AmountOf, G) \in Int /\ SumOver(AmountOf, U) \in Int
  BY <1>2, <1>3, SumTakesAnyElement
<1>6. SumOver(AmountOf, EntriesOf(u)' \cap Grant) =
         SumOver(AmountOf, G) + (IF r \in Grant /\ u = Mine(r) THEN AmountOf[r] ELSE 0)
  <2>1. CASE r \in Grant /\ u = Mine(r)
    BY <1>1, <1>4, <2>1
  <2>2. CASE ~ (r \in Grant /\ u = Mine(r))
    <3>1. EntriesOf(u)' \cap Grant = G
      BY <1>1, <2>2
    <3>2. SumOver(AmountOf, G) = SumOver(AmountOf, G) + 0
      BY <1>5
    <3> QED  BY <2>2, <3>1, <3>2
  <2> QED  BY <2>1, <2>2
<1>7. SumOver(AmountOf, EntriesOf(u)' \cap Usage) =
         SumOver(AmountOf, U) + (IF r \in Usage /\ u = Mine(r) THEN AmountOf[r] ELSE 0)
  <2>1. CASE r \in Usage /\ u = Mine(r)
    BY <1>1, <1>4, <2>1
  <2>2. CASE ~ (r \in Usage /\ u = Mine(r))
    <3>1. EntriesOf(u)' \cap Usage = U
      BY <1>1, <2>2
    <3>2. SumOver(AmountOf, U) = SumOver(AmountOf, U) + 0
      BY <1>5
    <3> QED  BY <2>2, <3>1, <3>2
  <2> QED  BY <2>1, <2>2
<1> QED  BY <1>6, <1>7, TotalIsSum DEF G, U

LEMMA InitSummed == ASSUME Settled, CreditInit PROVE SummedLedger
<1>1. IsFiniteSet(ledger)
  BY FS_EmptySet DEF CreditInit
<1>2. ASSUME NEW u \in User
      PROVE  TotalAmount(EntriesOf(u) \cap Grant) = 0 /\ TotalAmount(EntriesOf(u) \cap Usage) = 0
  <2>1. EntriesOf(u) \cap Grant = {} /\ EntriesOf(u) \cap Usage = {}
    BY DEF EntriesOf, CreditInit
  <2> QED  BY <2>1, TotalIsSum, SumOfNothing
<1> QED
  BY <1>1, <1>2 DEF SummedLedger, BalanceMatchesLedger, EntriesOf, CreditInit, Settled,
     Granted, Zero

\* Every step of the serial account keeps the sums.
LEMMA SerialKeepsSums ==
    ASSUME SerialInvariant, SummedLedger,
           [SerialAccount!AccountNext]_(SerialAccount!accountVars)
    PROVE  SummedLedger'
<1>1. /\ ledger \subseteq Grant \cup Usage
      /\ balance \in [User -> Balance]
      /\ IsFiniteSet(ledger)
      /\ \A u \in User :
            /\ balance[u].total = (IF u \in FirstOwners THEN FirstCount ELSE 0)
                                     + TotalAmount(EntriesOf(u) \cap Grant)
            /\ balance[u].used = TotalAmount(EntriesOf(u) \cap Usage)
  BY DEF SerialInvariant, CreditInvariant, CreditTypeOK, SummedLedger,
     BalanceMatchesLedger, EntriesOf
<1> DEFINE First(u) == IF u \in FirstOwners THEN FirstCount ELSE 0
           Matches(u) == /\ balance[u].total = First(u) + TotalAmount(EntriesOf(u) \cap Grant)
                         /\ balance[u].used = TotalAmount(EntriesOf(u) \cap Usage)
<1>2. ASSUME NEW r \in Grant \cup Usage, r \notin ledger, ledger' = ledger \cup {r},
             r \in Grant => balance' = [balance EXCEPT ![Mine(r)] = Granted(@, AmountOf[r])],
             r \in Usage => balance' = [balance EXCEPT ![Mine(r)] = Used(@, AmountOf[r])]
      PROVE  SummedLedger'
  <2>1. IsFiniteSet(ledger')
    BY <1>1, <1>2, FS_AddElement
  <2>2. ASSUME NEW u \in User PROVE Matches(u)'
    <3>1. /\ TotalAmount(EntriesOf(u)' \cap Grant) =
                TotalAmount(EntriesOf(u) \cap Grant)
                   + (IF r \in Grant /\ u = Mine(r) THEN AmountOf[r] ELSE 0)
          /\ TotalAmount(EntriesOf(u)' \cap Usage) =
                TotalAmount(EntriesOf(u) \cap Usage)
                   + (IF r \in Usage /\ u = Mine(r) THEN AmountOf[r] ELSE 0)
      BY <1>1, <1>2, EntryJoinsItsSum
    <3>2. /\ TotalAmount(EntriesOf(u) \cap Grant) \in Int
          /\ TotalAmount(EntriesOf(u) \cap Usage) \in Int
      <4>1. /\ IsFiniteSet(EntriesOf(u) \cap Grant)
            /\ IsFiniteSet(EntriesOf(u) \cap Usage)
        BY <1>1, EntriesFinite
      <4>2. \A x \in Grant \cup Usage : AmountOf[x] \in Int
        BY DEF Request
      <4> QED  BY <4>1, <4>2, TotalIsSum, SumTakesAnyElement
    <3>3. First(u) \in Int /\ AmountOf[r] \in Nat /\ Mine(r) \in User
      BY DEF Request, Mine
    <3>4. /\ balance'[u].total = balance[u].total
                + (IF r \in Grant /\ u = Mine(r) THEN AmountOf[r] ELSE 0)
          /\ balance'[u].used = balance[u].used
                + (IF r \in Usage /\ u = Mine(r) THEN AmountOf[r] ELSE 0)
      BY <1>1, <1>2, <3>3 DEF Granted, Used, Balance
    <3>5. Matches(u)
      BY <1>1
    <3> HIDE DEF First
    <3> QED  BY <3>1, <3>2, <3>3, <3>4, <3>5
  <2> QED  BY <2>1, <2>2 DEF SummedLedger, BalanceMatchesLedger, EntriesOf
<1>3. ASSUME NEW g \in Grant, SerialAccount!GrantOnce(g) PROVE SummedLedger'
  <2>1. g \notin ledger /\ g \notin Usage /\ ledger' = ledger \cup {g}
    BY <1>3 DEF SerialAccount!GrantOnce
  <2>2. balance' = [balance EXCEPT ![Mine(g)] = Granted(@, AmountOf[g])]
    BY <1>3 DEF SerialAccount!GrantOnce, SerialAccount!Granted, Granted, Mine
  <2> QED  BY <1>2, <2>1, <2>2
<1>4. ASSUME NEW u \in Usage, SerialAccount!Use(u) PROVE SummedLedger'
  <2>1. u \notin ledger /\ u \notin Grant /\ ledger' = ledger \cup {u}
    BY <1>4 DEF SerialAccount!Use
  <2>2. balance' = [balance EXCEPT ![Mine(u)] = Used(@, AmountOf[u])]
    BY <1>4 DEF SerialAccount!Use, SerialAccount!Used, Used, Mine
  <2> QED  BY <1>2, <2>1, <2>2
<1>5. CASE UNCHANGED SerialAccount!accountVars
  BY <1>5 DEF SerialAccount!accountVars, SummedLedger, BalanceMatchesLedger
<1> QED  BY <1>3, <1>4, <1>5 DEF SerialAccount!AccountNext

\* For users who have a row and are not withdrawn, the row is what their
\* ledger adds up to, however grants and analyses overlap: total is the sum
\* of the grants, used the sum of the analyses (repository.py:42-92).
THEOREM BalancesMatchLedgers ==
    ASSUME Settled PROVE CreditSpec => []BalanceMatchesLedger
<1>1. CreditInit => SerialInvariant /\ SummedLedger
  BY InitSerial, InitSummed
<1>2. SerialInvariant /\ [CreditNext]_creditVars => SerialInvariant'
  BY NextSerial
<1>3. SerialInvariant /\ SummedLedger /\ [CreditNext]_creditVars => SummedLedger'
  BY SerialStep, SerialKeepsSums
<1>4. SummedLedger => BalanceMatchesLedger
  BY DEF SummedLedger
<1> QED  BY <1>1, <1>2, <1>3, <1>4, PTL DEF CreditSpec

-----------------------------------------------------------------------------
(* Replays *)

\* A transaction of a user who has a row conflicts with the index of the key
\* only, whose entry is committed when the conflict is reported.
LEMMA StepReplays ==
    ASSUME Settled, SerialInvariant, [CreditNext]_creditVars,
           NEW g \in Grant, pc'[g] = "replayed", pc[g] # "replayed"
    PROVE  IsDuplicate(g)
<1>t. pc \in [Request -> GrantPC \cup UsagePC \cup WithdrawalPC] /\ g \in Request
  BY DEF SerialInvariant, CreditInvariant, CreditTypeOK, Request
<1>1. ASSUME NEW h \in Grant, GrantStep(h) PROVE IsDuplicate(g)
  <2>1. CASE CheckDuplicate(h)
    BY <1>t, <2>1 DEF CheckDuplicate
  <2>2. CASE SelectForUpdate(h)
    BY <1>t, <2>2 DEF SelectForUpdate
  <2>3. CASE Save(h)
    BY <1>t, <2>3 DEF Save
  <2>4. CASE InsertEntry(h) \/ WriteRow(h)
    BY <1>t, <2>4 DEF InsertEntry, WriteRow
  <2>5. CASE FlushConflict(h)
    BY <1>t, <2>5 DEF FlushConflict, Finish, RowConflict, SerialInvariant
  <2>6. CASE FlushError(h)
    BY <1>t, <2>6 DEF FlushError, Finish
  <2>7. CASE CommitGrant(h)
    BY <1>t, <2>7 DEF CommitGrant, Finish
  <2> QED
    BY <1>1, <2>1, <2>2, <2>3, <2>4, <2>5, <2>6, <2>7 DEF GrantStep
<1>2. ASSUME NEW u \in Usage, UsageStep(u) PROVE IsDuplicate(g)
  BY <1>t, <1>2 DEF UsageStep, Reserve, RejectUse, FinalizeUsage, Finish
<1>3. ASSUME NEW r \in Request, Abort(r) PROVE IsDuplicate(g)
  BY <1>t, <1>3 DEF Abort, Finish
<1>4. CASE UNCHANGED creditVars
  BY <1>4 DEF creditVars
<1> QED  BY <1>1, <1>2, <1>3, <1>4 DEF CreditNext, BreakDeadlock, Settled

\* A grant that is answered as a replay has been credited: for users who have
\* a row and are not withdrawn no other conflict is taken for a replay (the
\* conflict of two first grants over the row is: GrantedIsGranted, Promotions).
THEOREM ReplaysAreCredited ==
    ASSUME Settled PROVE CreditSpec => ReplayIsCredited
<1>1. CreditInit => SerialInvariant
  BY InitSerial
<1>2. SerialInvariant /\ [CreditNext]_creditVars => SerialInvariant'
  BY NextSerial
<1>3. SerialInvariant /\ [CreditNext]_creditVars =>
        [\A g \in Grant :
            pc'[g] = "replayed" /\ pc[g] # "replayed" =>
               \E o \in ledger \cap Grant : KeyOf[o] = KeyOf[g]]_creditVars
  BY StepReplays DEF IsDuplicate
<1> QED  BY <1>1, <1>2, <1>3, PTL DEF CreditSpec, ReplayIsCredited

-----------------------------------------------------------------------------
(* Who is stuck *)

\* The locks that are held afterwards are held now, but for that of r, who
\* has come to the statement that takes it.
LEMMA HoldersOfStep ==
    ASSUME CreditInvariant, HoldersInStep, NEW r \in Request,
           \A q \in Request : q # r => pc'[q] = pc[q],
           \A q \in locks' : q # r => q \in locks,
           r \in locks' => \/ r \in Grant /\ pc'[r] \in {"selected", "saved", "keyed", "flushed"}
                           \/ r \in Usage /\ pc'[r] = "reserved"
                           \/ r \in Withdrawal /\ pc'[r] = "walletDeleted",
           \/ erasing' = erasing
           \/ /\ r \in Withdrawal
              /\ erasing' = [erasing EXCEPT ![r] = {q \in ledger : Mine(q) = Mine(r)}]
    PROVE  HoldersInStep'
<1>0. erasing \in [Withdrawal -> SUBSET (Grant \cup Usage)] /\ locks \subseteq Request
  BY DEF CreditInvariant, CreditTypeOK
<1>1. \A w \in Withdrawal : \A q \in erasing'[w] : Mine(q) = Mine(w)
  BY <1>0 DEF HoldersInStep
<1>2. \A q \in locks' : \/ q \in Grant /\ pc'[q] \in {"selected", "saved", "keyed", "flushed"}
                        \/ q \in Usage /\ pc'[q] = "reserved"
                        \/ q \in Withdrawal /\ pc'[q] = "walletDeleted"
  BY <1>0 DEF HoldersInStep
<1> QED  BY <1>1, <1>2 DEF HoldersInStep, Mine

LEMMA HoldersOfRequest ==
    ASSUME CreditInvariant, HoldersInStep, NEW r \in Request,
           \/ r \in Grant /\ GrantStep(r)
           \/ r \in Usage /\ UsageStep(r)
           \/ r \in Withdrawal /\ WithdrawalStep(r)
           \/ Abort(r)
    PROVE  HoldersInStep'
<1>0. /\ pc \in [Request -> GrantPC \cup UsagePC \cup WithdrawalPC]
      /\ Grant \cap Usage = {} /\ Grant \cap Withdrawal = {} /\ Usage \cap Withdrawal = {}
  BY RequestsAssumption DEF CreditInvariant, CreditTypeOK
<1>1. CASE r \in Grant /\ GrantStep(r)
  <2>1. r \in locks' => pc'[r] \in {"selected", "saved", "keyed", "flushed"}
    <3>1. CASE CheckDuplicate(r)
      BY <1>0, <1>1, <3>1 DEF CheckDuplicate, HoldersInStep
    <3>2. CASE SelectForUpdate(r) \/ Save(r) \/ InsertEntry(r) \/ WriteRow(r)
      BY <1>0, <3>2 DEF SelectForUpdate, Save, InsertEntry, WriteRow
    <3>3. CASE FlushConflict(r) \/ FlushError(r) \/ CommitGrant(r)
      BY <3>3 DEF FlushConflict, FlushError, CommitGrant, Finish
    <3> QED  BY <1>1, <3>1, <3>2, <3>3 DEF GrantStep
  <2>2. /\ \A q \in Request : q # r => pc'[q] = pc[q]
        /\ \A q \in locks' : q # r => q \in locks
        /\ erasing' = erasing
    BY <1>0, <1>1 DEF GrantStep, CheckDuplicate, SelectForUpdate, Save, InsertEntry, WriteRow,
       FlushConflict, FlushError, CommitGrant, Finish
  <2> QED  BY <1>1, <2>1, <2>2, HoldersOfStep
<1>2. CASE r \in Usage /\ UsageStep(r)
  <2>1. r \in locks' => pc'[r] = "reserved"
    BY <1>0, <1>2 DEF UsageStep, Reserve, RejectUse, FinalizeUsage, Finish, HoldersInStep
  <2>2. /\ \A q \in Request : q # r => pc'[q] = pc[q]
        /\ \A q \in locks' : q # r => q \in locks
        /\ erasing' = erasing
    BY <1>0, <1>2 DEF UsageStep, Reserve, RejectUse, FinalizeUsage, Finish
  <2> QED  BY <1>2, <2>1, <2>2, HoldersOfStep
<1>3. CASE r \in Withdrawal /\ WithdrawalStep(r)
  <2>1. r \in locks' => pc'[r] = "walletDeleted"
    BY <1>0, <1>3 DEF WithdrawalStep, DeleteLedger, DeleteWallet, CommitWithdrawal, Finish,
       HoldersInStep
  <2>2. /\ \A q \in Request : q # r => pc'[q] = pc[q]
        /\ \A q \in locks' : q # r => q \in locks
        /\ \/ erasing' = erasing
           \/ erasing' = [erasing EXCEPT ![r] = {q \in ledger : Mine(q) = Mine(r)}]
    BY <1>0, <1>3 DEF WithdrawalStep, DeleteLedger, DeleteWallet, CommitWithdrawal, Finish
  <2> QED  BY <1>3, <2>1, <2>2, HoldersOfStep
<1>4. CASE Abort(r)
  <2>1. /\ \A q \in Request : q # r => pc'[q] = pc[q]
        /\ \A q \in locks' : q # r => q \in locks
        /\ r \notin locks' /\ erasing' = erasing
    BY <1>0, <1>4 DEF Abort, Finish
  <2> QED  BY <2>1, HoldersOfStep
<1> QED  BY <1>1, <1>2, <1>3, <1>4

LEMMA HoldersStayInStep ==
    ASSUME CreditInvariant, HoldersInStep, [CreditNext]_creditVars
    PROVE  HoldersInStep'
<1>1. CASE UNCHANGED creditVars
  BY <1>1 DEF creditVars, HoldersInStep, Mine
<1>2. CASE CreditNext
  <2>1. PICK r \in Request : \/ r \in Grant /\ GrantStep(r)
                             \/ r \in Usage /\ UsageStep(r)
                             \/ r \in Withdrawal /\ WithdrawalStep(r)
                             \/ Abort(r)
    BY <1>2 DEF CreditNext, BreakDeadlock, Request
  <2> QED  BY <2>1, HoldersOfRequest
<1> QED  BY <1>1, <1>2

\* Whoever has a row and waits is a grant that is to insert its entry: nobody
\* else has the row, or has written it.
LEMMA WaitingHolder ==
    ASSUME CreditInvariant, HoldersInStep, NEW r \in locks, NEW q, BlockedBy(r, q)
    PROVE  r \in Grant /\ pc[r] = "saved"
<1>1. ~(q \in locks /\ Mine(q) = Mine(r))
  BY DEF BlockedBy, CreditInvariant, LockExclusion
<1> QED  BY <1>1, RequestsAssumption DEF HoldersInStep, BlockedBy, WantsRow, WroteRowOf

\* What it waits for is the key of a withdrawal that is deleting the entry, or
\* of another grant; if that one waits as well, it is for the row.
LEMMA HolderWaitsInPair ==
    ASSUME CreditInvariant, HoldersInStep, KeysNameUsers,
           NEW g \in locks, g \in Grant, pc[g] = "saved",
           NEW r, BlockedBy(g, r), NEW h, BlockedBy(r, h)
    PROVE  Deadlocked(g, r)
<1>0. /\ LockExclusion /\ erasing \in [Withdrawal -> SUBSET (Grant \cup Usage)]
      /\ inserting \subseteq Grant
      /\ Grant \cap Usage = {} /\ Grant \cap Withdrawal = {} /\ Usage \cap Withdrawal = {}
  BY RequestsAssumption DEF CreditInvariant, CreditTypeOK
<1>1. \/ r \in Withdrawal /\ ErasesKey(r, g)
      \/ r \in Grant /\ KeyOf[r] = KeyOf[g] /\ HasKey(r)
  BY <1>0 DEF BlockedBy, WantsRow
<1>2. Mine(r) = Mine(g) /\ r # g
  <2>1. CASE r \in Withdrawal /\ ErasesKey(r, g)
    BY <2>1 DEF ErasesKey, HoldersInStep, KeysNameUsers, BlockedBy
  <2>2. CASE r \in Grant /\ KeyOf[r] = KeyOf[g]
    BY <2>2 DEF KeysNameUsers, BlockedBy
  <2> QED  BY <1>1, <2>1, <2>2
<1>3. \/ WantsRow(r) /\ h \in locks /\ Mine(h) = Mine(r)
      \/ WroteRowOf(h, r)
  BY <1>0, <1>1 DEF BlockedBy, ErasesKey, Erasing, HasKey
<1>4. h = g /\ ~WroteRowOf(h, r)
  BY <1>0, <1>2, <1>3 DEF LockExclusion, WroteRowOf
<1>5. BlockedBy(r, g)
  BY <1>2, <1>3, <1>4 DEF BlockedBy
<1> QED  BY <1>5 DEF Deadlocked

\* Who is waited for has not ended, and if it waits itself it has the row or
\* waits for whoever has it.
LEMMA BlockersWait ==
    ASSUME CreditInvariant, HoldersInStep, NEW r \in Request, NEW q \in Request, BlockedBy(r, q)
    PROVE  /\ pc[q] \notin Final
           /\ \A h : BlockedBy(q, h) => q \in locks \/ h \in locks
<1>0. Grant \cap Usage = {} /\ Grant \cap Withdrawal = {} /\ Usage \cap Withdrawal = {}
  BY RequestsAssumption
<1>1. CASE q \in locks
  BY <1>1 DEF HoldersInStep, Final
<1>2. CASE q \in Grant /\ HasKey(q)
  BY <1>0, <1>2 DEF BlockedBy, WroteRowOf, HasKey, Final
<1>3. CASE q \in Withdrawal /\ Erasing(q)
  <2>1. \A h : BlockedBy(q, h) => h \in locks
    BY <1>0, <1>3 DEF BlockedBy, WroteRowOf, Erasing
  <2> QED  BY <1>3, <2>1 DEF Erasing, Final
<1> QED  BY <1>1, <1>2, <1>3 DEF BlockedBy, WroteRowOf, ErasesKey

\* In a group in which everybody waits for another one, the waits lead to a
\* grant that has the row, and from there to the key it waits for and back.
LEMMA WaitsEndInPairs ==
    ASSUME CreditInvariant, HoldersInStep, KeysNameUsers
    PROVE  OnlyPairsAreStuck
<1> SUFFICES ASSUME NEW S \in SUBSET {r \in Request : pc[r] \notin Final}, S # {},
                    \A r \in S : \E q \in Request :
                       BlockedBy(r, q) /\ ~(pc[q] \notin Final /\ q \notin S)
             PROVE  \E g \in S \cap Grant, r \in S :
                       g \in locks /\ pc[g] = "saved" /\ Deadlocked(g, r)
  BY DEF OnlyPairsAreStuck
<1>1. \A r \in S : \E q \in S : BlockedBy(r, q)
  BY BlockersWait
<1>2. \E r \in S : r \in locks
  <2>1. PICK r \in S : TRUE
    OBVIOUS
  <2>2. PICK q \in S : BlockedBy(r, q)
    BY <1>1
  <2>3. PICK h \in S : BlockedBy(q, h)
    BY <1>1
  <2> QED  BY <2>2, <2>3, BlockersWait
<1>3. PICK g \in S : g \in locks
  BY <1>2
<1>4. PICK r \in S : BlockedBy(g, r)
  BY <1>1
<1>5. PICK h \in S : BlockedBy(r, h)
  BY <1>1
<1>6. g \in Grant /\ pc[g] = "saved"
  BY <1>3, <1>4, WaitingHolder
<1> QED  BY <1>3, <1>4, <1>5, <1>6, HolderWaitsInPair

\* However many grants, analyses and withdrawals overlap, the only requests
\* that wait in a circle are a grant that has the row of a user and one that
\* has the key of that grant and waits for the row: a withdrawal that has
\* deleted the ledger, or a grant that has inserted its entry first.  That is
\* what the deadlock detector has to break (repository.py:42-51, 94-100,
\* 132-136).
THEOREM OnlyPairsGetStuck ==
    ASSUME KeysNameUsers
    PROVE  CreditSpec => []OnlyPairsAreStuck
<1>1. CreditInit => HoldersInStep
  BY DEF CreditInit, HoldersInStep
<1>2. CreditInvariant /\ HoldersInStep /\ [CreditNext]_creditVars => HoldersInStep'
  BY HoldersStayInStep
<1>3. CreditInvariant /\ HoldersInStep => OnlyPairsAreStuck
  BY WaitsEndInPairs
<1> QED  BY <1>1, <1>2, <1>3, CreditInvariantHolds, PTL DEF CreditSpec

=============================================================================
