------------------------------- MODULE Credits -------------------------------
(***************************************************************************)
(* The credit account of modules/credits and the requests that change it:  *)
(* grants (grant_credit), OCR analyses (reserve_credit, the external OCR   *)
(* call of modules/ocr, finalize_credit_usage) and account withdrawals     *)
(* (delete_user_credits).                                                  *)
(*                                                                         *)
(* Every request runs in a database transaction of its own, at PostgreSQL's *)
(* READ COMMITTED: a statement sees what was committed when it started, a  *)
(* row lock is held to the end of the transaction, and SELECT .. FOR       *)
(* UPDATE locks nothing when there is no row.  The committed tables are    *)
(* owners and balance (user_credits) and ledger (credit_transactions).     *)
(* A ledger entry is named by the request that appended it.                *)
(***************************************************************************)
EXTENDS Integers, FiniteSetsExt

CONSTANTS
    User,
    Grant,          \* requests that grant credits
    Usage,          \* OCR analyses, which spend credits
    Withdrawal,     \* account withdrawals
    Key,            \* idempotency keys
    UserOf,         \* the user of a request
    AmountOf,       \* what it grants or spends
    KeyOf,          \* the idempotency key of a grant
    FirstOwners,    \* the users that have a user_credits row to begin with
    FirstCount      \* the credits those users have been granted before

Request == Grant \cup Usage \cup Withdrawal

ASSUME RequestsAssumption ==
    /\ Grant \cap Usage = {}
    /\ Grant \cap Withdrawal = {}
    /\ Usage \cap Withdrawal = {}

ASSUME AttributesAssumption ==
    /\ UserOf \in [Request -> User]
    /\ AmountOf \in [Request -> Nat \ {0}]
    /\ KeyOf \in [Grant -> Key]
    /\ FirstOwners \subseteq User
    /\ FirstCount \in Nat

VARIABLES
    owners,     \* users that have a committed user_credits row
    balance,    \* the committed counts of that row
    ledger,     \* requests whose entry in credit_transactions is committed
    pc,         \* where a request is
    view,       \* the UserCredit aggregate a request works on
    loaded,     \* the counts of the record that save() found
    inserting,  \* requests whose save() found no record and adds one
    locks,      \* requests that hold the lock of their user's row
    erasing     \* the entries that a withdrawal has deleted, uncommitted

tables == <<owners, balance, ledger>>
memory == <<view, loaded, inserting>>
creditVars == <<tables, pc, memory, locks, erasing>>

Balance == [total : Nat, used : Nat, remaining : Nat]

\* What the mapper makes of a missing row.
Zero == [total |-> 0, used |-> 0, remaining |-> 0]

-----------------------------------------------------------------------------
(* State helpers *)

Mine(r) == UserOf[r]

\* UserCredit.grant and UserCredit.use, with the invariant of CreditBalance.
Granted(b, n) ==
    [total |-> b.total + n, used |-> b.used, remaining |-> b.remaining + n]
Used(b, n) ==
    [total |-> b.total, used |-> b.used + n, remaining |-> b.remaining - n]
CanCover(b, n) == b.remaining >= n

\* No other transaction holds the lock of r's user_credits row, an
\* uncommitted insert of that row included.
Unlocked(r) == \A o \in locks : Mine(o) = Mine(r) => o = r

\* q has more than the lock of r's row: an uncommitted insert, update or
\* deletion of it.
WroteRowOf(q, r) ==
    q \in locks /\ Mine(q) = Mine(r) /\ pc[q] \in {"flushed", "walletDeleted"}

\* Mutant: any grant of the user counts as the same grant.
IsDuplicateOfUser(g) == \E o \in ledger \cap Grant : Mine(o) = Mine(g)

\* _is_duplicate_grant: a committed entry has the key already.
IsDuplicate(g) == \E o \in ledger \cap Grant : KeyOf[o] = KeyOf[g]

\* A withdrawal that has deleted ledger entries and not committed yet.
Erasing(w) == pc[w] \in {"ledgerDeleted", "walletDeleted"}

ErasesKey(w, g) ==
    Erasing(w) /\ \E o \in erasing[w] \cap Grant : KeyOf[o] = KeyOf[g]

\* The entry of g is inserted and not committed yet.
HasKey(g) == pc[g] \in {"keyed", "flushed"}

\* The unique index makes g wait for an uncommitted entry with its key, and
\* for an uncommitted deletion of one.
KeyPending(g) ==
    \/ \E o \in Grant : o # g /\ HasKey(o) /\ KeyOf[o] = KeyOf[g]
    \/ \E w \in Withdrawal : ErasesKey(w, g)

\* The UPDATE the session emits: only the columns that differ from the
\* record save() found are set, on the row as it is when the lock is won.
Overlay(row, old, new) ==
    [total |-> IF new.total # old.total THEN new.total ELSE row.total,
     used |-> IF new.used # old.used THEN new.used ELSE row.used,
     remaining |-> IF new.remaining # old.remaining THEN new.remaining ELSE row.remaining]

\* ck_user_credits_counts_consistent
Consistent(b) == b.total = b.used + b.remaining

Finish(r, result) ==
    /\ pc' = [pc EXCEPT ![r] = result]
    /\ locks' = locks \ {r}

-----------------------------------------------------------------------------
CreditInit ==
    /\ owners = FirstOwners
    /\ balance = [u \in User |->
                     IF u \in FirstOwners THEN Granted(Zero, FirstCount) ELSE Zero]
    /\ ledger = {}
    /\ pc = [r \in Request |-> "start"]
    /\ view = [r \in Request |-> Zero]
    /\ loaded = [r \in Request |-> Zero]
    /\ inserting = {}
    /\ locks = {}
    /\ erasing = [w \in Withdrawal |-> {}]

-----------------------------------------------------------------------------
(* Granting: GrantCreditCommandUseCase.execute *)

CheckDuplicate(g) ==
    /\ pc[g] = "start"
    /\ pc' = [pc EXCEPT ![g] = IF IsDuplicate(g) THEN "replayed" ELSE "checked"]
    /\ UNCHANGED <<tables, memory, locks, erasing>>

\* get_user_credit_for_update, then UserCredit.grant on the result.
SelectForUpdate(g) ==
    LET u == Mine(g) IN
    /\ pc[g] = "checked"
    /\ u \in owners => Unlocked(g)
    /\ locks' = IF u \in owners THEN locks \cup {g} ELSE locks
    /\ view' = [view EXCEPT ![g] = Granted(balance[u], AmountOf[g])]
    /\ pc' = [pc EXCEPT ![g] = "selected"]
    /\ UNCHANGED <<tables, loaded, inserting, erasing>>

\* save() looks the record up again: a row that was missing in the SELECT
\* above may be there by now.
Save(g) ==
    /\ pc[g] = "selected"
    /\ inserting' = IF Mine(g) \in owners THEN inserting ELSE inserting \cup {g}
    /\ loaded' = [loaded EXCEPT ![g] = balance[Mine(g)]]
    /\ pc' = [pc EXCEPT ![g] = "saved"]
    /\ UNCHANGED <<tables, view, locks, erasing>>

\* Does the flush update the row, and what would it leave there?
Updates(g) == g \notin inserting /\ view[g] # loaded[g]
Written(g) == IF g \in inserting THEN view[g]
              ELSE Overlay(balance[Mine(g)], loaded[g], view[g])

\* flush_pending_writes emits two statements.  The unit of work takes the
\* mappers in the order of their class names, so that the entry is inserted
\* first (CreditTransaction) and the row is written after it (UserCredit): a
\* grant has its key while it waits for the row.
CanInsertEntry(g) == pc[g] = "saved" /\ ~KeyPending(g)

\* Mutant: the ledger has no unique index.
InsertEntryAnyway(g) ==
    /\ pc[g] = "saved"
    /\ pc' = [pc EXCEPT ![g] = "keyed"]
    /\ UNCHANGED <<tables, memory, locks, erasing>>

InsertEntry(g) ==
    /\ CanInsertEntry(g) /\ ~IsDuplicate(g)
    /\ pc' = [pc EXCEPT ![g] = "keyed"]
    /\ UNCHANGED <<tables, memory, locks, erasing>>

\* An INSERT waits for those who have written the row, since a row that is
\* only locked is there and violates the primary key at once; an UPDATE waits
\* for every lock of the row it finds.
CanWriteRow(g) ==
    /\ pc[g] = "keyed"
    /\ g \in inserting => \A o \in Grant \cup Withdrawal : ~WroteRowOf(o, g)
    /\ Updates(g) /\ Mine(g) \in owners => Unlocked(g)

\* pk_user_credits is violated.
RowConflict(g) == g \in inserting /\ Mine(g) \in owners

\* The row to update is gone, or the update breaks its check constraint.
WriteError(g) ==
    Updates(g) /\ (Mine(g) \notin owners \/ ~Consistent(Written(g)))

WriteRow(g) ==
    /\ CanWriteRow(g)
    /\ ~RowConflict(g) /\ ~WriteError(g)
    /\ locks' = IF g \in inserting \/ Updates(g) THEN locks \cup {g} ELSE locks
    /\ pc' = [pc EXCEPT ![g] = "flushed"]
    /\ UNCHANGED <<tables, memory, erasing>>

\* CreditTransactionWriteConflictError, for the key or for the row, and a key
\* is given: rollback, and the balance as it stands is the result.
FlushConflict(g) ==
    /\ \/ CanInsertEntry(g) /\ IsDuplicate(g)
       \/ CanWriteRow(g) /\ RowConflict(g)
    /\ Finish(g, "replayed")
    /\ UNCHANGED <<tables, memory, erasing>>

\* Any other database error reaches the caller.
FlushError(g) ==
    /\ CanWriteRow(g)
    /\ WriteError(g)
    /\ Finish(g, "failed")
    /\ UNCHANGED <<tables, memory, erasing>>

CommitGrant(g) ==
    /\ pc[g] = "flushed"
    /\ owners' = IF g \in inserting THEN owners \cup {Mine(g)} ELSE owners
    /\ balance' = IF g \in inserting \/ Updates(g)
                  THEN [balance EXCEPT ![Mine(g)] = Written(g)]
                  ELSE balance
    /\ ledger' = ledger \cup {g}
    /\ Finish(g, "granted")
    /\ UNCHANGED <<memory, erasing>>

-----------------------------------------------------------------------------
(* Using: ExtractReceiptOcrCommandUseCase.execute *)

\* Mutants: the analysis does not ask whether the balance covers it, or
\* reads the row without FOR UPDATE.
ReserveOverdrawn(u) ==
    /\ pc[u] = "start"
    /\ Mine(u) \in owners
    /\ Unlocked(u)
    /\ locks' = locks \cup {u}
    /\ view' = [view EXCEPT ![u] = Used(balance[Mine(u)], AmountOf[u])]
    /\ loaded' = [loaded EXCEPT ![u] = balance[Mine(u)]]
    /\ pc' = [pc EXCEPT ![u] = "reserved"]
    /\ UNCHANGED <<tables, inserting, erasing>>

ReserveWithoutLock(u) ==
    /\ pc[u] = "start"
    /\ Mine(u) \in owners
    /\ CanCover(balance[Mine(u)], AmountOf[u])
    /\ view' = [view EXCEPT ![u] = Used(balance[Mine(u)], AmountOf[u])]
    /\ loaded' = [loaded EXCEPT ![u] = balance[Mine(u)]]
    /\ pc' = [pc EXCEPT ![u] = "reserved"]
    /\ UNCHANGED <<tables, inserting, locks, erasing>>

\* ReserveCreditCommandUseCase locks the row and deducts in the session; no
\* one can change the row before save() finds it again.
Reserve(u) ==
    /\ pc[u] = "start"
    /\ Mine(u) \in owners
    /\ Unlocked(u)
    /\ CanCover(balance[Mine(u)], AmountOf[u])
    /\ locks' = locks \cup {u}
    /\ view' = [view EXCEPT ![u] = Used(balance[Mine(u)], AmountOf[u])]
    /\ loaded' = [loaded EXCEPT ![u] = balance[Mine(u)]]
    /\ pc' = [pc EXCEPT ![u] = "reserved"]
    /\ UNCHANGED <<tables, inserting, erasing>>

\* InsufficientCreditError, for a user without a row too.
RejectUse(u) ==
    /\ pc[u] = "start"
    /\ Mine(u) \in owners => Unlocked(u)
    /\ ~CanCover(balance[Mine(u)], AmountOf[u])
    /\ pc' = [pc EXCEPT ![u] = "rejected"]
    /\ UNCHANGED <<tables, memory, locks, erasing>>

\* Mutant: the transaction stays open after the analysis.
FinalizeUsageHeld(u) ==
    /\ pc[u] = "reserved"
    /\ balance' = [balance EXCEPT ![Mine(u)] = view[u]]
    /\ ledger' = ledger \cup {u}
    /\ pc' = [pc EXCEPT ![u] = "used"]
    /\ UNCHANGED <<owners, memory, locks, erasing>>

\* The OCR client answers and the policy accepts: finalize_credit_usage
\* appends the entry and commits it with the deduction.
FinalizeUsage(u) ==
    /\ pc[u] = "reserved"
    /\ balance' = [balance EXCEPT ![Mine(u)] = view[u]]
    /\ ledger' = ledger \cup {u}
    /\ Finish(u, "used")
    /\ UNCHANGED <<owners, memory, erasing>>

-----------------------------------------------------------------------------
(* Withdrawing: DeleteUserCreditsCommandUseCase inside the auth withdrawal *)

\* DELETE FROM credit_transactions sees the committed entries only, and waits
\* for another withdrawal that is deleting them.
DeleteLedger(w) ==
    /\ pc[w] = "start"
    /\ \A o \in Withdrawal : Erasing(o) /\ Mine(o) = Mine(w) => erasing[o] = {}
    /\ erasing' = [erasing EXCEPT ![w] = {r \in ledger : Mine(r) = Mine(w)}]
    /\ pc' = [pc EXCEPT ![w] = "ledgerDeleted"]
    /\ UNCHANGED <<tables, memory, locks>>

\* DELETE FROM user_credits waits for the row's lock, if there is a row.
DeleteWallet(w) ==
    /\ pc[w] = "ledgerDeleted"
    /\ Mine(w) \in owners => Unlocked(w)
    /\ locks' = IF Mine(w) \in owners THEN locks \cup {w} ELSE locks
    /\ pc' = [pc EXCEPT ![w] = "walletDeleted"]
    /\ UNCHANGED <<tables, memory, erasing>>

CommitWithdrawal(w) ==
    /\ pc[w] = "walletDeleted"
    /\ owners' = IF w \in locks THEN owners \ {Mine(w)} ELSE owners
    /\ balance' = IF w \in locks THEN [balance EXCEPT ![Mine(w)] = Zero] ELSE balance
    /\ ledger' = ledger \ erasing[w]
    /\ Finish(w, "withdrawn")
    /\ UNCHANGED <<memory, erasing>>

-----------------------------------------------------------------------------
(* The process dies, the client goes away, the OCR call fails or its result *)
(* is rejected: the transaction is rolled back.                             *)

Final == {"granted", "replayed", "used", "rejected", "withdrawn", "failed"}

Abort(r) ==
    /\ pc[r] \notin Final
    /\ Finish(r, "failed")
    /\ UNCHANGED <<tables, memory, erasing>>

-----------------------------------------------------------------------------
(* Waiting, and the deadlocks that PostgreSQL finds *)

\* The next statement of r locks the row of its user, which it finds.
WantsRow(r) ==
    /\ \/ r \in Usage /\ pc[r] = "start"
       \/ r \in Grant /\ pc[r] = "checked"
       \/ r \in Grant /\ pc[r] = "keyed" /\ Updates(r)
       \/ r \in Withdrawal /\ pc[r] = "ledgerDeleted"
    /\ Mine(r) \in owners

\* r waits for the row, a key or entries of the ledger that q has.
BlockedBy(r, q) ==
    /\ r # q
    /\ \/ WantsRow(r) /\ q \in locks /\ Mine(q) = Mine(r)
       \/ r \in inserting /\ pc[r] = "keyed" /\ WroteRowOf(q, r)
       \/ /\ {r, q} \subseteq Grant /\ KeyOf[r] = KeyOf[q]
          /\ pc[r] = "saved" /\ HasKey(q)
       \/ r \in Grant /\ q \in Withdrawal /\ pc[r] = "saved" /\ ErasesKey(q, r)
       \/ /\ {r, q} \subseteq Withdrawal /\ Mine(q) = Mine(r)
          /\ pc[r] = "start" /\ Erasing(q) /\ erasing[q] # {}

\* Two requests wait for each other: one of them is aborted.
Deadlocked(q, r) == BlockedBy(q, r) /\ BlockedBy(r, q)

BreakDeadlock(q, r) == Deadlocked(q, r) /\ (Abort(q) \/ Abort(r))

-----------------------------------------------------------------------------
GrantStep(g) ==
    \/ CheckDuplicate(g)
    \/ SelectForUpdate(g)
    \/ Save(g)
    \/ InsertEntry(g)
    \/ WriteRow(g)
    \/ FlushConflict(g)
    \/ FlushError(g)
    \/ CommitGrant(g)

UsageStep(u) == Reserve(u) \/ RejectUse(u) \/ FinalizeUsage(u)

WithdrawalStep(w) == DeleteLedger(w) \/ DeleteWallet(w) \/ CommitWithdrawal(w)

CreditNext ==
    \/ \E g \in Grant : GrantStep(g)
    \/ \E u \in Usage : UsageStep(u)
    \/ \E w \in Withdrawal : WithdrawalStep(w)
    \/ \E q, r \in Request : BreakDeadlock(q, r)
    \/ \E r \in Request : Abort(r)

CreditSpec == CreditInit /\ [][CreditNext]_creditVars

\* PostgreSQL grants a lock that is free and breaks deadlocks, a coroutine is
\* scheduled, and the OCR client answers or runs into its timeout
\* (receipt_ocr_client.py:388).
CreditFairness ==
    /\ \A g \in Grant : WF_creditVars(GrantStep(g))
    /\ \A u \in Usage : WF_creditVars(UsageStep(u) \/ (pc[u] = "reserved" /\ Abort(u)))
    /\ \A w \in Withdrawal : WF_creditVars(WithdrawalStep(w))
    /\ WF_creditVars(\E q, r \in Request : BreakDeadlock(q, r))

CreditFairSpec == CreditSpec /\ CreditFairness

-----------------------------------------------------------------------------
(* Properties *)

GrantPC == {"start", "checked", "selected", "saved", "keyed", "flushed",
            "granted", "replayed", "failed"}
UsagePC == {"start", "reserved", "used", "rejected", "failed"}
WithdrawalPC == {"start", "ledgerDeleted", "walletDeleted", "withdrawn", "failed"}

\* Every variable has its type; the committed counts pass the check
\* constraints of user_credits (orm.py:15-35) and nothing is ever negative.
CreditTypeOK ==
    /\ owners \subseteq User
    /\ balance \in [User -> Balance]
    /\ \A u \in User : Consistent(balance[u])
    /\ ledger \subseteq Grant \cup Usage
    /\ pc \in [Request -> GrantPC \cup UsagePC \cup WithdrawalPC]
    /\ view \in [Request -> Balance]
    /\ loaded \in [Request -> Balance]
    /\ inserting \subseteq Grant
    /\ locks \subseteq Request
    /\ erasing \in [Withdrawal -> SUBSET (Grant \cup Usage)]

\* The credits of a set of entries.
TotalAmount(S) == MapThenSumSet(LAMBDA r : AmountOf[r], S)

\* The user_credits row is the sum of the user's ledger: what was granted
\* and what was used.  This is what makes the remaining count worth its name
\* when grants and analyses of a user overlap (repository.py:42-92).
BalanceMatchesLedger ==
    \A u \in User :
        LET mine == {r \in ledger : Mine(r) = u}
            first == IF u \in FirstOwners THEN FirstCount ELSE 0
        IN /\ balance[u].total = first + TotalAmount(mine \cap Grant)
           /\ balance[u].used = TotalAmount(mine \cap Usage)

\* When every user has a row and nobody leaves, the transactions are a
\* serial account: each commit moves the balance by exactly the amount of
\* the entry it adds, whatever was interleaved (grant use_case.py:28-77,
\* ocr use_case.py:43-98).
SerialAccount == INSTANCE Account
IsSerialAccount == SerialAccount!AccountSpec

\* A promotion or a request retried with its key is credited at most once,
\* even by two transactions that both found no entry with the key
\* (use_case.py:79-95 checks without a lock; orm.py:118-123 is the guard).
KeyCreditedOnce ==
    \A o \in ledger \cap Grant, p \in ledger \cap Grant :
        KeyOf[o] = KeyOf[p] => o = p

\* A grant that is answered as an idempotent replay has been credited: an
\* entry with its key was committed before (use_case.py:29-34 and 65-73).
ReplayIsCredited ==
    [][\A g \in Grant :
          pc'[g] = "replayed" /\ pc[g] # "replayed" =>
             \E o \in ledger \cap Grant : KeyOf[o] = KeyOf[g]]_creditVars

\* Two transactions never hold the lock of one user's row, the one of an
\* uncommitted insert included.
LockExclusion ==
    \A o \in locks, p \in locks : Mine(o) = Mine(p) => o = p

\* The balance a transaction has locked is the one it leaves or finds: an
\* analysis decides on a balance that no one changes while the OCR call
\* runs (ocr use_case.py:51-53), and a grant on the one it adds to.
HeldRowUnchanged ==
    [][\A r \in locks, q \in Request :
          Mine(q) = Mine(r) /\ pc'[q] # pc[q] /\ q # r =>
             UNCHANGED <<balance[Mine(r)], Mine(r) \in owners>>]_creditVars

\* A grant that has the row of a user may wait for a key that a withdrawal or
\* another grant of that user has, which waits for the row, and that is the
\* only way in which requests get stuck: any other group of them has one that
\* waits for none of the group and for none that has ended (repository.py:
\* 42-51, 94-100, 132-136).
OnlyPairsAreStuck ==
    \A S \in SUBSET {r \in Request : pc[r] \notin Final} :
        S # {} =>
           \/ \E g \in S \cap Grant, r \in S :
                 g \in locks /\ pc[g] = "saved" /\ Deadlocked(g, r)
           \/ \E r \in S : \A q \in Request :
                 BlockedBy(r, q) => pc[q] \notin Final /\ q \notin S

\* The keys of different users differ (_idempotency_key of the redemptions).
KeysNameUsers == \A g, h \in Grant : KeyOf[g] = KeyOf[h] => Mine(g) = Mine(h)

\* Nobody waits for a row lock for ever: every request gets to an answer.
EveryRequestEnds == \A r \in Request : <>(pc[r] \in Final)

-----------------------------------------------------------------------------
(* Why: the inductive invariants of the proofs *)

\* A transaction that is going to write the row holds its lock.
WritersHoldLock ==
    /\ \A g \in Grant :
          pc[g] = "flushed" /\ (g \in inserting \/ Updates(g)) => g \in locks
    /\ \A u \in Usage : pc[u] = "reserved" => u \in locks

\* What a transaction is going to write passes the check constraints.
WritesAreConsistent ==
    /\ \A r \in Request : Consistent(view[r])
    /\ \A g \in Grant :
          pc[g] = "flushed" /\ Updates(g) => Consistent(Written(g))

\* An entry that is inserted has its key to itself.
KeysReserved ==
    \A g \in Grant :
        HasKey(g) =>
           /\ \A o \in Grant : HasKey(o) /\ KeyOf[o] = KeyOf[g] => o = g
           /\ ~IsDuplicate(g)

\* The lock of a row is that of a committed row or of the holder's own insert.
LockedRowsExist ==
    \A o \in locks : Mine(o) \in owners \/ (o \in inserting /\ pc[o] = "flushed")

\* The strengthening behind CreditTypeOK, LockExclusion, KeyCreditedOnce and
\* HeldRowUnchanged: the locks of flush_pending_writes and of SELECT .. FOR
\* UPDATE last to the commit (repository.py:42-51, 94-100).
CreditInvariant ==
    /\ CreditTypeOK
    /\ LockExclusion
    /\ LockedRowsExist
    /\ WritersHoldLock
    /\ WritesAreConsistent
    /\ KeysReserved
    /\ KeyCreditedOnce

\* Who holds a lock has come to the statement that takes it and not to the end
\* of its transaction, and a withdrawal deletes entries of its user.
HoldersInStep ==
    /\ \A r \in locks : \/ r \in Grant /\ pc[r] \in {"selected", "saved", "keyed", "flushed"}
                        \/ r \in Usage /\ pc[r] = "reserved"
                        \/ r \in Withdrawal /\ pc[r] = "walletDeleted"
    /\ \A w \in Withdrawal : \A r \in erasing[w] : Mine(r) = Mine(w)

\* The strengthening behind IsSerialAccount, when every user has a row and
\* nobody leaves: from its SELECT .. FOR UPDATE on, a transaction works on
\* the balance as it is (repository.py:42-72).
SerialInvariant ==
    /\ CreditInvariant
    /\ owners = User /\ inserting = {}
    /\ \A g \in Grant :
          pc[g] \in {"selected", "saved", "keyed", "flushed"} =>
             g \in locks /\ view[g] = Granted(balance[Mine(g)], AmountOf[g])
    /\ \A g \in Grant :
          pc[g] \in {"saved", "keyed", "flushed"} => loaded[g] = balance[Mine(g)]
    /\ \A u \in Usage :
          pc[u] = "reserved" =>
             /\ CanCover(balance[Mine(u)], AmountOf[u])
             /\ view[u] = Used(balance[Mine(u)], AmountOf[u])
    /\ \A u \in ledger \cap Usage : pc[u] = "used"

=============================================================================
