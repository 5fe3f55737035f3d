------------------------------- MODULE Account -------------------------------
(***************************************************************************)
(* What modules/credits promises of a user's credits: a grant or a use is  *)
(* one step, which adds an entry to the ledger and moves the balance by    *)
(* that entry's amount.  No two entries come from the same idempotency key *)
(* and no use exceeds what remains.  Credits implements it with            *)
(* transactions and row locks.                                             *)
(***************************************************************************)
EXTENDS Integers

CONSTANTS User, Grant, Usage, UserOf, AmountOf, KeyOf, FirstCount

VARIABLES balance, ledger

accountVars == <<balance, ledger>>

\* UserCredit.grant and UserCredit.use
Granted(b, n) ==
    [total |-> b.total + n, used |-> b.used, remaining |-> b.remaining + n]
Used(b, n) ==
    [total |-> b.total, used |-> b.used + n, remaining |-> b.remaining - n]
CanCover(b, n) == b.remaining >= n

AccountInit ==
    /\ balance = [u \in User |->
                     [total |-> FirstCount, used |-> 0, remaining |-> FirstCount]]
    /\ ledger = {}

GrantOnce(g) ==
    /\ \A o \in ledger \cap Grant : KeyOf[o] # KeyOf[g]
    /\ ledger' = ledger \cup {g}
    /\ balance' = [balance EXCEPT ![UserOf[g]] = Granted(@, AmountOf[g])]

Use(u) ==
    /\ u \notin ledger
    /\ CanCover(balance[UserOf[u]], AmountOf[u])
    /\ ledger' = ledger \cup {u}
    /\ balance' = [balance EXCEPT ![UserOf[u]] = Used(@, AmountOf[u])]

AccountNext == (\E g \in Grant : GrantOnce(g)) \/ (\E u \in Usage : Use(u))

AccountSpec == AccountInit /\ [][AccountNext]_accountVars

=============================================================================
