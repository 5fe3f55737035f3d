------------------------------- MODULE MCAuth --------------------------------
(***************************************************************************)
(* Instances of Auth for TLC.  Identities i1 (google) and i2 (apple) have  *)
(* the same verified address.  Sign-ups and login l1 come with i1, logins  *)
(* l2 and l3 with i2.  Withdrawals are of the account that s1 opened.      *)
(***************************************************************************)
EXTENDS Auth, TLC

CONSTANTS s1, s2, s4, l1, l2, l3, r1, r2, r3, o1, w1, w2,
          i1, i2, mail, google, apple

MCIdentityOf == [r \in Opener |-> IF r \in {l2, l3} THEN i2 ELSE i1]
MCEmailOf == [i \in Identity |-> mail]
MCIssuerOf == [i \in Identity |-> IF i = i1 THEN google ELSE apple]
MCAccountOf == [w \in Withdrawal |-> s1]

\* Which requests come at all, with a withdrawal among them: refreshes of one
\* token and a logout, with a login or not; logins that attach i2 and one with
\* i1; two sign-ups and a login; a second withdrawal.
Scenario == {{r1, r2, r3, o1, w1}, {l1, r1, r2, o1, w1}, {l1, l2, l3, w1},
             {s2, s4, l2, w1}, {l1, r1, w1, w2}}

\* The requests that do not come have failed from the start.
MCInit ==
    /\ EarlierRows
    /\ NothingInMemory
    /\ \E R \in Scenario :
          pc = [r \in Request |-> IF r \in Registered THEN "done"
                                  ELSE IF r \in R THEN "start" ELSE "failed"]

MCSpec == MCInit /\ [][Next]_vars /\ Fairness

=============================================================================
