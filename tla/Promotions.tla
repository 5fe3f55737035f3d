----------------------------- MODULE Promotions ------------------------------
(***************************************************************************)
(* Redeeming promotions (modules/promotions): by a code, directly, or as   *)
(* part of a sign-up.  A redemption is the Grant of Credits that it makes: *)
(* one database transaction locks the code, the promotion and the user's   *)
(* credit row, in that order, records the redemption and grants the credit *)
(* through a use case whose commit is deferred to the redemption's and     *)
(* whose rollback is that of the whole session (credits/dependencies.py:   *)
(* 63-69).  Analyses of the same users run beside the redemptions, and so  *)
(* do the jobs that see to the promotion of the month.                     *)
(***************************************************************************)
EXTENDS Credits

CONSTANTS
    Promotion,
    Code,
    NoCode,             \* in place of the code of a direct redemption
    SignUp,             \* the redemptions that sign-ups make
    SignupPromotion,    \* the promotions of the sign-up context
    NoPromotion,        \* in place of the promotion of a sign-up without any
    Rank,               \* later and greater ones come first (starts_at, id)
    BeneficiaryOf,      \* the hashed identity of a sign-up
    Job,                \* runs of ensure_monthly_recharge_promotion
    Monthly,            \* the promotion of the month
    PromotionOf,        \* the promotion a redemption asks for
    CodeOf,             \* the code it names
    MaxRedemptions,     \* of a promotion
    MaxCodeRedemptions, \* of a code
    MaxPerUser          \* of a promotion by one user

ASSUME PromotionsAssumption ==
    /\ NoCode \notin Code
    /\ SignUp \subseteq Grant /\ Job \cap Request = {}
    /\ SignupPromotion \subseteq Promotion /\ NoPromotion \notin Promotion
    /\ Monthly \in Promotion \ SignupPromotion
    /\ Rank \in [SignupPromotion -> Nat]
    /\ \A p, q \in SignupPromotion : Rank[p] = Rank[q] => p = q
    /\ PromotionOf \in [Grant \ SignUp -> Promotion]
    /\ CodeOf \in [Grant -> Code \cup {NoCode}]
    /\ MaxRedemptions \in [Promotion -> Nat \ {0}]
    /\ MaxCodeRedemptions \in [Code -> Nat \ {0}]
    /\ MaxPerUser \in [Promotion -> Nat \ {0}]

\* A code belongs to one promotion, and _idempotency_key is made of the code
\* or the promotion, the user and a key of the client's.
ASSUME KeysAssumption ==
    \A g, h \in Grant \ SignUp :
        /\ CodeOf[g] = CodeOf[h] /\ CodeOf[g] # NoCode => PromotionOf[g] = PromotionOf[h]
        /\ KeyOf[g] = KeyOf[h] => /\ CodeOf[g] = CodeOf[h]
                                  /\ PromotionOf[g] = PromotionOf[h]
                                  /\ UserOf[g] = UserOf[h]

\* The user of a sign-up is new, and so are its keys.
ASSUME SignUpsAssumption ==
    \A s \in SignUp :
        /\ CodeOf[s] = NoCode
        /\ UserOf[s] \notin FirstOwners
        /\ \A r \in Request : UserOf[r] = UserOf[s] => r = s
        /\ \A g \in Grant : KeyOf[g] = KeyOf[s] => g = s

VARIABLES
    stage,          \* where a redemption is
    codeLocks,      \* redemptions that hold the row lock of their code
    promotionLocks, \* who holds the row lock of which promotion
    candidates,     \* promotions that a sign-up has found and not tried yet
    chosen,         \* the promotion that a sign-up redeems
    seen,           \* the times_redeemed of the two rows when they were locked
    pending,        \* redemptions that are flushed and not committed
    redeemed,       \* committed rows of promotion_redemptions
    timesRedeemed,  \* of promotions
    codeTimes,      \* times_redeemed of codes
    answer,         \* what the client is told
    made,           \* the promotions there are
    jobStage        \* where a job is

redemptionTables == <<redeemed, timesRedeemed, codeTimes>>
choice == <<candidates, chosen>>
jobVars == <<made, jobStage>>
redemptionVars == <<stage, codeLocks, promotionLocks, choice, seen, pending,
                    redemptionTables, answer, jobVars>>
promotionVars == <<creditVars, redemptionVars>>

-----------------------------------------------------------------------------
(* State helpers *)

HasCode(g) == CodeOf[g] # NoCode

\* The promotion that g is about.
Redeems(g) == IF g \in SignUp THEN chosen[g] ELSE PromotionOf[g]

RedeemedOf(p) == {g \in redeemed : Redeems(g) = p}

\* No one holds the row lock of p.
FreePromotion(p) == \A l \in promotionLocks : l[2] # p
LocksOf(x) == {l \in promotionLocks : l[1] = x}

\* replay_if_existing: the key has a committed redemption.
IsReplay(g) == \E o \in redeemed : KeyOf[o] = KeyOf[g]

UserRedemptions(g) == {o \in RedeemedOf(Redeems(g)) : Mine(o) = Mine(g)}

\* find_redemption_by_promotion_and_beneficiary: the identity has signed up
\* before and has had the benefit of this promotion.
IsBeneficiary(s) ==
    \E o \in RedeemedOf(chosen[s]) \cap SignUp : BeneficiaryOf[o] = BeneficiaryOf[s]

\* ensure_redeemable of the code and of the promotion, and
\* ensure_user_can_redeem.
WithinLimits(g) ==
    /\ HasCode(g) => seen[g].code < MaxCodeRedemptions[CodeOf[g]]
    /\ seen[g].promotion < MaxRedemptions[Redeems(g)]
    /\ Cardinality(UserRedemptions(g)) < MaxPerUser[Redeems(g)]

\* The session ends: by a commit, by a rollback or when it is closed.
EndSession(g, result) ==
    /\ stage' = [stage EXCEPT ![g] = "done"]
    /\ codeLocks' = codeLocks \ {g}
    /\ promotionLocks' = promotionLocks \ LocksOf(g)
    /\ pending' = pending \ {g}
    /\ answer' = [answer EXCEPT ![g] = result]
    /\ UNCHANGED <<choice, seen, jobVars>>

-----------------------------------------------------------------------------
NothingRedeemed ==
    /\ codeLocks = {} /\ promotionLocks = {} /\ pending = {}
    /\ seen = [g \in Grant |-> [promotion |-> 0, code |-> 0]]
    /\ redeemed = {}
    /\ timesRedeemed = [p \in Promotion |-> 0]
    /\ codeTimes = [c \in Code |-> 0]
    /\ answer = [g \in Grant |-> "none"]
    /\ candidates = [s \in SignUp |-> {}]
    /\ chosen = [s \in SignUp |-> NoPromotion]
    /\ made \in {Promotion, Promotion \ {Monthly}, Promotion \ SignupPromotion}

PromotionInit ==
    /\ CreditInit
    /\ NothingRedeemed
    /\ stage = [g \in Grant |-> "start"]
    /\ jobStage = [j \in Job |-> "start"]

\* find_code_by_code_for_update
LockCode(g) ==
    /\ stage[g] = "start" /\ HasCode(g)
    /\ \A o \in codeLocks : CodeOf[o] # CodeOf[g]
    /\ codeLocks' = codeLocks \cup {g}
    /\ seen' = [seen EXCEPT ![g].code = codeTimes[CodeOf[g]]]
    /\ stage' = [stage EXCEPT ![g] = "code"]
    /\ UNCHANGED <<creditVars, promotionLocks, choice, pending, redemptionTables, answer, jobVars>>

\* PromotionNotFoundError
FindNothing(g) ==
    /\ g \notin SignUp /\ stage[g] = "start" /\ ~HasCode(g)
    /\ PromotionOf[g] \notin made
    /\ EndSession(g, "notFound")
    /\ UNCHANGED <<creditVars, redemptionTables>>

\* Mutant: a redemption by code may also look its promotion up first.
LockPromotionFirst(g) ==
    /\ g \notin SignUp /\ stage[g] \in {"start", "code"}
    /\ PromotionOf[g] \in made
    /\ \A l \in promotionLocks : l[2] = PromotionOf[g] => l[1] = g
    /\ promotionLocks' = promotionLocks \cup {<<g, PromotionOf[g]>>}
    /\ seen' = [seen EXCEPT ![g].promotion = timesRedeemed[PromotionOf[g]]]
    /\ stage' = [stage EXCEPT ![g] = IF HasCode(g) /\ @ = "start" THEN @ ELSE "promotion"]
    /\ UNCHANGED <<creditVars, codeLocks, choice, pending, redemptionTables, answer, jobVars>>

\* find_promotion_for_update
LockPromotion(g) ==
    /\ g \notin SignUp
    /\ stage[g] = IF HasCode(g) THEN "code" ELSE "start"
    /\ PromotionOf[g] \in made /\ FreePromotion(PromotionOf[g])
    /\ promotionLocks' = promotionLocks \cup {<<g, PromotionOf[g]>>}
    /\ seen' = [seen EXCEPT ![g].promotion = timesRedeemed[PromotionOf[g]]]
    /\ stage' = [stage EXCEPT ![g] = "promotion"]
    /\ UNCHANGED <<creditVars, codeLocks, choice, pending, redemptionTables, answer, jobVars>>

\* already_redeemed, nothing granted
ReplayRedemption(g) ==
    /\ g \notin SignUp /\ stage[g] = "promotion"
    /\ IsReplay(g)
    /\ EndSession(g, "already")
    /\ UNCHANGED <<creditVars, redemptionTables>>

\* PromotionRedemptionConflictError: over a limit, or inactive or outside of
\* its period, which is not modelled and may be at any time; or a promotion
\* that is only for sign-ups.
RejectRedemption(g) ==
    /\ g \notin SignUp /\ stage[g] = "promotion"
    /\ ~IsReplay(g)
    /\ EndSession(g, "conflict")
    /\ UNCHANGED <<creditVars, redemptionTables>>

MayRedeem(g) ==
    IF g \in SignUp THEN ~IsBeneficiary(g)
    ELSE ~IsReplay(g) /\ WithinLimits(g) /\ PromotionOf[g] \notin SignupPromotion

\* Mutant: a redemption is not looked up by its key first.
RecordRedemptionAgain(g) ==
    /\ stage[g] = "promotion"
    /\ IF g \in SignUp THEN ~IsBeneficiary(g) ELSE WithinLimits(g)
    /\ pending' = pending \cup {g}
    /\ stage' = [stage EXCEPT ![g] = "granting"]
    /\ UNCHANGED <<creditVars, codeLocks, promotionLocks, choice, seen, redemptionTables,
                   answer, jobVars>>

\* The redemption and both counters are flushed, the event is published.
RecordRedemption(g) ==
    /\ stage[g] = "promotion"
    /\ MayRedeem(g)
    /\ pending' = pending \cup {g}
    /\ stage' = [stage EXCEPT ![g] = "granting"]
    /\ UNCHANGED <<creditVars, codeLocks, promotionLocks, choice, seen, redemptionTables,
                   answer, jobVars>>

\* grant_ocr_credit, up to its deferred commit
GrantCredit(g) ==
    /\ stage[g] = "granting"
    /\ CheckDuplicate(g) \/ SelectForUpdate(g) \/ Save(g) \/ InsertEntry(g) \/ WriteRow(g)
    /\ UNCHANGED redemptionVars

\* Mutant: the deferred unit of work does not roll the session back.
GrantConflictWithoutRollback(g) ==
    /\ stage[g] = "granting"
    /\ FlushConflict(g)
    /\ UNCHANGED redemptionVars

\* The use case takes the write conflict for a replay and rolls the session
\* back, the redemption with it; then it returns normally.
GrantConflict(g) ==
    /\ stage[g] = "granting"
    /\ FlushConflict(g)
    /\ codeLocks' = codeLocks \ {g}
    /\ promotionLocks' = promotionLocks \ LocksOf(g)
    /\ pending' = pending \ {g}
    /\ UNCHANGED <<stage, choice, seen, redemptionTables, answer, jobVars>>

GrantError(g) ==
    /\ stage[g] = "granting"
    /\ FlushError(g)
    /\ EndSession(g, "error")
    /\ UNCHANGED redemptionTables

\* Mutant: save_code is left out.
WriteRedemptionOnly(g) ==
    IF g \in pending
    THEN /\ redeemed' = redeemed \cup {g}
         /\ timesRedeemed' = [timesRedeemed EXCEPT ![Redeems(g)] = seen[g].promotion + 1]
         /\ UNCHANGED codeTimes
    ELSE UNCHANGED redemptionTables

\* What the transaction holds of the redemption is committed.
WriteRedemption(g) ==
    IF g \in pending
    THEN /\ redeemed' = redeemed \cup {g}
         /\ timesRedeemed' = [timesRedeemed EXCEPT ![Redeems(g)] = seen[g].promotion + 1]
         /\ codeTimes' = IF HasCode(g)
                         THEN [codeTimes EXCEPT ![CodeOf[g]] = seen[g].code + 1]
                         ELSE codeTimes
    ELSE UNCHANGED redemptionTables

\* The commit of the redemption, and the answer: credit_granted is TRUE
\* whatever the grant came to.
CommitRedemption(g) ==
    /\ stage[g] = "granting"
    /\ \/ CommitGrant(g)
       \/ pc[g] = "replayed" /\ UNCHANGED creditVars
    /\ WriteRedemption(g)
    /\ EndSession(g, "granted")

\* The process dies or the client goes away before the commit.
AbortRedemption(g) ==
    /\ stage[g] # "done"
    /\ Abort(g) \/ (pc[g] = "replayed" /\ UNCHANGED creditVars)
    /\ EndSession(g, "error")
    /\ UNCHANGED redemptionTables

-----------------------------------------------------------------------------
(* The sign-up promotion: RedeemSignupPromotionCommandUseCase, inside the   *)
(* transaction of a sign-up, whose commit is the end of it.                 *)

HasRoom(p) == timesRedeemed[p] < MaxRedemptions[p]

\* find_current_ocr_credit_promotion_for_update: the rows of its snapshot ...
FindCandidates(s) ==
    /\ s \in SignUp /\ stage[s] = "start"
    /\ candidates' = [candidates EXCEPT ![s] = {p \in SignupPromotion \cap made : HasRoom(p)}]
    /\ stage' = [stage EXCEPT ![s] = "choosing"]
    /\ UNCHANGED <<creditVars, codeLocks, promotionLocks, chosen, seen, pending,
                   redemptionTables, answer, jobVars>>

IsFirst(p, s) == p \in candidates[s] /\ \A q \in candidates[s] : Rank[q] <= Rank[p]

Try(s, p) ==
    /\ IsFirst(p, s) /\ FreePromotion(p)
    /\ promotionLocks' = promotionLocks \cup {<<s, p>>}
    /\ candidates' = [candidates EXCEPT ![s] = @ \ {p}]

\* Mutant: a row that was waited for is not looked at again.
ChooseCandidateUnchecked(s) ==
    /\ s \in SignUp /\ stage[s] = "choosing"
    /\ \E p \in SignupPromotion :
        /\ Try(s, p)
        /\ chosen' = [chosen EXCEPT ![s] = p]
        /\ seen' = [seen EXCEPT ![s].promotion = timesRedeemed[p]]
        /\ stage' = [stage EXCEPT ![s] = "promotion"]
        /\ UNCHANGED <<creditVars, codeLocks, pending, redemptionTables, answer, jobVars>>

\* ... of which the latest is locked, if it still has room by then, ...
ChooseCandidate(s) ==
    /\ s \in SignUp /\ stage[s] = "choosing"
    /\ \E p \in SignupPromotion :
        /\ Try(s, p) /\ HasRoom(p)
        /\ chosen' = [chosen EXCEPT ![s] = p]
        /\ seen' = [seen EXCEPT ![s].promotion = timesRedeemed[p]]
        /\ stage' = [stage EXCEPT ![s] = "promotion"]
        /\ UNCHANGED <<creditVars, codeLocks, pending, redemptionTables, answer, jobVars>>

\* ... and otherwise the next one: LIMIT counts the rows that are locked, and
\* the lock of the row that was passed over is kept.
PassOver(s) ==
    /\ s \in SignUp /\ stage[s] = "choosing"
    /\ \E p \in SignupPromotion :
        /\ Try(s, p) /\ ~HasRoom(p)
        /\ UNCHANGED <<creditVars, stage, codeLocks, chosen, seen, pending,
                       redemptionTables, answer, jobVars>>

\* There is no promotion, or its benefit has been had: the sign-up goes on
\* without.
SignUpWithout(s) ==
    /\ s \in SignUp
    /\ \/ stage[s] = "choosing" /\ candidates[s] = {}
       \/ stage[s] = "promotion" /\ IsBeneficiary(s)
    /\ EndSession(s, "without")
    /\ UNCHANGED <<creditVars, redemptionTables>>

-----------------------------------------------------------------------------
(* ensure_monthly_recharge_promotion                                        *)

JobMoves(j, to) == jobStage' = [jobStage EXCEPT ![j] = to]

\* find_promotion_by_benefit_context_start_for_update, the first time or once
\* more after the insert has failed.
FindMonthly(j) ==
    /\ jobStage[j] \in {"start", "conflict"}
    /\ IF Monthly \in made
       THEN /\ FreePromotion(Monthly)
            /\ promotionLocks' = promotionLocks \cup {<<j, Monthly>>}
            /\ JobMoves(j, "found")
       ELSE /\ UNCHANGED promotionLocks
            /\ JobMoves(j, IF jobStage[j] = "start" THEN "missing" ELSE "error")
    /\ UNCHANGED <<creditVars, stage, codeLocks, choice, seen, pending, redemptionTables,
                   answer, made>>

\* Mutant: the IntegrityError reaches the caller.
InsertMonthlyOnce(j) ==
    /\ jobStage[j] = "missing"
    /\ \A k \in Job : jobStage[k] # "inserted"
    /\ JobMoves(j, IF Monthly \in made THEN "error" ELSE "inserted")
    /\ UNCHANGED <<creditVars, stage, codeLocks, promotionLocks, choice, seen, pending,
                   redemptionTables, answer, made>>

\* create_promotion waits for the insert of another job and may then violate
\* the unique index: the transaction is rolled back.
InsertMonthly(j) ==
    /\ jobStage[j] = "missing"
    /\ \A k \in Job : jobStage[k] # "inserted"
    /\ JobMoves(j, IF Monthly \in made THEN "conflict" ELSE "inserted")
    /\ UNCHANGED <<creditVars, stage, codeLocks, promotionLocks, choice, seen, pending,
                   redemptionTables, answer, made>>

\* save_promotion leaves times_redeemed as it was read; the other columns are
\* those of the month.
CommitMonthly(j) ==
    /\ jobStage[j] \in {"found", "inserted"}
    /\ made' = made \cup {Monthly}
    /\ promotionLocks' = promotionLocks \ LocksOf(j)
    /\ JobMoves(j, "done")
    /\ UNCHANGED <<creditVars, stage, codeLocks, choice, seen, pending, redemptionTables,
                   answer>>

KillJob(j) ==
    /\ jobStage[j] \notin {"done", "error", "killed"}
    /\ promotionLocks' = promotionLocks \ LocksOf(j)
    /\ JobMoves(j, "killed")
    /\ UNCHANGED <<creditVars, stage, codeLocks, choice, seen, pending, redemptionTables,
                   answer, made>>

JobStep(j) == FindMonthly(j) \/ InsertMonthly(j) \/ CommitMonthly(j)

-----------------------------------------------------------------------------
RedemptionStep(g) ==
    \/ LockCode(g)
    \/ FindNothing(g)
    \/ FindCandidates(g)
    \/ ChooseCandidate(g)
    \/ PassOver(g)
    \/ SignUpWithout(g)
    \/ LockPromotion(g)
    \/ ReplayRedemption(g)
    \/ RejectRedemption(g)
    \/ RecordRedemption(g)
    \/ GrantCredit(g)
    \/ GrantConflict(g)
    \/ GrantError(g)
    \/ CommitRedemption(g)

Analysis(u) == UsageStep(u) /\ UNCHANGED redemptionVars

AbortAnalysis(u) == Abort(u) /\ UNCHANGED redemptionVars

PromotionNext ==
    \/ \E g \in Grant : RedemptionStep(g) \/ AbortRedemption(g)
    \/ \E u \in Usage : Analysis(u) \/ AbortAnalysis(u)
    \/ \E j \in Job : JobStep(j) \/ KillJob(j)

PromotionSpec == PromotionInit /\ [][PromotionNext]_promotionVars

\* As long as a redemption can go on, some redemption does, and an analysis
\* that has reserved a credit ends, if only by its timeout.  No step is ever
\* repeated, so that nothing starves.
PromotionFairness ==
    /\ WF_promotionVars(\E g \in Grant : RedemptionStep(g))
    /\ WF_promotionVars(\E j \in Job : JobStep(j))
    /\ \A u \in Usage :
          WF_promotionVars(Analysis(u) \/ (pc[u] = "reserved" /\ AbortAnalysis(u)))

PromotionFairSpec == PromotionSpec /\ PromotionFairness

-----------------------------------------------------------------------------
(* Properties *)

Stage == {"start", "code", "choosing", "promotion", "granting", "done"}
Answer == {"none", "granted", "already", "conflict", "notFound", "without", "error"}
JobStage == {"start", "missing", "conflict", "found", "inserted", "done", "error", "killed"}

\* Every variable has its type.
PromotionTypeOK ==
    /\ CreditTypeOK
    /\ stage \in [Grant -> Stage]
    /\ codeLocks \subseteq Grant
    /\ promotionLocks \subseteq (Grant \cup Job) \X Promotion
    /\ candidates \in [SignUp -> SUBSET SignupPromotion]
    /\ chosen \in [SignUp -> SignupPromotion \cup {NoPromotion}]
    /\ seen \in [Grant -> [promotion : Nat, code : Nat]]
    /\ pending \subseteq Grant
    /\ redeemed \subseteq Grant
    /\ timesRedeemed \in [Promotion -> Nat]
    /\ codeTimes \in [Code -> Nat]
    /\ answer \in [Grant -> Answer]
    /\ made \subseteq Promotion
    /\ jobStage \in [Job -> JobStage]

\* The limits hold of the rows of promotion_redemptions themselves, not just
\* of the counters that are compared with them, whatever redemptions overlap
\* and whatever a sign-up has waited for (redemption_executor.py:96-120,
\* repository.py:57-82); an identity has a sign-up promotion once.
LimitsKept ==
    /\ \A p \in Promotion : Cardinality(RedeemedOf(p)) <= MaxRedemptions[p]
    /\ \A c \in Code :
          Cardinality({g \in redeemed : CodeOf[g] = c}) <= MaxCodeRedemptions[c]
    /\ \A g \in redeemed : Cardinality(UserRedemptions(g)) <= MaxPerUser[Redeems(g)]
    /\ \A o, s \in redeemed \cap SignUp :
          BeneficiaryOf[o] = BeneficiaryOf[s] /\ chosen[o] = chosen[s] => o = s

\* times_redeemed counts the rows: it is read under one lock and written
\* back later (repository.py:218-239), and remaining_redemptions is told to
\* the client from it.
CountersMatchRedemptions ==
    /\ \A p \in Promotion : timesRedeemed[p] = Cardinality(RedeemedOf(p))
    /\ \A c \in Code : codeTimes[c] = Cardinality({g \in redeemed : CodeOf[g] = c})

\* A redemption and its credit are committed together or not at all, the
\* write conflict that is taken for a replay included
\* (redemption_executor.py:121-133).
RedeemedIffCredited == redeemed = ledger \cap Grant

\* A retried redemption is redeemed once, and a client that is told so was
\* redeemed before (redemption_executor.py:61-90).
RedeemedOncePerKey ==
    /\ \A o, p \in redeemed : KeyOf[o] = KeyOf[p] => o = p
    /\ \A g \in Grant : answer[g] = "already" => IsReplay(g)

\* Transactions that are not at their end.
Open == {g \in Grant : stage[g] # "done"} \cup {u \in Usage : pc[u] \notin Final}
        \cup {j \in Job : jobStage[j] \notin {"done", "error", "killed"}}

\* The promotions whose rows the next statement of x locks.
WantedPromotions(x) ==
    {p \in Promotion :
        \/ x \in Job /\ jobStage[x] \in {"start", "conflict"} /\ p = Monthly
        \/ x \in SignUp /\ stage[x] = "choosing" /\ IsFirst(p, x)
        \/ /\ x \in Grant \ SignUp /\ p = PromotionOf[x]
           /\ stage[x] = IF HasCode(x) THEN "code" ELSE "start"}

\* x waits for a code, a promotion, a credit row, a key of the ledger or the
\* promotion of the month that y has.
WaitsFor(x, y) ==
    /\ x # y
    /\ \/ /\ x \in Grant /\ stage[x] = "start" /\ HasCode(x)
          /\ y \in codeLocks /\ CodeOf[y] = CodeOf[x]
       \/ \E p \in WantedPromotions(x) : <<y, p>> \in promotionLocks
       \/ BlockedBy(x, y)
       \/ {x, y} \subseteq Job /\ jobStage[x] = "missing" /\ jobStage[y] = "inserted"

\* Whatever redemptions, sign-ups, analyses and jobs overlap, no group of them
\* is stuck, each waiting for another one or for one that has ended: locks are
\* taken in one order and end with their transaction (create_promotion_code_
\* redemption use_case.py:54-61, then grant use_case.py:35; the ORDER BY of
\* repository.py:57-82).
NobodyIsStuck ==
    \A S \in SUBSET Open :
        S # {} => \E x \in S : \A y \in Grant \cup Usage \cup Job :
                                 WaitsFor(x, y) => y \in Open \ S

\* Every redemption gets to an answer, and a job that is not killed ends with
\* the promotion of the month in place, whichever of two jobs inserts it and
\* whatever redemptions hold its row (create_promotion_code_redemption
\* use_case.py:54-61, ensure_monthly_recharge_promotion.py:56-86, 163-184).
RedemptionsAndJobsEnd ==
    /\ <>(\A g \in Grant : stage[g] = "done")
    /\ <>(\A j \in Job :
             jobStage[j] = "killed" \/ (jobStage[j] = "done" /\ Monthly \in made))

\* A client that is told that the credit is granted has been redeemed and
\* credited (redemption_executor.py:137-145).
GrantedIsGranted ==
    \A g \in Grant : answer[g] = "granted" => g \in redeemed /\ g \in ledger

-----------------------------------------------------------------------------
(* Why: the inductive invariant of the proofs *)

\* A redemption that has the row of its promotion, and has decided on it or
\* is about to.
Holding(g) == stage[g] = "promotion" \/ g \in pending

\* A redemption is flushed as long as its transaction is, and a redemption
\* that is committed does nothing more.
PendingInStep ==
    /\ \A g \in Grant :
          stage[g] \in {"start", "code", "choosing", "promotion"} => pc[g] = "start"
    /\ \A g \in Grant : g \in pending <=> stage[g] = "granting" /\ pc[g] # "replayed"
    /\ \A g \in redeemed : stage[g] = "done" /\ Redeems(g) \in Promotion

\* One transaction at a time has the row of a code or of a promotion.
PromotionLocksExclude ==
    /\ \A o \in codeLocks, p \in codeLocks : CodeOf[o] = CodeOf[p] => o = p
    /\ \A k \in promotionLocks, l \in promotionLocks : k[2] = l[2] => k = l

\* The counters that a redemption has read are those of the rows it holds.
HoldersAreCurrent ==
    \A g \in Grant :
        /\ HasCode(g) /\ (stage[g] = "code" \/ Holding(g)) =>
              g \in codeLocks /\ seen[g].code = codeTimes[CodeOf[g]]
        /\ Holding(g) =>
              /\ Redeems(g) \in Promotion /\ <<g, Redeems(g)>> \in promotionLocks
              /\ seen[g].promotion = timesRedeemed[Redeems(g)]

\* What was checked before a redemption was recorded holds to its commit.
RoomIsKept ==
    /\ \A g \in pending : ~IsReplay(g)
    /\ \A g \in pending \ SignUp : WithinLimits(g)
    /\ \A s \in SignUp : Holding(s) => seen[s].promotion < MaxRedemptions[chosen[s]]
    /\ \A s \in pending \cap SignUp : ~IsBeneficiary(s)

\* The committed rows, and what the runs check of them.
RowsAreRight ==
    /\ IsFiniteSet(redeemed)
    /\ CountersMatchRedemptions
    /\ LimitsKept
    /\ RedeemedIffCredited
    /\ RedeemedOncePerKey

\* Who holds a lock has come to the statement that takes it and not to the end
\* of its transaction; a sign-up has passed over later promotions only.
LocksInStep ==
    /\ \A g \in Grant :
          pc[g] \in {"checked", "selected", "saved", "keyed", "flushed"} => stage[g] = "granting"
    /\ \A g \in codeLocks : HasCode(g) /\ stage[g] \in {"code", "promotion", "granting"}
    /\ \A r \in locks : \/ r \in Grant /\ pc[r] \in {"selected", "saved", "keyed", "flushed"}
                        \/ r \in Usage /\ pc[r] = "reserved"
    /\ \A l \in promotionLocks :
          \/ l[1] \in Job /\ jobStage[l[1]] = "found"
          \/ l[1] \in Grant /\ stage[l[1]] \in {"promotion", "granting"}
          \/ /\ l[1] \in SignUp /\ stage[l[1]] = "choosing" /\ l[2] \in SignupPromotion
             /\ \A q \in candidates[l[1]] : Rank[q] < Rank[l[2]]

\* The strengthening behind RowsAreRight: the row locks of the code and of
\* the promotion last to the commit, and a key leads to one promotion
\* (redemption_executor.py:61-133, repository.py:57-82).
PromotionInvariant ==
    /\ PromotionTypeOK
    /\ CreditInvariant
    /\ PendingInStep
    /\ PromotionLocksExclude
    /\ HoldersAreCurrent
    /\ RoomIsKept
    /\ RowsAreRight

=============================================================================
