-------------------------- MODULE PromotionsProofs ---------------------------
(***************************************************************************)
(* Safety of Promotions for every set of redemptions, sign-ups, promotions, *)
(* codes, limits, keys and analyses that run beside them: the inductive    *)
(* invariant PromotionInvariant, which rests on CreditInvariant, and the   *)
(* properties that follow from it.                                         *)
(***************************************************************************)
EXTENDS Promotions, CreditsProofs, FiniteSetTheorems

-----------------------------------------------------------------------------
(* Counting and keys *)

LEMMA CountOneMore ==
    ASSUME NEW S, IsFiniteSet(S), NEW x, x \notin S
    PROVE  /\ IsFiniteSet(S \cup {x})
           /\ Cardinality(S) \in Nat
           /\ Cardinality(S \cup {x}) = Cardinality(S) + 1
BY FS_AddElement, FS_CardinalityType

\* Two redemptions with one key are of one promotion and one code, as the
\* key is made of them; a sign-up shares its key with no one.
LEMMA KeyLeadsToPromotion ==
    ASSUME NEW g \in Grant, NEW h \in Grant, KeyOf[g] = KeyOf[h], g # h
    PROVE  /\ g \notin SignUp /\ h \notin SignUp
           /\ PromotionOf[g] = PromotionOf[h]
           /\ Redeems(g) = Redeems(h)
BY KeysAssumption, SignUpsAssumption DEF Redeems

\* The user of a sign-up has redeemed nothing else.
LEMMA SignUpIsAlone ==
    ASSUME NEW s \in SignUp, NEW g \in Grant, Mine(g) = Mine(s)
    PROVE  g = s
BY SignUpsAssumption DEF Mine, Request

LEMMA SignUpsAreGrants == SignUp \subseteq Grant /\ \A s \in SignUp : ~HasCode(s)
BY PromotionsAssumption, SignUpsAssumption DEF HasCode

-----------------------------------------------------------------------------
(* Every step of the composition is one of Credits, or leaves it alone *)

LEMMA CreditsFollow ==
    ASSUME [PromotionNext]_promotionVars PROVE [CreditNext]_creditVars
<1>1. ASSUME NEW g \in Grant, RedemptionStep(g) PROVE [CreditNext]_creditVars
  BY <1>1 DEF RedemptionStep, LockCode, FindNothing, FindCandidates, ChooseCandidate,
     PassOver, SignUpWithout, LockPromotion, ReplayRedemption, RejectRedemption,
     RecordRedemption, GrantCredit, GrantConflict, GrantError, CommitRedemption,
     CreditNext, GrantStep
<1>2. ASSUME NEW g \in Grant, AbortRedemption(g) PROVE [CreditNext]_creditVars
  BY <1>2 DEF AbortRedemption, CreditNext, Request
<1>3. ASSUME NEW u \in Usage, Analysis(u) \/ AbortAnalysis(u) PROVE [CreditNext]_creditVars
  BY <1>3 DEF Analysis, AbortAnalysis, CreditNext, Request
<1>4. ASSUME NEW j \in Job, JobStep(j) \/ KillJob(j) PROVE [CreditNext]_creditVars
  BY <1>4 DEF JobStep, FindMonthly, InsertMonthly, CommitMonthly, KillJob
<1>5. CASE UNCHANGED promotionVars
  BY <1>5 DEF promotionVars
<1> QED  BY <1>1, <1>2, <1>3, <1>4, <1>5 DEF PromotionNext

LEMMA InitPromotions ==
    ASSUME PromotionInit PROVE PromotionInvariant
<1>0. \A g \in Grant : stage[g] = "start" /\ pc[g] = "start"
  BY DEF PromotionInit, CreditInit, Request
<1>1. PromotionTypeOK /\ CreditInvariant
  <2>1. CreditInvariant
    BY InitInvariant DEF PromotionInit
  <2>2. Monthly \in Promotion /\ SignupPromotion \subseteq Promotion
    BY PromotionsAssumption
  <2>3. PromotionTypeOK
    BY <2>1, <2>2 DEF PromotionInit, NothingRedeemed, PromotionTypeOK, CreditInvariant, Stage,
       Answer, JobStage
  <2> QED  BY <2>1, <2>3
<1>2. PendingInStep /\ PromotionLocksExclude
  BY <1>0 DEF PromotionInit, NothingRedeemed, PendingInStep, PromotionLocksExclude
<1>3. HoldersAreCurrent /\ RoomIsKept
  BY <1>0, SignUpsAreGrants DEF PromotionInit, NothingRedeemed, HoldersAreCurrent, RoomIsKept,
     Holding
<1>4. RowsAreRight
  <2>1. IsFiniteSet({}) /\ Cardinality({}) = 0
    BY FS_EmptySet
  <2>2. /\ \A p \in Promotion : RedeemedOf(p) = {} /\ timesRedeemed[p] = 0
        /\ \A c \in Code : {g \in redeemed : CodeOf[g] = c} = {} /\ codeTimes[c] = 0
        /\ redeemed = {} /\ ledger = {}
        /\ \A g \in Grant : answer[g] # "already"
    BY DEF PromotionInit, NothingRedeemed, CreditInit, RedeemedOf
  <2>3. \A p \in Promotion : MaxRedemptions[p] \in Nat
    BY PromotionsAssumption
  <2>4. \A c \in Code : MaxCodeRedemptions[c] \in Nat
    BY PromotionsAssumption
  <2>5. LimitsKept
    <3>1. \A p \in Promotion : Cardinality(RedeemedOf(p)) <= MaxRedemptions[p]
      BY <2>1, <2>2, <2>3
    <3>2. ASSUME NEW c \in Code
          PROVE  Cardinality({g \in redeemed : CodeOf[g] = c}) <= MaxCodeRedemptions[c]
      <4>1. {g \in redeemed : CodeOf[g] = c} = {}
        BY <2>2
      <4> QED  BY <2>1, <2>4, <4>1
    <3> QED  BY <2>2, <3>1, <3>2 DEF LimitsKept
  <2> QED
    BY <2>1, <2>2, <2>5 DEF RowsAreRight, CountersMatchRedemptions, RedeemedIffCredited,
       RedeemedOncePerKey
<1> QED  BY <1>1, <1>2, <1>3, <1>4 DEF PromotionInvariant

-----------------------------------------------------------------------------
(* Steps that commit no redemption *)

\* What the rows say does not change as long as no row is added and no
\* sign-up that has a row chooses again.
LEMMA RowsSayTheSame ==
    ASSUME UNCHANGED redemptionTables,
           \A s \in redeemed \cap SignUp : chosen'[s] = chosen[s]
    PROVE  /\ \A g \in redeemed : Redeems(g)' = Redeems(g)
           /\ \A p : RedeemedOf(p)' = RedeemedOf(p)
           /\ \A g : IsReplay(g)' = IsReplay(g)
           /\ \A g : Redeems(g)' = Redeems(g) => UserRedemptions(g)' = UserRedemptions(g)
<1>1. redeemed' = redeemed
  BY DEF redemptionTables
<1>2. \A g \in redeemed : Redeems(g)' = Redeems(g)
  BY DEF Redeems
<1>3. \A p : RedeemedOf(p)' = RedeemedOf(p)
  BY <1>1, <1>2 DEF RedeemedOf
<1>4. \A g : IsReplay(g)' = IsReplay(g)
  BY <1>1 DEF IsReplay
<1>5. \A g : Redeems(g)' = Redeems(g) => UserRedemptions(g)' = UserRedemptions(g)
  BY <1>3 DEF UserRedemptions, Mine
<1> QED  BY <1>2, <1>3, <1>4, <1>5

LEMMA RowsStayRight ==
    ASSUME RowsAreRight,
           UNCHANGED redemptionTables,
           \A s \in redeemed \cap SignUp : chosen'[s] = chosen[s],
           ledger' \cap Grant = ledger \cap Grant,
           \A g \in Grant : answer'[g] = "already" => answer[g] = "already" \/ IsReplay(g)
    PROVE  RowsAreRight'
<1>0. redeemed' = redeemed /\ timesRedeemed' = timesRedeemed /\ codeTimes' = codeTimes
  BY DEF redemptionTables
<1>1. CountersMatchRedemptions'
  BY <1>0, RowsSayTheSame DEF RowsAreRight, CountersMatchRedemptions
<1>2. LimitsKept'
  <2>1. \A g \in redeemed : Redeems(g)' = Redeems(g) /\ UserRedemptions(g)' = UserRedemptions(g)
    BY RowsSayTheSame
  <2>2. \A p : RedeemedOf(p)' = RedeemedOf(p)
    BY RowsSayTheSame
  <2> QED  BY <1>0, <2>1, <2>2 DEF RowsAreRight, LimitsKept
<1>3. RedeemedIffCredited' /\ RedeemedOncePerKey'
  BY <1>0, RowsSayTheSame DEF RowsAreRight, RedeemedIffCredited, RedeemedOncePerKey
<1> QED  BY <1>0, <1>1, <1>2, <1>3 DEF RowsAreRight

\* Nor do the decisions of redemptions that are under way.
LEMMA RoomStays ==
    ASSUME RoomIsKept,
           UNCHANGED redemptionTables,
           \A s \in redeemed \cap SignUp : chosen'[s] = chosen[s],
           pending' \subseteq pending,
           pending' \subseteq Grant,
           \A g \in Grant : Holding(g)' =>
              Holding(g) /\ seen'[g] = seen[g] /\ Redeems(g)' = Redeems(g)
    PROVE  RoomIsKept'
<1>1. \A g \in Grant : g \in pending' => Holding(g)'
  BY DEF Holding
<1>2. \A g \in pending' : ~IsReplay(g)'
  BY RowsSayTheSame DEF RoomIsKept
<1>3. ASSUME NEW g \in pending' \ SignUp PROVE WithinLimits(g)'
  <2>1. /\ seen'[g] = seen[g] /\ Redeems(g)' = Redeems(g)
        /\ UserRedemptions(g)' = UserRedemptions(g)
    BY <1>1, <1>3, RowsSayTheSame
  <2> QED  BY <1>3, <2>1 DEF RoomIsKept, WithinLimits, HasCode
<1>4. ASSUME NEW s \in SignUp, Holding(s)'
      PROVE  seen'[s].promotion < MaxRedemptions[chosen'[s]]
  BY <1>4, SignUpsAreGrants DEF RoomIsKept, Redeems
<1>5. ASSUME NEW s \in pending' \cap SignUp PROVE ~IsBeneficiary(s)'
  <2>1. chosen'[s] = chosen[s] /\ RedeemedOf(chosen[s])' = RedeemedOf(chosen[s])
    BY <1>1, <1>5, RowsSayTheSame DEF Redeems
  <2> QED  BY <1>5, <2>1, RowsSayTheSame DEF RoomIsKept, IsBeneficiary
<1> QED  BY <1>2, <1>3, <1>4, <1>5 DEF RoomIsKept

\* The session of a redemption ends without a row.
LEMMA SessionEnds ==
    ASSUME PromotionInvariant, CreditInvariant',
           NEW g \in Grant, NEW result \in Answer, EndSession(g, result),
           UNCHANGED redemptionTables,
           ledger' \cap Grant = ledger \cap Grant,
           \A h \in Grant : h # g => pc'[h] = pc[h],
           result = "already" => IsReplay(g)
    PROVE  PromotionInvariant'
<1> USE DEF EndSession, redemptionTables, choice, jobVars
<1>0. PromotionTypeOK
  BY DEF PromotionInvariant
<1>1. PromotionTypeOK'
  BY <1>0 DEF PromotionTypeOK, CreditInvariant, Stage
<1>2. PendingInStep'
  BY <1>0 DEF PromotionTypeOK, PromotionInvariant, PendingInStep, Redeems
<1>3. PromotionLocksExclude'
  BY DEF PromotionInvariant, PromotionLocksExclude
<1>4. HoldersAreCurrent'
  <2> SUFFICES ASSUME NEW h \in Grant, stage'[h] = "code" \/ Holding(h)'
               PROVE  h # g /\ (stage[h] = "code" \/ Holding(h)) /\ (Holding(h)' => Holding(h))
    BY <1>0 DEF PromotionInvariant, HoldersAreCurrent, LocksOf, Redeems, HasCode
  <2> QED  BY <1>0 DEF PromotionTypeOK, PromotionInvariant, PendingInStep, Holding
<1>5. RoomIsKept'
  <2>1. \A h \in Grant : Holding(h)' =>
           Holding(h) /\ seen'[h] = seen[h] /\ Redeems(h)' = Redeems(h)
    BY <1>0 DEF PromotionTypeOK, Holding, Redeems
  <2> QED  BY <1>1, <2>1, RoomStays DEF PromotionInvariant, PromotionTypeOK
<1>6. RowsAreRight'
  BY <1>0, RowsStayRight DEF PromotionInvariant, PromotionTypeOK
<1> QED  BY <1>1, <1>2, <1>3, <1>4, <1>5, <1>6 DEF PromotionInvariant

\* A step of Credits under a redemption or beside all of them.
LEMMA CreditsGoOn ==
    ASSUME PromotionInvariant, CreditInvariant', UNCHANGED redemptionVars,
           ledger' \cap Grant = ledger \cap Grant,
           \A h \in Grant :
              \/ pc'[h] = pc[h]
              \/ stage[h] = "granting" /\ pc[h] # "replayed" /\ pc'[h] # "replayed"
    PROVE  PromotionInvariant'
<1> USE DEF redemptionVars, redemptionTables, choice, jobVars
<1>1. PromotionTypeOK' /\ PendingInStep' /\ PromotionLocksExclude'
  BY DEF PromotionInvariant, PromotionTypeOK, CreditInvariant, PendingInStep,
     PromotionLocksExclude, Redeems
<1>2. HoldersAreCurrent'
  BY DEF PromotionInvariant, HoldersAreCurrent, Holding, Redeems
<1>3. RoomIsKept'
  <2>1. \A h \in Grant : Holding(h)' =>
           Holding(h) /\ seen'[h] = seen[h] /\ Redeems(h)' = Redeems(h)
    BY DEF Holding, Redeems
  <2> QED  BY <1>1, <2>1, RoomStays DEF PromotionInvariant, PromotionTypeOK
<1>4. RowsAreRight'
  BY RowsStayRight DEF PromotionInvariant
<1> QED  BY <1>1, <1>2, <1>3, <1>4 DEF PromotionInvariant

\* A step that takes a redemption towards its record, or a lock: no row, no
\* credit and no answer changes.
LEMMA LockingStep ==
    ASSUME PromotionInvariant, PromotionTypeOK',
           UNCHANGED <<creditVars, pending, redemptionTables, answer>>,
           PendingInStep', PromotionLocksExclude', HoldersAreCurrent',
           \A s \in redeemed \cap SignUp : chosen'[s] = chosen[s],
           NEW g \in Grant,
           \A h \in Grant : Holding(h)' =>
              \/ Holding(h) /\ seen'[h] = seen[h] /\ Redeems(h)' = Redeems(h)
              \/ /\ h = g /\ g \notin pending
                 /\ g \in SignUp => seen'[g].promotion < MaxRedemptions[chosen'[g]]
    PROVE  PromotionInvariant'
<1> USE DEF redemptionTables, creditVars, tables, memory
<1>0. PromotionTypeOK /\ RoomIsKept
  BY DEF PromotionInvariant
<1>1. CreditInvariant'
  BY NextInvariant DEF PromotionInvariant
<1>2. RowsAreRight'
  BY RowsStayRight DEF PromotionInvariant
<1>3. RoomIsKept'
  <2>1. \A h \in pending : Holding(h)' /\ h \in Grant
    BY <1>0 DEF Holding, PromotionTypeOK
  <2>2. \A h \in pending : seen'[h] = seen[h] /\ Redeems(h)' = Redeems(h)
    BY <2>1
  <2>3. ASSUME NEW h \in pending PROVE ~IsReplay(h)'
    BY <1>0, RowsSayTheSame DEF RoomIsKept
  <2>4. ASSUME NEW h \in pending \ SignUp PROVE WithinLimits(h)'
    <3>1. UserRedemptions(h)' = UserRedemptions(h)
      BY <2>2, RowsSayTheSame
    <3> QED  BY <1>0, <2>2, <3>1 DEF RoomIsKept, WithinLimits, HasCode
  <2>5. ASSUME NEW s \in SignUp, Holding(s)'
        PROVE  seen'[s].promotion < MaxRedemptions[chosen'[s]]
    BY <1>0, <2>5, SignUpsAreGrants DEF RoomIsKept, Redeems
  <2>6. ASSUME NEW s \in pending \cap SignUp PROVE ~IsBeneficiary(s)'
    <3>1. chosen'[s] = chosen[s] /\ RedeemedOf(chosen[s])' = RedeemedOf(chosen[s])
      BY <2>2, RowsSayTheSame DEF Redeems
    <3> QED  BY <1>0, <3>1 DEF RoomIsKept, IsBeneficiary, RedeemedOf
  <2> QED  BY <2>3, <2>4, <2>5, <2>6 DEF RoomIsKept
<1> QED  BY <1>1, <1>2, <1>3 DEF PromotionInvariant

LEMMA NoNewHolder ==
    ASSUME PromotionInvariant, PromotionTypeOK',
           UNCHANGED <<creditVars, pending, redemptionTables, answer, chosen>>,
           PendingInStep', PromotionLocksExclude', HoldersAreCurrent',
           \A h \in Grant : Holding(h)' =>
              Holding(h) /\ seen'[h] = seen[h] /\ Redeems(h)' = Redeems(h)
    PROVE  PromotionInvariant'
<1>1. CreditInvariant'
  BY NextInvariant DEF PromotionInvariant
<1>2. ledger' = ledger
  BY DEF creditVars, tables
<1>3. RowsAreRight'
  BY <1>2, RowsStayRight DEF PromotionInvariant
<1>4. RoomIsKept'
  BY RoomStays DEF PromotionInvariant, PromotionTypeOK
<1> QED  BY <1>1, <1>3, <1>4 DEF PromotionInvariant

LEMMA StepOfLocking ==
    ASSUME PromotionInvariant, NEW g \in Grant,
           \/ LockCode(g) \/ LockPromotion(g)
           \/ FindCandidates(g) \/ ChooseCandidate(g) \/ PassOver(g)
    PROVE  PromotionInvariant'
<1> USE DEF redemptionTables, choice, jobVars
<1>0. /\ PromotionTypeOK /\ PendingInStep /\ PromotionLocksExclude /\ HoldersAreCurrent
      /\ CreditTypeOK
  BY DEF PromotionInvariant, CreditInvariant
<1>c. HasCode(g) => CodeOf[g] \in Code
  BY PromotionsAssumption DEF HasCode
<1>1. CASE LockCode(g)
  <2>1. PromotionTypeOK'
    BY <1>0, <1>1, <1>c DEF LockCode, PromotionTypeOK, Stage, creditVars, tables, memory,
       CreditTypeOK, Consistent
  <2>2. PendingInStep' /\ PromotionLocksExclude'
    BY <1>0, <1>1 DEF LockCode, PromotionTypeOK, PendingInStep, PromotionLocksExclude, Redeems,
       creditVars
  <2>3. HoldersAreCurrent'
    BY <1>0, <1>1 DEF LockCode, PromotionTypeOK, HoldersAreCurrent, Holding, HasCode, Redeems,
       PendingInStep
  <2>4. \A h \in Grant : Holding(h)' =>
           Holding(h) /\ seen'[h] = seen[h] /\ Redeems(h)' = Redeems(h)
    BY <1>0, <1>1 DEF LockCode, PromotionTypeOK, PendingInStep, Holding, Redeems
  <2>5. UNCHANGED <<creditVars, pending, redemptionTables, answer, chosen>>
    BY <1>1 DEF LockCode
  <2> QED  BY <2>1, <2>2, <2>3, <2>4, <2>5, NoNewHolder
<1>2. CASE LockPromotion(g)
  <2>0. PromotionOf[g] \in Promotion /\ Redeems(g) = PromotionOf[g] /\ g \notin SignUp
    BY <1>2, PromotionsAssumption DEF LockPromotion, Redeems
  <2>1. PromotionTypeOK'
    BY <1>0, <1>2, <2>0 DEF LockPromotion, PromotionTypeOK, Stage, creditVars, tables, memory,
       CreditTypeOK, Consistent
  <2>2. PendingInStep' /\ PromotionLocksExclude'
    BY <1>0, <1>2 DEF LockPromotion, FreePromotion, PromotionTypeOK, PendingInStep,
       PromotionLocksExclude, Redeems, creditVars
  <2>3. HoldersAreCurrent'
    BY <1>0, <1>2, <2>0 DEF LockPromotion, PromotionTypeOK, HoldersAreCurrent, Holding, HasCode,
       Redeems, PendingInStep
  <2>4. \A h \in Grant : Holding(h)' =>
           \/ Holding(h) /\ seen'[h] = seen[h] /\ Redeems(h)' = Redeems(h)
           \/ h = g /\ g \notin pending /\ g \notin SignUp
    BY <1>0, <1>2, <2>0 DEF LockPromotion, PromotionTypeOK, PendingInStep, Holding, Redeems
  <2> QED  BY <1>2, <2>1, <2>2, <2>3, <2>4, LockingStep DEF LockPromotion
<1>3. CASE FindCandidates(g)
  <2>1. PromotionTypeOK'
    BY <1>0, <1>3 DEF FindCandidates, PromotionTypeOK, Stage, creditVars, tables, memory,
       CreditTypeOK, Consistent
  <2>2. PendingInStep' /\ PromotionLocksExclude'
    BY <1>0, <1>3 DEF FindCandidates, PromotionTypeOK, PendingInStep, PromotionLocksExclude,
       Redeems, creditVars
  <2>3. HoldersAreCurrent'
    BY <1>0, <1>3 DEF FindCandidates, PromotionTypeOK, HoldersAreCurrent, Holding, HasCode,
       Redeems, PendingInStep
  <2>4. \A h \in Grant : Holding(h)' =>
           Holding(h) /\ seen'[h] = seen[h] /\ Redeems(h)' = Redeems(h)
    BY <1>0, <1>3 DEF FindCandidates, PromotionTypeOK, PendingInStep, Holding, Redeems
  <2>5. UNCHANGED <<creditVars, pending, redemptionTables, answer, chosen>>
    BY <1>3 DEF FindCandidates
  <2> QED  BY <2>1, <2>2, <2>3, <2>4, <2>5, NoNewHolder
<1>4. CASE ChooseCandidate(g)
  <2>0. g \in SignUp /\ stage[g] = "choosing" /\ ~HasCode(g) /\ g \notin pending
        /\ g \notin redeemed
    BY <1>0, <1>4, SignUpsAreGrants DEF ChooseCandidate, PendingInStep
  <2>p. PICK p \in SignupPromotion :
          /\ Try(g, p) /\ HasRoom(p)
          /\ chosen' = [chosen EXCEPT ![g] = p]
          /\ seen' = [seen EXCEPT ![g].promotion = timesRedeemed[p]]
          /\ stage' = [stage EXCEPT ![g] = "promotion"]
          /\ UNCHANGED <<creditVars, codeLocks, pending, redemptionTables, answer, jobVars>>
    BY <1>4 DEF ChooseCandidate
  <2>q. p \in Promotion
    BY PromotionsAssumption
  <2>r. Redeems(g)' = p /\ \A h \in Grant : h # g => Redeems(h)' = Redeems(h)
    BY <1>0, <2>0, <2>p DEF PromotionTypeOK, Redeems
  <2>1. PromotionTypeOK'
    BY <1>0, <2>0, <2>p, <2>q DEF Try, PromotionTypeOK, Stage, creditVars, tables, memory,
       CreditTypeOK, Consistent
  <2>2. PendingInStep' /\ PromotionLocksExclude'
    BY <1>0, <2>0, <2>p, <2>r DEF Try, FreePromotion, PromotionTypeOK, PendingInStep,
       PromotionLocksExclude, creditVars
  <2>3. HoldersAreCurrent'
    BY <1>0, <2>0, <2>p, <2>q, <2>r DEF Try, PromotionTypeOK, HoldersAreCurrent, Holding, HasCode
  <2>4. \A h \in Grant : Holding(h)' =>
           \/ Holding(h) /\ seen'[h] = seen[h] /\ Redeems(h)' = Redeems(h)
           \/ h = g /\ g \notin pending /\ seen'[g].promotion < MaxRedemptions[chosen'[g]]
    BY <1>0, <2>0, <2>p, <2>r DEF HasRoom, PromotionTypeOK, Holding
  <2>5. \A s \in redeemed \cap SignUp : chosen'[s] = chosen[s]
    BY <2>0, <2>p
  <2>6. UNCHANGED <<creditVars, pending, redemptionTables, answer>>
    BY <2>p
  <2> QED  BY <2>0, <2>1, <2>2, <2>3, <2>4, <2>5, <2>6, LockingStep
<1>5. CASE PassOver(g)
  <2>0. \A h \in Grant : stage'[h] = stage[h]
    BY <1>5 DEF PassOver
  <2>1. PromotionTypeOK'
    BY <1>0, <1>5, PromotionsAssumption DEF PassOver, Try, PromotionTypeOK, creditVars, tables,
       memory, CreditTypeOK, Consistent
  <2>2. PendingInStep' /\ PromotionLocksExclude'
    BY <1>0, <1>5 DEF PassOver, Try, FreePromotion, PendingInStep, PromotionLocksExclude,
       Redeems, creditVars
  <2>3. HoldersAreCurrent'
    BY <1>0, <1>5 DEF PassOver, Try, HoldersAreCurrent, Holding, HasCode, Redeems
  <2>4. \A h \in Grant : Holding(h)' =>
           Holding(h) /\ seen'[h] = seen[h] /\ Redeems(h)' = Redeems(h)
    BY <1>5 DEF PassOver, Holding, Redeems
  <2>5. UNCHANGED <<creditVars, pending, redemptionTables, answer, chosen>>
    BY <1>5 DEF PassOver
  <2> QED  BY <2>1, <2>2, <2>3, <2>4, <2>5, NoNewHolder
<1> QED  BY <1>1, <1>2, <1>3, <1>4, <1>5

LEMMA StepOfRecording ==
    ASSUME PromotionInvariant, NEW g \in Grant, RecordRedemption(g)
    PROVE  PromotionInvariant'
<1> USE DEF redemptionTables, choice, jobVars
<1>0. /\ PromotionTypeOK /\ PendingInStep /\ PromotionLocksExclude /\ HoldersAreCurrent
      /\ CreditTypeOK /\ RoomIsKept
  BY DEF PromotionInvariant, CreditInvariant
<1>1. stage[g] = "promotion" /\ MayRedeem(g) /\ pc[g] = "start" /\ Holding(g)
  BY <1>0 DEF RecordRedemption, PendingInStep, Holding
<1>2. PromotionTypeOK' /\ CreditInvariant'
  <2>1. UNCHANGED creditVars
    BY DEF RecordRedemption
  <2>2. CreditInvariant'
    BY <2>1, NextInvariant DEF PromotionInvariant
  <2>3. PromotionTypeOK'
    BY <1>0, <2>2 DEF RecordRedemption, PromotionTypeOK, CreditInvariant, Stage
  <2> QED  BY <2>2, <2>3
<1>3. PendingInStep' /\ PromotionLocksExclude'
  BY <1>0, <1>1 DEF RecordRedemption, PromotionTypeOK, PendingInStep, PromotionLocksExclude,
     Redeems, creditVars
<1>4. \A h \in Grant : Holding(h)' <=> Holding(h)
  BY <1>0, <1>1 DEF RecordRedemption, PromotionTypeOK, Holding
<1>5. HoldersAreCurrent'
  BY <1>0, <1>1, <1>4 DEF RecordRedemption, PromotionTypeOK, HoldersAreCurrent, Redeems, HasCode
<1>6. RowsAreRight'
  BY RowsStayRight DEF RecordRedemption, PromotionInvariant, creditVars, tables
<1>7. RoomIsKept'
  <2>0. /\ pending' = pending \cup {g} /\ UNCHANGED <<seen, chosen, redeemed>>
        /\ \A h : IsReplay(h)' = IsReplay(h) /\ UserRedemptions(h)' = UserRedemptions(h)
        /\ \A h : Redeems(h)' = Redeems(h)
        /\ \A p : RedeemedOf(p)' = RedeemedOf(p)
    BY RowsSayTheSame DEF RecordRedemption, Redeems
  <2>1. ~IsReplay(g)
    <3>1. CASE g \in SignUp
      BY <1>0, <1>1, <3>1, KeyLeadsToPromotion DEF IsReplay, PendingInStep, PromotionTypeOK
    <3>2. CASE g \notin SignUp
      BY <1>1, <3>2 DEF MayRedeem
    <3> QED  BY <3>1, <3>2
  <2>2. \A h \in pending' : ~IsReplay(h)'
    BY <1>0, <2>0, <2>1 DEF RoomIsKept
  <2>3. ASSUME NEW h \in pending' \ SignUp PROVE WithinLimits(h)'
    BY <1>0, <1>1, <2>0, <2>3 DEF RoomIsKept, MayRedeem, WithinLimits, HasCode
  <2>4. \A s \in SignUp : Holding(s)' => seen'[s].promotion < MaxRedemptions[chosen'[s]]
    BY <1>0, <1>4, <2>0, SignUpsAreGrants DEF RoomIsKept
  <2>5. ASSUME NEW s \in pending' \cap SignUp PROVE ~IsBeneficiary(s)'
    BY <1>0, <1>1, <2>0, <2>5 DEF RoomIsKept, MayRedeem, IsBeneficiary
  <2> QED  BY <2>2, <2>3, <2>4, <2>5 DEF RoomIsKept
<1> QED  BY <1>2, <1>3, <1>5, <1>6, <1>7 DEF PromotionInvariant

\* The session is rolled back under the redemption, which keeps its stage.
LEMMA StepOfConflict ==
    ASSUME PromotionInvariant, NEW g \in Grant, GrantConflict(g)
    PROVE  PromotionInvariant'
<1> USE DEF redemptionTables, choice, jobVars, tables, memory
<1>0. /\ PromotionTypeOK /\ PendingInStep /\ PromotionLocksExclude /\ HoldersAreCurrent
      /\ CreditTypeOK
  BY DEF PromotionInvariant, CreditInvariant
<1>1. CreditInvariant'
  BY StepOfGrant DEF GrantConflict, GrantStep, PromotionInvariant
<1>2. /\ pc' = [pc EXCEPT ![g] = "replayed"] /\ ledger' = ledger
      /\ stage[g] = "granting" /\ pending' = pending \ {g}
      /\ UNCHANGED <<stage, seen, chosen, answer>>
  BY DEF GrantConflict, FlushConflict, Finish
<1>3. PromotionTypeOK'
  BY <1>0, <1>1 DEF GrantConflict, PromotionTypeOK, CreditInvariant
<1>4. PendingInStep'
  BY <1>0, <1>2 DEF GrantConflict, PendingInStep, CreditTypeOK, Request, Redeems
<1>5. PromotionLocksExclude'
  BY <1>0 DEF GrantConflict, PromotionLocksExclude
<1>6. \A h \in Grant : Holding(h)' => Holding(h) /\ h # g
  BY <1>2 DEF Holding
<1>7. HoldersAreCurrent'
  BY <1>0, <1>2, <1>6 DEF GrantConflict, HoldersAreCurrent, LocksOf, HasCode, Redeems
<1>8. RoomIsKept'
  <2>1. \A h \in Grant : Holding(h)' =>
           Holding(h) /\ seen'[h] = seen[h] /\ Redeems(h)' = Redeems(h)
    BY <1>2, <1>6 DEF Redeems
  <2>2. UNCHANGED redemptionTables /\ pending' \subseteq pending /\ pending' \subseteq Grant
        /\ chosen' = chosen /\ RoomIsKept
    BY <1>2, <1>3 DEF GrantConflict, PromotionInvariant, PromotionTypeOK
  <2> QED  BY <2>1, <2>2, RoomStays
<1>9. RowsAreRight'
  BY <1>2, RowsStayRight DEF GrantConflict, PromotionInvariant
<1> QED  BY <1>1, <1>3, <1>4, <1>5, <1>7, <1>8, <1>9 DEF PromotionInvariant

LEMMA StepOfGranting ==
    ASSUME PromotionInvariant, NEW g \in Grant, GrantCredit(g)
    PROVE  PromotionInvariant'
<1>0. CreditTypeOK /\ PendingInStep /\ RoomIsKept /\ RedeemedIffCredited
  BY DEF PromotionInvariant, CreditInvariant, RowsAreRight
<1>1. CreditInvariant'
  BY StepOfGrant DEF GrantCredit, GrantStep, PromotionInvariant
<1>2. ledger' = ledger
  BY DEF GrantCredit, CheckDuplicate, SelectForUpdate, Save, InsertEntry, WriteRow, tables
<1>3. ASSUME CheckDuplicate(g) PROVE pc'[g] # "replayed"
  <2>1. g \in pending
    BY <1>0, <1>3 DEF GrantCredit, CheckDuplicate, PendingInStep
  <2>2. ~IsDuplicate(g)
    BY <1>0, <2>1 DEF RoomIsKept, RedeemedIffCredited, IsReplay, IsDuplicate
  <2> QED  BY <1>0, <1>3, <2>2 DEF CheckDuplicate, CreditTypeOK, Request
<1>4. \A h \in Grant :
         \/ pc'[h] = pc[h]
         \/ stage[h] = "granting" /\ pc[h] # "replayed" /\ pc'[h] # "replayed"
  BY <1>0, <1>3 DEF GrantCredit, CheckDuplicate, SelectForUpdate, Save, InsertEntry,
     CanInsertEntry, WriteRow, CanWriteRow, CreditTypeOK, Request
<1>5. UNCHANGED redemptionVars
  BY DEF GrantCredit
<1> QED  BY <1>1, <1>2, <1>4, <1>5, CreditsGoOn

-----------------------------------------------------------------------------
(* The step that commits a redemption *)

\* The row of g is added: the rows of one promotion and of one code become
\* one more.
LEMMA OneMoreRow ==
    ASSUME IsFiniteSet(redeemed), NEW g \in Grant, g \notin redeemed,
           redeemed' = redeemed \cup {g}, chosen' = chosen
    PROVE  /\ \A h : Redeems(h)' = Redeems(h)
           /\ \A p : p # Redeems(g) => RedeemedOf(p)' = RedeemedOf(p)
           /\ \A p : p = Redeems(g) =>
                 /\ RedeemedOf(p)' = RedeemedOf(p) \cup {g}
                 /\ Cardinality(RedeemedOf(p)) \in Nat
                 /\ Cardinality(RedeemedOf(p)') = Cardinality(RedeemedOf(p)) + 1
<1>1. \A h : Redeems(h)' = Redeems(h)
  BY DEF Redeems
<1>2. \A p : p # Redeems(g) => RedeemedOf(p)' = RedeemedOf(p)
  BY <1>1 DEF RedeemedOf
<1>3. ASSUME NEW p, p = Redeems(g)
      PROVE  /\ RedeemedOf(p)' = RedeemedOf(p) \cup {g}
             /\ Cardinality(RedeemedOf(p)) \in Nat
             /\ Cardinality(RedeemedOf(p)') = Cardinality(RedeemedOf(p)) + 1
  <2>1. RedeemedOf(p)' = RedeemedOf(p) \cup {g}
    BY <1>1, <1>3 DEF RedeemedOf
  <2>2. RedeemedOf(p) \subseteq redeemed
    BY DEF RedeemedOf
  <2>3. IsFiniteSet(RedeemedOf(p)) /\ g \notin RedeemedOf(p)
    BY <2>2, FS_Subset
  <2> QED  BY <2>1, <2>3, CountOneMore
<1> QED  BY <1>1, <1>2, <1>3

LEMMA OneMoreRowOfCode ==
    ASSUME IsFiniteSet(redeemed), NEW g \in Grant, g \notin redeemed,
           redeemed' = redeemed \cup {g}, NEW c
    PROVE  LET rows == {o \in redeemed : CodeOf[o] = c}
           IN  /\ Cardinality(rows) \in Nat
               /\ CodeOf[g] = c => Cardinality(rows') = Cardinality(rows) + 1
               /\ CodeOf[g] # c => rows' = rows
<1> DEFINE rows == {o \in redeemed : CodeOf[o] = c}
<1>1. IsFiniteSet(rows) /\ g \notin rows
  <2>1. rows \subseteq redeemed
    OBVIOUS
  <2> QED  BY <2>1, FS_Subset
<1>2. CodeOf[g] = c => rows' = rows \cup {g}
  OBVIOUS
<1>3. CodeOf[g] # c => rows' = rows
  OBVIOUS
<1> HIDE DEF rows
<1>4. Cardinality(rows) \in Nat /\ (CodeOf[g] = c => Cardinality(rows') = Cardinality(rows) + 1)
  BY <1>1, <1>2, CountOneMore
<1> QED  BY <1>3, <1>4 DEF rows

LEMMA StepOfCommit ==
    ASSUME PromotionInvariant, NEW g \in Grant, CommitRedemption(g), CommitGrant(g)
    PROVE  PromotionInvariant'
<1> USE DEF redemptionTables, choice, jobVars
<1>0. /\ PromotionTypeOK /\ PendingInStep /\ PromotionLocksExclude /\ HoldersAreCurrent
      /\ CreditTypeOK /\ RoomIsKept /\ RowsAreRight
  BY DEF PromotionInvariant, CreditInvariant
<1>1. /\ g \in pending /\ Holding(g) /\ g \notin redeemed
      /\ pc' = [pc EXCEPT ![g] = "granted"] /\ ledger' = ledger \cup {g}
  BY <1>0 DEF CommitRedemption, CommitGrant, Finish, PendingInStep, Holding
<1>2. /\ redeemed' = redeemed \cup {g}
      /\ timesRedeemed' = [timesRedeemed EXCEPT ![Redeems(g)] = seen[g].promotion + 1]
      /\ codeTimes' = IF HasCode(g)
                      THEN [codeTimes EXCEPT ![CodeOf[g]] = seen[g].code + 1] ELSE codeTimes
      /\ stage' = [stage EXCEPT ![g] = "done"]
      /\ codeLocks' = codeLocks \ {g} /\ promotionLocks' = promotionLocks \ LocksOf(g)
      /\ pending' = pending \ {g} /\ answer' = [answer EXCEPT ![g] = "granted"]
      /\ UNCHANGED <<candidates, chosen, seen, made, jobStage>>
  BY <1>1 DEF CommitRedemption, WriteRedemption, EndSession
<1>3. /\ Redeems(g) \in Promotion /\ <<g, Redeems(g)>> \in promotionLocks
      /\ seen[g].promotion = timesRedeemed[Redeems(g)]
      /\ HasCode(g) => g \in codeLocks /\ seen[g].code = codeTimes[CodeOf[g]]
  BY <1>0, <1>1 DEF HoldersAreCurrent
<1>4. /\ \A h : Redeems(h)' = Redeems(h)
      /\ \A p : p # Redeems(g) => RedeemedOf(p)' = RedeemedOf(p)
      /\ \A p : p = Redeems(g) =>
            /\ RedeemedOf(p)' = RedeemedOf(p) \cup {g}
            /\ Cardinality(RedeemedOf(p)) \in Nat
            /\ Cardinality(RedeemedOf(p)') = Cardinality(RedeemedOf(p)) + 1
  BY <1>0, <1>1, <1>2, OneMoreRow DEF RowsAreRight
<1>5. \A h \in Grant : h # g /\ Holding(h) => Redeems(h) # Redeems(g)
  BY <1>0, <1>3 DEF HoldersAreCurrent, PromotionLocksExclude
<1>6. \A h \in Grant :
         h # g /\ HasCode(h) /\ HasCode(g) /\ (stage[h] = "code" \/ Holding(h)) =>
            CodeOf[h] # CodeOf[g]
  BY <1>0, <1>3 DEF HoldersAreCurrent, PromotionLocksExclude
<1>7. \A h \in Grant : Holding(h)' => Holding(h) /\ h # g
  BY <1>0, <1>2 DEF Holding, PromotionTypeOK
<1>8. CreditInvariant'
  BY StepOfGrant DEF GrantStep, PromotionInvariant
<1>9. PromotionTypeOK'
  <2>1. seen[g].promotion + 1 \in Nat /\ seen[g].code + 1 \in Nat
    BY <1>0 DEF PromotionTypeOK
  <2>2. timesRedeemed' \in [Promotion -> Nat] /\ codeTimes' \in [Code -> Nat]
    BY <1>0, <1>2, <2>1 DEF PromotionTypeOK
  <2> QED
    BY <1>0, <1>2, <1>8, <2>2 DEF PromotionTypeOK, CreditInvariant, Stage, Answer
<1>10. PendingInStep'
  BY <1>0, <1>1, <1>2, <1>3, <1>4 DEF PromotionTypeOK, PendingInStep, CreditTypeOK, Request
<1>11. PromotionLocksExclude'
  BY <1>0, <1>2 DEF PromotionLocksExclude
<1>12. HoldersAreCurrent'
  <2> SUFFICES ASSUME NEW h \in Grant
               PROVE  /\ HasCode(h) /\ (stage'[h] = "code" \/ Holding(h)') =>
                            h \in codeLocks' /\ seen'[h].code = codeTimes'[CodeOf[h]]
                      /\ Holding(h)' =>
                            /\ Redeems(h)' \in Promotion /\ <<h, Redeems(h)'>> \in promotionLocks'
                            /\ seen'[h].promotion = timesRedeemed'[Redeems(h)']
    BY DEF HoldersAreCurrent, HasCode
  <2>1. ASSUME HasCode(h), stage'[h] = "code" \/ Holding(h)'
        PROVE  h \in codeLocks' /\ seen'[h].code = codeTimes'[CodeOf[h]]
    <3>1. h # g /\ (stage[h] = "code" \/ Holding(h))
      BY <1>0, <1>2, <1>7, <2>1 DEF PromotionTypeOK
    <3>2. h \in codeLocks /\ seen[h].code = codeTimes[CodeOf[h]]
      BY <1>0, <2>1, <3>1 DEF HoldersAreCurrent
    <3>3. HasCode(g) => CodeOf[h] # CodeOf[g]
      BY <1>6, <2>1, <3>1
    <3>4. CodeOf[h] \in Code
      BY <2>1, PromotionsAssumption DEF HasCode
    <3>5. codeTimes'[CodeOf[h]] = codeTimes[CodeOf[h]]
      BY <1>0, <1>2, <3>3, <3>4 DEF PromotionTypeOK
    <3> QED  BY <1>2, <3>1, <3>2, <3>5
  <2>2. ASSUME Holding(h)'
        PROVE  /\ Redeems(h)' \in Promotion /\ <<h, Redeems(h)'>> \in promotionLocks'
               /\ seen'[h].promotion = timesRedeemed'[Redeems(h)']
    <3>1. h # g /\ Holding(h) /\ Redeems(h) # Redeems(g)
      BY <1>5, <1>7, <2>2
    <3>2. /\ Redeems(h) \in Promotion /\ <<h, Redeems(h)>> \in promotionLocks
          /\ seen[h].promotion = timesRedeemed[Redeems(h)]
      BY <1>0, <3>1 DEF HoldersAreCurrent
    <3>3. timesRedeemed'[Redeems(h)] = timesRedeemed[Redeems(h)]
      BY <1>0, <1>2, <3>1, <3>2 DEF PromotionTypeOK
    <3> QED  BY <1>2, <1>4, <3>1, <3>2, <3>3 DEF LocksOf
  <2> QED  BY <2>1, <2>2
<1>13. RoomIsKept'
  <2>0. \A h \in pending' : h \in Grant /\ h \in pending /\ h # g /\ Holding(h)
    BY <1>0, <1>2 DEF PromotionTypeOK, Holding
  <2>1. ASSUME NEW h \in pending' PROVE ~IsReplay(h)'
    <3>1. KeyOf[h] # KeyOf[g]
      BY <1>5, <2>0, KeyLeadsToPromotion
    <3> QED  BY <1>0, <1>2, <2>0, <3>1 DEF RoomIsKept, IsReplay
  <2>2. ASSUME NEW h \in pending' PROVE RedeemedOf(Redeems(h))' = RedeemedOf(Redeems(h))
    BY <1>4, <1>5, <2>0
  <2>3. ASSUME NEW h \in pending' \ SignUp PROVE WithinLimits(h)'
    <3>1. UserRedemptions(h)' = UserRedemptions(h)
      BY <2>2, <2>3 DEF UserRedemptions, Mine
    <3> QED  BY <1>0, <1>2, <1>4, <2>0, <2>3, <3>1 DEF RoomIsKept, WithinLimits, HasCode
  <2>4. \A s \in SignUp : Holding(s)' => seen'[s].promotion < MaxRedemptions[chosen'[s]]
    BY <1>0, <1>2, <1>7, SignUpsAreGrants DEF RoomIsKept
  <2>5. ASSUME NEW s \in pending' \cap SignUp PROVE ~IsBeneficiary(s)'
    <3>1. RedeemedOf(chosen[s])' = RedeemedOf(chosen[s])
      BY <2>2, <2>5 DEF Redeems
    <3> QED  BY <1>0, <1>2, <2>0, <2>5, <3>1 DEF RoomIsKept, IsBeneficiary, RedeemedOf
  <2> QED  BY <2>1, <2>3, <2>4, <2>5 DEF RoomIsKept
<1>14. RowsAreRight'
  <2>1. IsFiniteSet(redeemed')
    BY <1>0, <1>2, FS_AddElement DEF RowsAreRight
  <2>2. CountersMatchRedemptions'
    <3>1. ASSUME NEW p \in Promotion
          PROVE  timesRedeemed'[p] = Cardinality(RedeemedOf(p)')
      BY <1>0, <1>2, <1>3, <1>4 DEF RowsAreRight, CountersMatchRedemptions, PromotionTypeOK
    <3>2. ASSUME NEW c \in Code
          PROVE  codeTimes'[c] = Cardinality({o \in redeemed' : CodeOf[o] = c})
      <4> DEFINE rows == {o \in redeemed : CodeOf[o] = c}
      <4>1. /\ CodeOf[g] = c => Cardinality(rows') = Cardinality(rows) + 1
            /\ CodeOf[g] # c => rows' = rows
        BY <1>0, <1>1, <1>2, OneMoreRowOfCode DEF RowsAreRight
      <4>2. codeTimes[c] = Cardinality(rows)
        BY <1>0 DEF RowsAreRight, CountersMatchRedemptions
      <4>3. CodeOf[g] = c => HasCode(g)
        BY PromotionsAssumption DEF HasCode
      <4>4. codeTimes'[c] = IF CodeOf[g] = c THEN codeTimes[c] + 1 ELSE codeTimes[c]
        BY <1>0, <1>2, <1>3, <4>3 DEF PromotionTypeOK
      <4> HIDE DEF rows
      <4>5. codeTimes'[c] = Cardinality(rows')
        BY <4>1, <4>2, <4>4
      <4> QED  BY <4>5 DEF rows
    <3> QED  BY <3>1, <3>2 DEF CountersMatchRedemptions
  <2>3. RedeemedIffCredited' /\ RedeemedOncePerKey'
    <3>1. redeemed' = ledger' \cap Grant
      BY <1>0, <1>1, <1>2 DEF RowsAreRight, RedeemedIffCredited
    <3>2. \A o \in redeemed', p \in redeemed' : KeyOf[o] = KeyOf[p] => o = p
      BY <1>8, <3>1 DEF CreditInvariant, KeyCreditedOnce
    <3>3. \A h \in Grant : answer'[h] = "already" => IsReplay(h)'
      BY <1>0, <1>2 DEF RowsAreRight, RedeemedOncePerKey, IsReplay, PromotionTypeOK
    <3> QED  BY <3>1, <3>2, <3>3 DEF RedeemedIffCredited, RedeemedOncePerKey
  <2>4. LimitsKept'
    <3>1. ASSUME NEW p \in Promotion
          PROVE  Cardinality(RedeemedOf(p)') <= MaxRedemptions[p]
      <4>1. CASE p = Redeems(g)
        <5>1. seen[g].promotion < MaxRedemptions[p]
          BY <1>0, <1>1, <4>1 DEF RoomIsKept, WithinLimits, Redeems
        <5>2. Cardinality(RedeemedOf(p)) = seen[g].promotion
          BY <1>0, <1>3, <4>1 DEF RowsAreRight, CountersMatchRedemptions
        <5>3. MaxRedemptions[p] \in Nat
          BY PromotionsAssumption
        <5> QED  BY <1>4, <4>1, <5>1, <5>2, <5>3
      <4>2. CASE p # Redeems(g)
        BY <1>0, <1>4, <4>2 DEF RowsAreRight, LimitsKept
      <4> QED  BY <4>1, <4>2
    <3>2. ASSUME NEW c \in Code
          PROVE  Cardinality({o \in redeemed' : CodeOf[o] = c}) <= MaxCodeRedemptions[c]
      <4>1. CASE c = CodeOf[g]
        <5>1. HasCode(g) /\ g \notin SignUp
          BY <4>1, PromotionsAssumption, SignUpsAreGrants DEF HasCode
        <5>2. codeTimes[c] < MaxCodeRedemptions[c]
          BY <1>0, <1>1, <1>3, <4>1, <5>1 DEF RoomIsKept, WithinLimits
        <5>3. MaxCodeRedemptions[c] \in Nat /\ codeTimes[c] \in Nat
          BY <1>0, PromotionsAssumption DEF PromotionTypeOK
        <5>4. codeTimes'[c] = codeTimes[c] + 1
          BY <1>0, <1>2, <1>3, <4>1, <5>1 DEF PromotionTypeOK
        <5> QED  BY <2>2, <5>2, <5>3, <5>4 DEF CountersMatchRedemptions
      <4>2. CASE c # CodeOf[g]
        <5>1. {o \in redeemed' : CodeOf[o] = c} = {o \in redeemed : CodeOf[o] = c}
          BY <1>2, <4>2
        <5> QED  BY <1>0, <5>1 DEF RowsAreRight, LimitsKept
      <4> QED  BY <4>1, <4>2
    <3>3. ASSUME NEW o \in redeemed'
          PROVE  Cardinality(UserRedemptions(o))' <= MaxPerUser[Redeems(o)']
      <4>1. CASE Redeems(o) = Redeems(g) /\ Mine(o) = Mine(g)
        <5>1. UserRedemptions(o)' = UserRedemptions(g) \cup {g} /\ g \notin UserRedemptions(g)
          BY <1>1, <1>4, <4>1 DEF UserRedemptions, RedeemedOf, Mine
        <5>2. IsFiniteSet(UserRedemptions(g))
          <6>1. UserRedemptions(g) \subseteq redeemed
            BY DEF UserRedemptions, RedeemedOf
          <6> QED  BY <1>0, <6>1, FS_Subset DEF RowsAreRight
        <5>3. Cardinality(UserRedemptions(g)) < MaxPerUser[Redeems(g)]
          <6>1. CASE g \in SignUp
            <7>1. UserRedemptions(g) = {}
              BY <1>0, <1>1, <6>1, SignUpIsAlone DEF UserRedemptions, RedeemedOf, PromotionTypeOK
            <7> QED  BY <1>3, <7>1, FS_EmptySet, PromotionsAssumption
          <6>2. CASE g \notin SignUp
            BY <1>0, <1>1, <6>2 DEF RoomIsKept, WithinLimits
          <6> QED  BY <6>1, <6>2
        <5>4. MaxPerUser[Redeems(g)] \in Nat
          BY <1>3, PromotionsAssumption
        <5>5. /\ Cardinality(UserRedemptions(g)) \in Nat
              /\ Cardinality(UserRedemptions(o))' = Cardinality(UserRedemptions(g)) + 1
          BY <5>1, <5>2, CountOneMore
        <5> QED  BY <1>4, <4>1, <5>3, <5>4, <5>5
      <4>2. CASE ~(Redeems(o) = Redeems(g) /\ Mine(o) = Mine(g))
        <5>1. o \in redeemed
          BY <1>2, <4>2
        <5>2. UserRedemptions(o)' = UserRedemptions(o)
          BY <1>4, <4>2 DEF UserRedemptions, Mine
        <5> QED  BY <1>0, <1>4, <5>1, <5>2 DEF RowsAreRight, LimitsKept
      <4> QED  BY <4>1, <4>2
    <3>4. ASSUME NEW o \in redeemed' \cap SignUp, NEW s \in redeemed' \cap SignUp,
                 BeneficiaryOf[o] = BeneficiaryOf[s], chosen'[o] = chosen'[s]
          PROVE  o = s
      <4>1. \A t \in redeemed \cap SignUp :
               g \in SignUp /\ chosen[t] = chosen[g] => BeneficiaryOf[t] # BeneficiaryOf[g]
        BY <1>0, <1>1 DEF RoomIsKept, IsBeneficiary, RedeemedOf, Redeems
      <4>2. \A t, v \in redeemed \cap SignUp :
               BeneficiaryOf[t] = BeneficiaryOf[v] /\ chosen[t] = chosen[v] => t = v
        BY <1>0 DEF RowsAreRight, LimitsKept
      <4> QED  BY <1>2, <3>4, <4>1, <4>2
    <3> QED  BY <3>1, <3>2, <3>3, <3>4 DEF LimitsKept
  <2> QED  BY <2>1, <2>2, <2>3, <2>4 DEF RowsAreRight
<1> QED  BY <1>8, <1>9, <1>10, <1>11, <1>12, <1>13, <1>14 DEF PromotionInvariant

-----------------------------------------------------------------------------
(* Every step *)

LEMMA StepOfRedemption ==
    ASSUME PromotionInvariant, NEW g \in Grant, RedemptionStep(g) \/ AbortRedemption(g)
    PROVE  PromotionInvariant'
<1>0. /\ CreditTypeOK /\ PendingInStep /\ CreditInvariant
      /\ g \in Request
  BY DEF PromotionInvariant, CreditInvariant, Request
<1>1. CASE \/ LockCode(g) \/ LockPromotion(g)
           \/ FindCandidates(g) \/ ChooseCandidate(g) \/ PassOver(g)
  BY <1>1, StepOfLocking
<1>2. CASE RecordRedemption(g)
  BY <1>2, StepOfRecording
<1>3. CASE GrantCredit(g)
  BY <1>3, StepOfGranting
<1>4. CASE GrantConflict(g)
  BY <1>4, StepOfConflict
<1>5. CASE CommitRedemption(g)
  <2>1. CASE CommitGrant(g)
    BY <1>5, <2>1, StepOfCommit
  <2>2. CASE ~CommitGrant(g)
    <3>1. pc[g] = "replayed" /\ UNCHANGED creditVars /\ g \notin pending
      BY <1>0, <1>5, <2>2 DEF CommitRedemption, PendingInStep
    <3>2. UNCHANGED redemptionTables /\ EndSession(g, "granted")
      BY <1>5, <3>1 DEF CommitRedemption, WriteRedemption
    <3>3. CreditInvariant'
      BY <1>0, <3>1, NextInvariant
    <3> QED  BY <3>1, <3>2, <3>3, SessionEnds DEF creditVars, tables, Answer
  <2> QED  BY <2>1, <2>2
<1>6. CASE GrantError(g)
  <2>1. CreditInvariant'
    BY <1>0, <1>6, StepOfGrant DEF GrantError, GrantStep
  <2>2. ledger' = ledger /\ \A h \in Grant : h # g => pc'[h] = pc[h]
    BY <1>0, <1>6 DEF GrantError, FlushError, Finish, tables, CreditTypeOK, Request
  <2> QED  BY <1>6, <2>1, <2>2, SessionEnds DEF GrantError, Answer
<1>7. CASE AbortRedemption(g)
  <2>1. CreditInvariant'
    BY <1>0, <1>7, StepOfAbort, NextInvariant DEF AbortRedemption
  <2>2. ledger' = ledger /\ \A h \in Grant : h # g => pc'[h] = pc[h]
    BY <1>0, <1>7 DEF AbortRedemption, Abort, Finish, creditVars, tables, CreditTypeOK, Request
  <2> QED  BY <1>7, <2>1, <2>2, SessionEnds DEF AbortRedemption, Answer
<1>8. CASE FindNothing(g) \/ ReplayRedemption(g) \/ RejectRedemption(g) \/ SignUpWithout(g)
  <2>1. UNCHANGED creditVars /\ UNCHANGED redemptionTables
    BY <1>8 DEF FindNothing, ReplayRedemption, RejectRedemption, SignUpWithout
  <2>2. CreditInvariant'
    BY <1>0, <2>1, NextInvariant
  <2>3. ledger' = ledger /\ pc' = pc
    BY <2>1 DEF creditVars, tables
  <2>4. CASE ReplayRedemption(g)
    BY <2>1, <2>2, <2>3, <2>4, SessionEnds DEF ReplayRedemption, Answer
  <2>5. CASE FindNothing(g)
    BY <2>1, <2>2, <2>3, <2>5, SessionEnds DEF FindNothing, Answer
  <2>6. CASE RejectRedemption(g)
    BY <2>1, <2>2, <2>3, <2>6, SessionEnds DEF RejectRedemption, Answer
  <2>7. CASE SignUpWithout(g)
    BY <2>1, <2>2, <2>3, <2>7, SessionEnds DEF SignUpWithout, Answer
  <2> QED  BY <1>8, <2>4, <2>5, <2>6, <2>7
<1> QED
  BY <1>1, <1>2, <1>3, <1>4, <1>5, <1>6, <1>7, <1>8 DEF RedemptionStep

LEMMA StepOfAnalysis ==
    ASSUME PromotionInvariant, NEW u \in Usage, Analysis(u) \/ AbortAnalysis(u)
    PROVE  PromotionInvariant'
<1>0. CreditTypeOK /\ CreditInvariant /\ u \in Request /\ u \notin Grant
  BY RequestsAssumption DEF PromotionInvariant, CreditInvariant, Request
<1>s. UsageStep(u) \/ Abort(u)
  BY DEF Analysis, AbortAnalysis
<1>1. CreditInvariant'
  <2>1. CASE UsageStep(u)
    BY <1>0, <2>1, StepOfUsage
  <2>2. CASE Abort(u)
    BY <1>0, <2>2, StepOfAbort
  <2> QED  BY <1>s, <2>1, <2>2
<1>2. /\ ledger' \subseteq ledger \cup {u} /\ ledger \subseteq ledger'
      /\ \A h \in Grant : pc'[h] = pc[h]
  <2>1. CASE Abort(u)
    BY <1>0, <2>1 DEF Abort, Finish, tables, CreditTypeOK
  <2>2. CASE Reserve(u)
    BY <1>0, <2>2 DEF Reserve, tables, CreditTypeOK
  <2>3. CASE RejectUse(u)
    BY <1>0, <2>3 DEF RejectUse, tables, CreditTypeOK
  <2>4. CASE FinalizeUsage(u)
    BY <1>0, <2>4 DEF FinalizeUsage, Finish, CreditTypeOK
  <2> QED  BY <1>s, <2>1, <2>2, <2>3, <2>4 DEF UsageStep
<1>3. UNCHANGED redemptionVars
  BY DEF Analysis, AbortAnalysis
<1>4. ledger' \cap Grant = ledger \cap Grant
  BY <1>0, <1>2
<1> QED  BY <1>1, <1>2, <1>3, <1>4, CreditsGoOn

\* A job locks the row of the promotion of the month and lets it go.
LEMMA StepOfJob ==
    ASSUME PromotionInvariant, NEW j \in Job, JobStep(j) \/ KillJob(j)
    PROVE  PromotionInvariant'
<1> USE DEF redemptionTables, choice, jobVars
<1>0. /\ PromotionTypeOK /\ PendingInStep /\ PromotionLocksExclude /\ HoldersAreCurrent
      /\ j \notin Grant /\ Monthly \in Promotion
  BY PromotionsAssumption DEF PromotionInvariant, Request
<1>1. UNCHANGED <<creditVars, stage, codeLocks, choice, seen, pending, redemptionTables, answer>>
  BY DEF JobStep, FindMonthly, InsertMonthly, CommitMonthly, KillJob
<1>2. /\ made' \in SUBSET (made \cup {Monthly}) /\ jobStage' \in [Job -> JobStage]
      /\ \/ promotionLocks' = promotionLocks
         \/ promotionLocks' = promotionLocks \ LocksOf(j)
         \/ FreePromotion(Monthly) /\ promotionLocks' = promotionLocks \cup {<<j, Monthly>>}
  BY <1>0 DEF JobStep, FindMonthly, InsertMonthly, CommitMonthly, KillJob, JobMoves, JobStage,
     PromotionTypeOK
<1>3. \A h \in Grant, p \in Promotion :
         <<h, p>> \in promotionLocks => <<h, p>> \in promotionLocks'
  BY <1>0, <1>2 DEF LocksOf
<1>4. PromotionTypeOK'
  BY <1>0, <1>1, <1>2 DEF PromotionTypeOK, creditVars, tables, memory, CreditTypeOK, Consistent
<1>5. PendingInStep'
  BY <1>0, <1>1 DEF PendingInStep, Redeems, creditVars
<1>6. PromotionLocksExclude'
  BY <1>0, <1>1, <1>2 DEF PromotionLocksExclude, FreePromotion
<1>7. HoldersAreCurrent'
  BY <1>0, <1>1, <1>3 DEF HoldersAreCurrent, Holding, HasCode, Redeems
<1>8. \A h \in Grant : Holding(h)' =>
         Holding(h) /\ seen'[h] = seen[h] /\ Redeems(h)' = Redeems(h)
  BY <1>1 DEF Holding, Redeems
<1> QED  BY <1>1, <1>4, <1>5, <1>6, <1>7, <1>8, NoNewHolder

LEMMA NextPromotions ==
    ASSUME PromotionInvariant, [PromotionNext]_promotionVars PROVE PromotionInvariant'
<1>1. CASE PromotionNext
  BY <1>1, StepOfRedemption, StepOfAnalysis, StepOfJob DEF PromotionNext
<1>2. CASE UNCHANGED promotionVars
  <2>1. UNCHANGED creditVars /\ UNCHANGED redemptionVars
    BY <1>2 DEF promotionVars
  <2>2. CreditInvariant'
    BY <2>1, NextInvariant DEF PromotionInvariant
  <2>3. ledger' = ledger /\ pc' = pc
    BY <2>1 DEF creditVars, tables
  <2> QED  BY <2>1, <2>2, <2>3, CreditsGoOn
<1> QED  BY <1>1, <1>2

-----------------------------------------------------------------------------
(* Who holds a lock *)

\* The locks and the redemptions that LocksInStep speaks of are as they were,
\* or fewer locks are held.
LEMMA FewerLocks ==
    ASSUME LocksInStep,
           \A g \in Grant :
              pc'[g] \in {"checked", "selected", "saved", "keyed", "flushed"} => stage'[g] = "granting",
           codeLocks' \subseteq codeLocks,
           \A g \in codeLocks' : stage'[g] = stage[g] \/ stage'[g] = "granting",
           promotionLocks' \subseteq promotionLocks,
           \A l \in promotionLocks' :
              /\ l[1] \in Grant => stage'[l[1]] = stage[l[1]] \/ stage'[l[1]] = "granting"
              /\ l[1] \in Job => jobStage'[l[1]] = jobStage[l[1]],
           candidates' = candidates,
           \A r \in locks' : \/ r \in Grant /\ pc'[r] \in {"selected", "saved", "keyed", "flushed"}
                             \/ r \in Usage /\ pc'[r] = "reserved"
    PROVE  LocksInStep'
<1>1. ASSUME NEW l \in promotionLocks'
      PROVE  \/ l[1] \in Job /\ jobStage'[l[1]] = "found"
             \/ l[1] \in Grant /\ stage'[l[1]] \in {"promotion", "granting"}
             \/ /\ l[1] \in SignUp /\ stage'[l[1]] = "choosing" /\ l[2] \in SignupPromotion
                /\ \A q \in candidates'[l[1]] : Rank[q] < Rank[l[2]]
  <2>1. CASE l[1] \in Job /\ jobStage[l[1]] = "found"
    BY <2>1
  <2>2. CASE l[1] \in Grant /\ stage[l[1]] \in {"promotion", "granting"}
    BY <2>2
  <2>3. CASE /\ l[1] \in SignUp /\ stage[l[1]] = "choosing" /\ l[2] \in SignupPromotion
             /\ \A q \in candidates[l[1]] : Rank[q] < Rank[l[2]]
    BY <2>3, SignUpsAreGrants
  <2> QED  BY <2>1, <2>2, <2>3 DEF LocksInStep
<1>2. \A g \in codeLocks' : HasCode(g) /\ stage'[g] \in {"code", "promotion", "granting"}
  BY DEF LocksInStep
<1> QED  BY <1>1, <1>2 DEF LocksInStep, HasCode

LEMMA LocksOfRequests ==
    ASSUME PromotionInvariant, LocksInStep, NEW g \in Grant, UNCHANGED creditVars
    PROVE  /\ \A h \in Grant : pc'[h] = pc[h]
           /\ \A r \in locks' : \/ r \in Grant /\ pc'[r] \in {"selected", "saved", "keyed", "flushed"}
                                \/ r \in Usage /\ pc'[r] = "reserved"
BY DEF LocksInStep, creditVars

\* A session that ends lets go of everything.
LEMMA LocksOfEnded ==
    ASSUME PromotionInvariant, LocksInStep, NEW g \in Grant, NEW result, EndSession(g, result),
           \A h \in Grant : h # g => pc'[h] = pc[h],
           pc'[g] \notin {"checked", "selected", "saved", "keyed", "flushed"},
           \A r \in locks' : \/ r \in Grant /\ pc'[r] \in {"selected", "saved", "keyed", "flushed"}
                             \/ r \in Usage /\ pc'[r] = "reserved"
    PROVE  LocksInStep'
<1>1. stage \in [Grant -> Stage]
  BY DEF PromotionInvariant, PromotionTypeOK
<1>2. \A h \in Grant : h # g => stage'[h] = stage[h]
  BY <1>1 DEF EndSession
<1>3. \A h \in Grant :
         pc'[h] \in {"checked", "selected", "saved", "keyed", "flushed"} => stage'[h] = "granting"
  BY <1>2 DEF LocksInStep
<1>4. /\ codeLocks' \subseteq codeLocks /\ promotionLocks' \subseteq promotionLocks
      /\ candidates' = candidates /\ jobStage' = jobStage
      /\ g \notin codeLocks' /\ \A l \in promotionLocks' : l[1] # g
  BY DEF EndSession, LocksOf, choice, jobVars
<1>5. codeLocks \subseteq Grant
  BY DEF PromotionInvariant, PromotionTypeOK
<1> QED  BY <1>2, <1>3, <1>4, <1>5, FewerLocks

LEMMA LocksOfLocking ==
    ASSUME PromotionInvariant, LocksInStep, NEW g \in Grant,
           \/ LockCode(g) \/ LockPromotion(g)
           \/ FindCandidates(g) \/ ChooseCandidate(g) \/ PassOver(g)
    PROVE  LocksInStep'
<1> USE DEF choice, jobVars
<1>0. /\ stage \in [Grant -> Stage] /\ codeLocks \subseteq Grant
      /\ candidates \in [SignUp -> SUBSET SignupPromotion]
      /\ SignUp \subseteq Grant /\ \A s \in SignUp : ~HasCode(s)
      /\ Job \cap Grant = {} /\ PendingInStep
  BY SignUpsAreGrants, PromotionsAssumption DEF PromotionInvariant, PromotionTypeOK, Request
<1>u. UNCHANGED creditVars
  BY DEF LockCode, LockPromotion, FindCandidates, ChooseCandidate, PassOver
<1>1. /\ \A h \in Grant : pc'[h] = pc[h]
      /\ \A r \in locks' : \/ r \in Grant /\ pc'[r] \in {"selected", "saved", "keyed", "flushed"}
                           \/ r \in Usage /\ pc'[r] = "reserved"
  BY <1>u, LocksOfRequests
<1>2. stage[g] # "granting"
  BY DEF LockCode, LockPromotion, FindCandidates, ChooseCandidate, PassOver
<1>3. \A h \in Grant : h # g => stage'[h] = stage[h]
  BY <1>0 DEF LockCode, LockPromotion, FindCandidates, ChooseCandidate, PassOver
<1>4. jobStage' = jobStage
  BY DEF LockCode, LockPromotion, FindCandidates, ChooseCandidate, PassOver
<1>5. ASSUME NEW h \in Grant, pc'[h] \in {"checked", "selected", "saved", "keyed", "flushed"}
      PROVE  stage'[h] = "granting"
  BY <1>1, <1>2, <1>3, <1>5 DEF LocksInStep
<1>6. ASSUME NEW h \in codeLocks'
      PROVE  HasCode(h) /\ stage'[h] \in {"code", "promotion", "granting"}
  <2>1. CASE h = g
    BY <1>0, <2>1 DEF LockCode, LockPromotion, FindCandidates, ChooseCandidate, PassOver,
       LocksInStep
  <2>2. CASE h # g
    BY <1>0, <1>3, <2>2 DEF LockCode, LockPromotion, FindCandidates, ChooseCandidate, PassOver,
       LocksInStep
  <2> QED  BY <2>1, <2>2
<1> DEFINE Right(l) ==
        \/ l[1] \in Job /\ jobStage'[l[1]] = "found"
        \/ l[1] \in Grant /\ stage'[l[1]] \in {"promotion", "granting"}
        \/ /\ l[1] \in SignUp /\ stage'[l[1]] = "choosing" /\ l[2] \in SignupPromotion
           /\ \A q \in candidates'[l[1]] : Rank[q] < Rank[l[2]]
<1>7. \A h \in SignUp : h # g => candidates'[h] = candidates[h]
  BY <1>0 DEF LockCode, LockPromotion, FindCandidates, ChooseCandidate, PassOver, Try
<1>8. ASSUME NEW l \in promotionLocks, l[1] # g PROVE Right(l)
  <2>1. CASE l[1] \in Job /\ jobStage[l[1]] = "found"
    BY <1>4, <2>1
  <2>2. CASE l[1] \in Grant /\ stage[l[1]] \in {"promotion", "granting"}
    BY <1>3, <1>8, <2>2
  <2>3. CASE /\ l[1] \in SignUp /\ stage[l[1]] = "choosing" /\ l[2] \in SignupPromotion
             /\ \A q \in candidates[l[1]] : Rank[q] < Rank[l[2]]
    BY <1>0, <1>3, <1>7, <1>8, <2>3
  <2> QED  BY <2>1, <2>2, <2>3 DEF LocksInStep
<1>9. ASSUME NEW l \in promotionLocks', l[1] = g PROVE Right(l)
  <2>1. CASE LockCode(g)
    <3>1. l \in promotionLocks /\ stage[g] = "start"
      BY <2>1 DEF LockCode
    <3> QED  BY <1>0, <1>9, <3>1 DEF LocksInStep
  <2>2. CASE LockPromotion(g)
    BY <1>0, <1>9, <2>2 DEF LockPromotion
  <2>3. CASE FindCandidates(g)
    <3>1. l \in promotionLocks /\ stage[g] = "start"
      BY <2>3 DEF FindCandidates
    <3> QED  BY <1>0, <1>9, <3>1 DEF LocksInStep
  <2>4. CASE ChooseCandidate(g)
    BY <1>0, <1>9, <2>4 DEF ChooseCandidate
  <2>5. CASE PassOver(g)
    <3>1. PICK p \in SignupPromotion : Try(g, p)
      BY <2>5 DEF PassOver
    <3>2. g \in SignUp /\ stage'[g] = "choosing" /\ stage[g] = "choosing"
      BY <2>5 DEF PassOver
    <3>3. /\ candidates'[g] = candidates[g] \ {p}
          /\ \A q \in candidates[g] : Rank[q] <= Rank[p]
          /\ l \in promotionLocks \/ l = <<g, p>>
      BY <1>0, <3>1, <3>2 DEF Try, IsFirst
    <3>4. CASE l \in promotionLocks
      BY <1>0, <1>9, <3>2, <3>3, <3>4 DEF LocksInStep
    <3>5. CASE l = <<g, p>>
      <4>1. ASSUME NEW q \in candidates'[g] PROVE Rank[q] < Rank[p]
        <5>1. q \in SignupPromotion /\ q # p /\ Rank[q] <= Rank[p]
          BY <1>0, <3>2, <3>3
        <5> QED  BY <5>1, PromotionsAssumption
      <4> QED  BY <3>2, <3>5, <4>1
    <3> QED  BY <3>3, <3>4, <3>5
  <2> QED  BY <2>1, <2>2, <2>3, <2>4, <2>5
<1>10. ASSUME NEW l \in promotionLocks' PROVE Right(l)
  <2>1. CASE l[1] # g
    <3>1. l \in promotionLocks
      BY <2>1 DEF LockCode, LockPromotion, FindCandidates, ChooseCandidate, PassOver, Try
    <3> QED  BY <1>8, <2>1, <3>1
  <2> QED  BY <1>9, <2>1
<1> QED  BY <1>1, <1>5, <1>6, <1>10 DEF LocksInStep, HasCode

LEMMA LocksOfRecording ==
    ASSUME PromotionInvariant, LocksInStep, NEW g \in Grant, RecordRedemption(g)
    PROVE  LocksInStep'
<1>0. stage \in [Grant -> Stage] /\ codeLocks \subseteq Grant
  BY DEF PromotionInvariant, PromotionTypeOK
<1>1. /\ \A h \in Grant : pc'[h] = pc[h]
      /\ \A r \in locks' : \/ r \in Grant /\ pc'[r] \in {"selected", "saved", "keyed", "flushed"}
                           \/ r \in Usage /\ pc'[r] = "reserved"
  BY LocksOfRequests DEF RecordRedemption
<1>2. \A h \in Grant : stage'[h] = stage[h] \/ stage'[h] = "granting"
  BY <1>0 DEF RecordRedemption
<1>3. \A h \in Grant :
         pc'[h] \in {"checked", "selected", "saved", "keyed", "flushed"} => stage'[h] = "granting"
  BY <1>1, <1>2 DEF LocksInStep
<1>4. /\ codeLocks' = codeLocks /\ promotionLocks' = promotionLocks
      /\ candidates' = candidates /\ jobStage' = jobStage
  BY DEF RecordRedemption, choice, jobVars
<1> QED  BY <1>0, <1>1, <1>2, <1>3, <1>4, FewerLocks

\* A step of the grant that a redemption makes, the commit and the rollback of
\* its session left aside.
LEMMA LocksOfCredit ==
    ASSUME PromotionInvariant, LocksInStep, NEW g \in Grant,
           \/ GrantStep(g) \/ Abort(g)
    PROVE  /\ \A h \in Grant : h # g => pc'[h] = pc[h]
           /\ FlushConflict(g) \/ FlushError(g) \/ CommitGrant(g) \/ Abort(g) =>
                 pc'[g] \notin {"checked", "selected", "saved", "keyed", "flushed"}
           /\ \A r \in locks' : \/ r \in Grant /\ pc'[r] \in {"selected", "saved", "keyed", "flushed"}
                                \/ r \in Usage /\ pc'[r] = "reserved"
<1>0. pc \in [Request -> GrantPC \cup UsagePC \cup WithdrawalPC] /\ g \in Request
      /\ Grant \subseteq Request /\ Usage \subseteq Request /\ g \notin Usage
  BY RequestsAssumption DEF PromotionInvariant, CreditInvariant, CreditTypeOK, Request
<1>1. \A r \in Request : r # g => pc'[r] = pc[r]
  BY <1>0 DEF GrantStep, CheckDuplicate, SelectForUpdate, Save, InsertEntry, WriteRow, FlushConflict, FlushError,
     CommitGrant, Abort, Finish
<1>2. ASSUME NEW r \in locks', r # g
      PROVE  \/ r \in Grant /\ pc'[r] \in {"selected", "saved", "keyed", "flushed"}
             \/ r \in Usage /\ pc'[r] = "reserved"
  <2>1. r \in locks
    BY <1>2 DEF GrantStep, CheckDuplicate, SelectForUpdate, Save, InsertEntry, WriteRow, FlushConflict, FlushError,
       CommitGrant, Abort, Finish
  <2> QED  BY <1>0, <1>1, <1>2, <2>1 DEF LocksInStep
<1>3. ASSUME g \in locks' PROVE pc'[g] \in {"selected", "saved", "keyed", "flushed"}
  <2>1. CASE CheckDuplicate(g)
    BY <1>0, <1>3, <2>1 DEF CheckDuplicate, LocksInStep
  <2>2. CASE SelectForUpdate(g) \/ Save(g) \/ InsertEntry(g) \/ WriteRow(g)
    BY <1>0, <2>2 DEF SelectForUpdate, Save, InsertEntry, WriteRow
  <2>3. CASE FlushConflict(g) \/ FlushError(g) \/ CommitGrant(g) \/ Abort(g)
    BY <1>3, <2>3 DEF FlushConflict, FlushError, CommitGrant, Abort, Finish
  <2> QED  BY <2>1, <2>2, <2>3 DEF GrantStep
<1>4. FlushConflict(g) \/ FlushError(g) \/ CommitGrant(g) \/ Abort(g) =>
         pc'[g] \notin {"checked", "selected", "saved", "keyed", "flushed"}
  BY <1>0 DEF FlushConflict, FlushError, CommitGrant, Abort, Finish
<1> QED  BY <1>0, <1>1, <1>2, <1>3, <1>4

LEMMA LocksOfGranting ==
    ASSUME PromotionInvariant, LocksInStep, NEW g \in Grant, GrantCredit(g) \/ GrantConflict(g)
    PROVE  LocksInStep'
<1>0. stage \in [Grant -> Stage] /\ codeLocks \subseteq Grant
  BY DEF PromotionInvariant, PromotionTypeOK
<1>1. GrantStep(g) /\ stage[g] = "granting" /\ stage' = stage
  BY DEF GrantCredit, GrantConflict, GrantStep, redemptionVars
<1>2. /\ \A h \in Grant : h # g => pc'[h] = pc[h]
      /\ \A r \in locks' : \/ r \in Grant /\ pc'[r] \in {"selected", "saved", "keyed", "flushed"}
                           \/ r \in Usage /\ pc'[r] = "reserved"
  BY <1>1, LocksOfCredit
<1>3. \A h \in Grant :
         pc'[h] \in {"checked", "selected", "saved", "keyed", "flushed"} => stage'[h] = "granting"
  BY <1>1, <1>2 DEF LocksInStep
<1>4. /\ codeLocks' \subseteq codeLocks /\ promotionLocks' \subseteq promotionLocks
      /\ candidates' = candidates /\ jobStage' = jobStage
  BY DEF GrantCredit, GrantConflict, redemptionVars, choice, jobVars, LocksOf
<1> QED  BY <1>0, <1>1, <1>2, <1>3, <1>4, FewerLocks

LEMMA LocksOfRedemption ==
    ASSUME PromotionInvariant, LocksInStep, NEW g \in Grant,
           RedemptionStep(g) \/ AbortRedemption(g)
    PROVE  LocksInStep'
<1>1. CASE \/ LockCode(g) \/ LockPromotion(g)
           \/ FindCandidates(g) \/ ChooseCandidate(g) \/ PassOver(g)
  BY <1>1, LocksOfLocking
<1>2. CASE RecordRedemption(g)
  BY <1>2, LocksOfRecording
<1>3. CASE GrantCredit(g) \/ GrantConflict(g)
  BY <1>3, LocksOfGranting
<1>4. ASSUME NEW result, EndSession(g, result), CommitGrant(g) \/ FlushError(g) \/ Abort(g)
      PROVE  LocksInStep'
  <2>1. /\ \A h \in Grant : h # g => pc'[h] = pc[h]
        /\ pc'[g] \notin {"checked", "selected", "saved", "keyed", "flushed"}
        /\ \A r \in locks' : \/ r \in Grant /\ pc'[r] \in {"selected", "saved", "keyed", "flushed"}
                             \/ r \in Usage /\ pc'[r] = "reserved"
    BY <1>4, LocksOfCredit DEF GrantStep
  <2> QED  BY <1>4, <2>1, LocksOfEnded
<1>5. ASSUME NEW result, EndSession(g, result), UNCHANGED creditVars,
             pc[g] \notin {"checked", "selected", "saved", "keyed", "flushed"}
      PROVE  LocksInStep'
  <2>1. /\ \A h \in Grant : pc'[h] = pc[h]
        /\ \A r \in locks' : \/ r \in Grant /\ pc'[r] \in {"selected", "saved", "keyed", "flushed"}
                             \/ r \in Usage /\ pc'[r] = "reserved"
    BY <1>5, LocksOfRequests
  <2> QED  BY <1>5, <2>1, LocksOfEnded
<1>6. CASE CommitRedemption(g)
  BY <1>4, <1>5, <1>6 DEF CommitRedemption
<1>7. CASE GrantError(g)
  BY <1>4, <1>7 DEF GrantError
<1>8. CASE AbortRedemption(g)
  BY <1>4, <1>5, <1>8 DEF AbortRedemption
<1>9. CASE FindNothing(g) \/ ReplayRedemption(g) \/ RejectRedemption(g) \/ SignUpWithout(g)
  <2>1. pc[g] = "start" /\ UNCHANGED creditVars
    BY <1>9 DEF PromotionInvariant, PendingInStep, FindNothing, ReplayRedemption,
       RejectRedemption, SignUpWithout
  <2>2. \E result : EndSession(g, result)
    BY <1>9 DEF FindNothing, ReplayRedemption, RejectRedemption, SignUpWithout
  <2> QED  BY <1>5, <2>1, <2>2
<1> QED  BY <1>1, <1>2, <1>3, <1>6, <1>7, <1>8, <1>9 DEF RedemptionStep

LEMMA LocksOfAnalysis ==
    ASSUME PromotionInvariant, LocksInStep, NEW u \in Usage, Analysis(u) \/ AbortAnalysis(u)
    PROVE  LocksInStep'
<1>0. pc \in [Request -> GrantPC \cup UsagePC \cup WithdrawalPC] /\ u \in Request
      /\ Grant \subseteq Request /\ u \notin Grant /\ codeLocks \subseteq Grant
  BY RequestsAssumption DEF PromotionInvariant, PromotionTypeOK, CreditInvariant, CreditTypeOK,
     Request
<1>1. UNCHANGED redemptionVars /\ (UsageStep(u) \/ Abort(u))
  BY DEF Analysis, AbortAnalysis
<1>2. \A r \in Request : r # u => pc'[r] = pc[r]
  BY <1>0, <1>1 DEF UsageStep, Reserve, RejectUse, FinalizeUsage, Abort, Finish
<1>3. ASSUME NEW r \in locks'
      PROVE  \/ r \in Grant /\ pc'[r] \in {"selected", "saved", "keyed", "flushed"}
             \/ r \in Usage /\ pc'[r] = "reserved"
  <2>1. CASE r # u
    <3>1. r \in locks
      BY <1>1, <2>1 DEF UsageStep, Reserve, RejectUse, FinalizeUsage, Abort, Finish
    <3>2. r \in Request
      BY <3>1 DEF PromotionInvariant, CreditInvariant, CreditTypeOK
    <3> QED  BY <1>2, <2>1, <3>1, <3>2 DEF LocksInStep
  <2>2. CASE r = u
    <3>1. CASE Reserve(u)
      BY <1>0, <2>2, <3>1 DEF Reserve
    <3>2. CASE RejectUse(u)
      BY <1>0, <1>3, <2>2, <3>2 DEF RejectUse, LocksInStep
    <3>3. CASE FinalizeUsage(u) \/ Abort(u)
      BY <1>3, <2>2, <3>3 DEF FinalizeUsage, Abort, Finish
    <3> QED  BY <1>1, <3>1, <3>2, <3>3 DEF UsageStep
  <2> QED  BY <2>1, <2>2
<1>4. /\ stage' = stage /\ codeLocks' = codeLocks /\ promotionLocks' = promotionLocks
      /\ candidates' = candidates /\ jobStage' = jobStage
  BY <1>1 DEF redemptionVars, choice, jobVars
<1>5. \A h \in Grant :
         pc'[h] \in {"checked", "selected", "saved", "keyed", "flushed"} => stage'[h] = "granting"
  BY <1>0, <1>2, <1>4 DEF LocksInStep
<1> QED  BY <1>0, <1>3, <1>4, <1>5, FewerLocks

LEMMA LocksOfJob ==
    ASSUME PromotionInvariant, LocksInStep, NEW j \in Job, JobStep(j) \/ KillJob(j)
    PROVE  LocksInStep'
<1>0. jobStage \in [Job -> JobStage] /\ j \notin Grant /\ SignUp \subseteq Grant
  BY PromotionsAssumption DEF PromotionInvariant, PromotionTypeOK, Request
<1>1. /\ UNCHANGED <<creditVars, stage, codeLocks, candidates>>
      /\ \A k \in Job : k # j => jobStage'[k] = jobStage[k]
  BY <1>0 DEF JobStep, FindMonthly, InsertMonthly, CommitMonthly, KillJob, choice, JobMoves
<1>2. \/ promotionLocks' \subseteq promotionLocks /\ \A l \in promotionLocks' : l[1] # j
      \/ /\ promotionLocks' = promotionLocks \cup {<<j, Monthly>>} /\ jobStage'[j] = "found"
      \/ promotionLocks' = promotionLocks /\ jobStage[j] # "found"
  BY <1>0 DEF JobStep, FindMonthly, InsertMonthly, CommitMonthly, KillJob, JobMoves, LocksOf
<1>3. ASSUME NEW l \in promotionLocks'
      PROVE  \/ l[1] \in Job /\ jobStage'[l[1]] = "found"
             \/ l[1] \in Grant /\ stage'[l[1]] \in {"promotion", "granting"}
             \/ /\ l[1] \in SignUp /\ stage'[l[1]] = "choosing" /\ l[2] \in SignupPromotion
                /\ \A q \in candidates'[l[1]] : Rank[q] < Rank[l[2]]
  <2>1. CASE l[1] = j
    BY <1>0, <1>2, <2>1 DEF LocksInStep
  <2>2. CASE l[1] # j
    <3>1. l \in promotionLocks
      BY <1>2, <2>2
    <3> QED  BY <1>1, <2>2, <3>1 DEF LocksInStep
  <2> QED  BY <2>1, <2>2
<1> QED  BY <1>1, <1>3 DEF LocksInStep, HasCode, creditVars

LEMMA LocksStayInStep ==
    ASSUME PromotionInvariant, LocksInStep, [PromotionNext]_promotionVars
    PROVE  LocksInStep'
<1>1. CASE PromotionNext
  BY <1>1, LocksOfRedemption, LocksOfAnalysis, LocksOfJob DEF PromotionNext
<1>2. CASE UNCHANGED promotionVars
  BY <1>2 DEF promotionVars, redemptionVars, choice, jobVars, creditVars, LocksInStep, HasCode
<1> QED  BY <1>1, <1>2

-----------------------------------------------------------------------------
(* Nobody is stuck *)

LEMMA InitLocks == PromotionInit => LocksInStep
BY RequestsAssumption DEF PromotionInit, CreditInit, NothingRedeemed, LocksInStep, Request

\* How far x has come in the order in which locks are taken: the code, the
\* promotion and the credit row.  For the key of its entry a redemption waits
\* for no one: those with the same key have the same promotion.
Layer(x) ==
    IF x \in Job THEN IF jobStage[x] \in {"found", "inserted"} THEN 5 ELSE 1
    ELSE IF x \in Usage THEN IF pc[x] = "reserved" THEN 5 ELSE 3
    ELSE IF stage[x] = "start" /\ HasCode(x) THEN 0
    ELSE IF stage[x] \in {"start", "code"} THEN 1
    ELSE IF stage[x] = "choosing" THEN 2
    ELSE IF stage[x] = "promotion" THEN 3
    ELSE IF x \in locks THEN 5 ELSE 4

\* Sign-ups that choose take promotions from the latest one down.
ChoosesBefore(x, y) ==
    /\ {x, y} \subseteq SignUp /\ stage[x] = "choosing" /\ stage[y] = "choosing"
    /\ \E p \in SignupPromotion :
          IsFirst(p, x) /\ \A q \in candidates[y] : Rank[q] < Rank[p]

LEMMA LayerType == \A x : Layer(x) \in 0..5
BY DEF Layer

LEMMA WaitsForPromotion ==
    ASSUME PromotionInvariant, LocksInStep, NEW x \in Open, NEW y,
           NEW p \in WantedPromotions(x), <<y, p>> \in promotionLocks
    PROVE  y \in Open /\ (Layer(x) < Layer(y) \/ ChoosesBefore(x, y))
<1>0. /\ Grant \cap Usage = {} /\ Job \cap (Grant \cup Usage) = {} /\ SignUp \subseteq Grant
      /\ Monthly \notin SignupPromotion
  BY RequestsAssumption, PromotionsAssumption DEF Request
<1>1. \/ Layer(x) = 1
      \/ x \in SignUp /\ stage[x] = "choosing" /\ IsFirst(p, x) /\ Layer(x) = 2
  BY <1>0 DEF WantedPromotions, Layer
<1>2. CASE y \in Job /\ jobStage[y] = "found"
  BY <1>1, <1>2 DEF Open, Layer
<1>3. CASE y \in Grant /\ stage[y] \in {"promotion", "granting"}
  <2>1. Layer(y) \in {3, 4, 5}
    BY <1>0, <1>3 DEF Layer
  <2> QED  BY <1>1, <1>3, <2>1 DEF Open
<1>4. CASE /\ y \in SignUp /\ stage[y] = "choosing" /\ p \in SignupPromotion
           /\ \A q \in candidates[y] : Rank[q] < Rank[p]
  <2>1. y \in Open /\ Layer(y) = 2
    BY <1>0, <1>4 DEF Open, Layer
  <2> QED  BY <1>1, <1>4, <2>1 DEF ChoosesBefore
<1>5. \/ y \in Job /\ jobStage[y] = "found"
      \/ y \in Grant /\ stage[y] \in {"promotion", "granting"}
      \/ /\ y \in SignUp /\ stage[y] = "choosing" /\ p \in SignupPromotion
         /\ \A q \in candidates[y] : Rank[q] < Rank[p]
  <2> DEFINE l == <<y, p>>
  <2>1. l[1] = y /\ l[2] = p /\ l \in promotionLocks
    OBVIOUS
  <2> HIDE DEF l
  <2> QED  BY <2>1 DEF LocksInStep
<1> QED  BY <1>2, <1>3, <1>4, <1>5

\* Who waits does so for someone who has come further, or for a sign-up that
\* wants an earlier promotion.
LEMMA WaitsGoUp ==
    ASSUME PromotionInvariant, LocksInStep, NEW x \in Open,
           NEW y \in Grant \cup Usage \cup Job, WaitsFor(x, y)
    PROVE  y \in Open /\ (Layer(x) < Layer(y) \/ ChoosesBefore(x, y))
<1>0. /\ Grant \cap Usage = {} /\ Job \cap (Grant \cup Usage) = {}
      /\ codeLocks \subseteq Grant /\ LockExclusion
      /\ x \notin Withdrawal
  BY RequestsAssumption, PromotionsAssumption DEF PromotionInvariant, PromotionTypeOK,
     CreditInvariant, Request, Open
<1>1. CASE /\ x \in Grant /\ stage[x] = "start" /\ HasCode(x)
           /\ y \in codeLocks /\ CodeOf[y] = CodeOf[x]
  <2>1. y \in Grant /\ stage[y] \in {"code", "promotion", "granting"}
    BY <1>0, <1>1 DEF LocksInStep
  <2>2. Layer(x) = 0 /\ Layer(y) \in 1..5
    BY <1>0, <1>1, <2>1 DEF Layer
  <2> QED  BY <2>1, <2>2 DEF Open
<1>2. CASE \E p \in WantedPromotions(x) : <<y, p>> \in promotionLocks
  BY <1>2, WaitsForPromotion
<1>3. CASE /\ WantsRow(x) \/ (x \in Grant /\ pc[x] = "keyed")
           /\ y \in locks /\ Mine(y) = Mine(x)
  <2>1. x \notin locks
    BY <1>0, <1>3 DEF LockExclusion, WaitsFor
  <2>2. Layer(x) \in {3, 4}
    <3>1. CASE x \in Usage
      BY <1>0, <1>3, <3>1 DEF WantsRow, Layer
    <3>2. CASE x \in Grant /\ stage[x] = "granting"
      BY <1>0, <1>3, <2>1, <3>2 DEF WantsRow, Layer
    <3> QED  BY <1>0, <1>3, <3>1, <3>2 DEF WantsRow, LocksInStep
  <2>3. CASE y \in Grant /\ pc[y] \in {"selected", "saved", "keyed", "flushed"}
    <3>1. stage[y] = "granting"
      BY <2>3 DEF LocksInStep
    <3>2. y \in Open /\ Layer(y) = 5
      BY <1>0, <1>3, <2>3, <3>1 DEF Open, Layer
    <3> QED  BY <2>2, <3>2
  <2>4. CASE y \in Usage /\ pc[y] = "reserved"
    <3>1. y \in Open /\ Layer(y) = 5
      BY <1>0, <2>4 DEF Open, Layer, Final
    <3> QED  BY <2>2, <3>1
  <2> QED  BY <1>3, <2>3, <2>4 DEF LocksInStep
<1>4. ASSUME {x, y} \subseteq Grant, KeyOf[x] = KeyOf[y], pc[x] = "saved", HasKey(y)
      PROVE  FALSE
  <2>1. x \in pending /\ y \in pending
    BY <1>4 DEF HasKey, LocksInStep, PromotionInvariant, PendingInStep
  <2>2. <<x, Redeems(x)>> \in promotionLocks /\ <<y, Redeems(y)>> \in promotionLocks
    BY <1>4, <2>1 DEF Holding, PromotionInvariant, HoldersAreCurrent
  <2>3. Redeems(x) = Redeems(y) /\ x # y
    BY <1>4, KeyLeadsToPromotion DEF WaitsFor
  <2>4. <<x, Redeems(x)>> = <<y, Redeems(y)>>
    <3>1. \A k, l \in promotionLocks : k[2] = l[2] => k = l
      BY DEF PromotionInvariant, PromotionLocksExclude
    <3> QED  BY <2>2, <2>3, <3>1
  <2> QED  BY <2>3, <2>4
<1>5. CASE {x, y} \subseteq Job /\ jobStage[x] = "missing" /\ jobStage[y] = "inserted"
  BY <1>5 DEF Open, Layer
<1>6. y \notin Withdrawal
  BY RequestsAssumption, PromotionsAssumption DEF Request
<1>7. BlockedBy(x, y) =>
         \/ /\ WantsRow(x) \/ (x \in Grant /\ pc[x] = "keyed")
            /\ y \in locks /\ Mine(y) = Mine(x)
         \/ {x, y} \subseteq Grant /\ KeyOf[x] = KeyOf[y] /\ pc[x] = "saved" /\ HasKey(y)
  <2>1. inserting \subseteq Grant
    BY DEF PromotionInvariant, CreditInvariant, CreditTypeOK
  <2> QED  BY <1>0, <1>6, <2>1 DEF BlockedBy, WroteRowOf
<1> QED  BY <1>1, <1>2, <1>3, <1>4, <1>5, <1>7 DEF WaitsFor

\* Of a group in which everybody waits for another one, look at those that have
\* come furthest and, of the sign-ups among them, at the one that wants the
\* earliest promotion: the one that it waits for is not in the group.
LEMMA NobodyWaitsInVain ==
    ASSUME PromotionInvariant, LocksInStep
    PROVE  NobodyIsStuck
<1> SUFFICES ASSUME NEW S \in SUBSET Open, S # {},
                    \A x \in S : \E y \in Grant \cup Usage \cup Job :
                       WaitsFor(x, y) /\ y \notin Open \ S
             PROVE  FALSE
  BY DEF NobodyIsStuck
<1>1. \A x \in S : \E y \in S : Layer(x) < Layer(y) \/ ChoosesBefore(x, y)
  BY WaitsGoUp
<1>2. PICK top \in S : \A x \in S : Layer(x) <= Layer(top)
  <2> DEFINE T == {5 - Layer(x) : x \in S}
  <2>1. T \subseteq Nat /\ T # {}
    BY LayerType
  <2>2. PICK m \in T : \A n \in T : m <= n
    <3> HIDE DEF T
    <3> QED  BY <2>1, LeastExists
  <2>3. PICK x \in S : m = 5 - Layer(x)
    OBVIOUS
  <2>4. ASSUME NEW z \in S PROVE Layer(z) <= Layer(x)
    <3>1. m <= 5 - Layer(z)
      BY <2>2
    <3> QED  BY <2>3, <3>1, LayerType
  <2> QED  BY <2>4
<1> DEFINE Top == {x \in S : Layer(x) = Layer(top)}
<1>3. ASSUME NEW x \in Top PROVE \E y \in Top : ChoosesBefore(x, y)
  <2>1. PICK y \in S : Layer(x) < Layer(y) \/ ChoosesBefore(x, y)
    BY <1>1
  <2>2. Layer(x) = Layer(top) /\ Layer(y) <= Layer(top)
    BY <1>2
  <2>3. ChoosesBefore(x, y)
    BY <2>1, <2>2, LayerType
  <2>4. Layer(y) = Layer(x)
    BY <2>3, RequestsAssumption, PromotionsAssumption DEF ChoosesBefore, Layer, Request
  <2> QED  BY <2>2, <2>3, <2>4
<1> DEFINE Wanted == {p \in SignupPromotion : \E x \in Top : x \in SignUp /\ IsFirst(p, x)}
           Ranks == {Rank[p] : p \in Wanted}
<1>4. \A x \in Top : \E p \in Wanted : IsFirst(p, x)
  BY <1>3 DEF ChoosesBefore
<1>5. Ranks \subseteq Nat /\ Ranks # {}
  <2>1. \A p \in Wanted : Rank[p] \in Nat
    BY PromotionsAssumption
  <2>2. \E p \in Wanted : TRUE
    BY <1>4
  <2> QED  BY <2>1, <2>2
<1>6. PICK m \in Ranks : \A n \in Ranks : m <= n
  <2> HIDE DEF Ranks
  <2> QED  BY <1>5, LeastExists
<1>7. PICK p \in Wanted : m = Rank[p]
  OBVIOUS
<1>8. PICK x \in Top : x \in SignUp /\ IsFirst(p, x)
  OBVIOUS
<1>9. PICK y \in Top : ChoosesBefore(x, y)
  BY <1>3
<1>10. PICK q \in Wanted : IsFirst(q, y)
  BY <1>4
<1>11. PICK r \in SignupPromotion : IsFirst(r, x) /\ Rank[q] < Rank[r]
  BY <1>9, <1>10 DEF ChoosesBefore, IsFirst
<1>12. Rank[r] <= Rank[p]
  BY <1>8, <1>11 DEF IsFirst
<1>13. Rank[p] <= Rank[q]
  BY <1>6, <1>7, <1>10
<1> QED  BY <1>11, <1>12, <1>13, PromotionsAssumption

-----------------------------------------------------------------------------
(* What holds of every instance *)

\* The strengthening is an invariant: what a redemption has read and checked
\* under the locks of its code and its promotion is still so when it
\* commits (redemption_executor.py:61-133, repository.py:57-82).
THEOREM PromotionInvariantHolds == PromotionSpec => []PromotionInvariant
<1>1. PromotionInit => PromotionInvariant
  BY InitPromotions
<1>2. PromotionInvariant /\ [PromotionNext]_promotionVars => PromotionInvariant'
  BY NextPromotions
<1> QED  BY <1>1, <1>2, PTL DEF PromotionSpec

\* Every variable of the composition has its type.
THEOREM PromotionTypeCorrect == PromotionSpec => []PromotionTypeOK
<1>1. PromotionInvariant => PromotionTypeOK
  BY DEF PromotionInvariant
<1> QED  BY <1>1, PromotionInvariantHolds, PTL

\* The rows of promotion_redemptions never exceed a limit of the promotion,
\* of the code or of a user, and an identity has a sign-up promotion once,
\* however many redemptions and sign-ups overlap (redemption_executor.py:
\* 96-120, repository.py:57-82).
THEOREM PromotionLimitsKept == PromotionSpec => []LimitsKept
<1>1. PromotionInvariant => LimitsKept
  BY DEF PromotionInvariant, RowsAreRight
<1> QED  BY <1>1, PromotionInvariantHolds, PTL

\* times_redeemed of promotions and codes counts the rows (repository.py:
\* 218-239).
THEOREM PromotionCountersMatch == PromotionSpec => []CountersMatchRedemptions
<1>1. PromotionInvariant => CountersMatchRedemptions
  BY DEF PromotionInvariant, RowsAreRight
<1> QED  BY <1>1, PromotionInvariantHolds, PTL

\* A redemption is committed with its credit or not at all, whatever the
\* grant runs into (redemption_executor.py:121-133, credits/dependencies.py:
\* 63-69).
THEOREM RedemptionsAreCredited == PromotionSpec => []RedeemedIffCredited
<1>1. PromotionInvariant => RedeemedIffCredited
  BY DEF PromotionInvariant, RowsAreRight
<1> QED  BY <1>1, PromotionInvariantHolds, PTL

\* A key is redeemed once and a replay is answered as one only when there is
\* a redemption (redemption_executor.py:61-90).
THEOREM KeysRedeemedOnce == PromotionSpec => []RedeemedOncePerKey
<1>1. PromotionInvariant => RedeemedOncePerKey
  BY DEF PromotionInvariant, RowsAreRight
<1> QED  BY <1>1, PromotionInvariantHolds, PTL

\* Who holds the row of a code, of a promotion or of a user's credits has come
\* to the statement that takes it and will let go of it at the end of its
\* transaction, and a sign-up holds only promotions later than those that it
\* still wants (create_promotion_code_redemption use_case.py:54-61,
\* repository.py:57-82).
THEOREM LocksInStepAlways == PromotionSpec => []LocksInStep
<1>1. PromotionInit => LocksInStep
  BY InitLocks
<1>2. PromotionInvariant /\ LocksInStep /\ [PromotionNext]_promotionVars => LocksInStep'
  BY LocksStayInStep
<1> QED  BY <1>1, <1>2, PromotionInvariantHolds, PTL DEF PromotionSpec

\* However many redemptions, sign-ups, analyses and jobs overlap, no group of
\* them waits in a circle: the code is locked before the promotion, the
\* promotion before the credit row and promotions from the latest one down
\* (create_promotion_code_redemption use_case.py:54-61, grant use_case.py:35,
\* the ORDER BY of repository.py:57-82).
THEOREM NoRedemptionIsStuck == PromotionSpec => []NobodyIsStuck
<1>1. PromotionInvariant /\ LocksInStep => NobodyIsStuck
  BY NobodyWaitsInVain
<1> QED  BY <1>1, PromotionInvariantHolds, LocksInStepAlways, PTL

\* Under redemptions, sign-ups and jobs the credits still behave as Credits
\* specifies: the composition implements it.
THEOREM PromotionsRefineCredits == PromotionSpec => CreditSpec
<1>1. PromotionInit => CreditInit
  BY DEF PromotionInit
<1>2. [PromotionNext]_promotionVars => [CreditNext]_creditVars
  BY CreditsFollow
<1> QED  BY <1>1, <1>2, PTL DEF PromotionSpec, CreditSpec

=============================================================================
