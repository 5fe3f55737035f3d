---------------------------- MODULE MCPromotions -----------------------------
(***************************************************************************)
(* Instances of Promotions for TLC, in one of four scenarios.              *)
(*                                                                         *)
(* Races: g1 and its repetition g4 redeem code c1 of promotion p1 for u1,  *)
(* who may redeem it twice, g2 redeems c1 for u2, g3 redeems promotion p2  *)
(* directly for u1, who has no credit row; the analysis a1 is u1's.        *)
(*                                                                         *)
(* Limits: everything is of promotion p3.  h1 and h2 use its code c3, h3   *)
(* and h4 redeem directly; h1 and h3 are u3's, h2 is u4's and h4 is u5's,  *)
(* so that each of the limits 2 (promotion), 1 (code) and 1 (user) binds.  *)
(*                                                                         *)
(* Newcomers: sign-ups s1 to s3, of which s1 and s3 are one identity that  *)
(* comes back; promotion q2 comes before q1 and has room for one, q1 for   *)
(* two, or there is none.                                                  *)
(*                                                                         *)
(* Month: jobs j1 and j2, and a redemption m1 of the promotion pm of the   *)
(* month, which may have to be made first; q1 may not be redeemed          *)
(* directly, as x1 tries.                                                  *)
(***************************************************************************)
EXTENDS Promotions, TLC

CONSTANTS g1, g2, g3, g4, h1, h2, h3, h4, a1, s1, s2, s3, m1, x1, j1, j2,
          k1, k2, k3, k5, k6, k7, k8, u1, u2, u3, u4, u5, p1, p2, p3, pm, q1, q2,
          c1, c3, b1

Races == {g1, g2, g3, g4}
Limits == {h1, h2, h3, h4}
Newcomers == {s1, s2, s3}
Month == {m1, x1}

MCUserOf ==
    [r \in Request |-> CASE r = g2 -> u2 [] r \in {h1, h3} -> u3
                         [] r = h2 -> u4 [] r \in {h4, x1} -> u5
                         [] r \in Newcomers -> r [] OTHER -> u1]
MCKeyOf ==
    [g \in Grant |-> CASE g = g2 -> k2 [] g = g3 -> k3 [] g = h1 -> k5 [] g = h2 -> k6
                       [] g = h3 -> k7 [] g = h4 -> k8
                       [] g \in Newcomers \cup Month -> g [] OTHER -> k1]
MCAmountOf == [r \in Request |-> IF r = g3 THEN 2 ELSE 1]
MCPromotionOf ==
    [g \in Grant \ Newcomers |->
        CASE g \in Limits -> p3 [] g = g3 -> p2 [] g = m1 -> pm [] g = x1 -> q1
          [] OTHER -> p1]
MCRank == [p \in {q1, q2} |-> IF p = q2 THEN 2 ELSE 1]
MCBeneficiaryOf == [s \in SignUp |-> IF s \in {s1, s3} THEN b1 ELSE s]
MCCodeOf ==
    [g \in Grant |-> CASE g \in {g1, g2, g4} -> c1 [] g \in {h1, h2} -> c3 [] OTHER -> NoCode]
MCMaxRedemptions == [p \in Promotion |-> IF p = q2 THEN 1 ELSE 2]
MCMaxCodeRedemptions == [c \in Code |-> IF c = c1 THEN 2 ELSE 1]
MCMaxPerUser == [p \in Promotion |-> IF p = p3 THEN 1 ELSE 2]

\* The requests of the other scenarios are over from the start.
MCInit ==
    /\ CreditInit
    /\ NothingRedeemed
    /\ \E R \in {Races, Limits, Newcomers, Month} :
          /\ stage = [g \in Grant |-> IF g \in R THEN "start" ELSE "done"]
          /\ made \in CASE R = Month -> {Promotion, Promotion \ {Monthly}}
                        [] R = Newcomers -> {Promotion, Promotion \ SignupPromotion}
                        [] OTHER -> {Promotion}
          /\ jobStage = [j \in Job |-> IF R = Month THEN "start" ELSE "done"]

MCSpec == MCInit /\ [][PromotionNext]_promotionVars /\ PromotionFairness

=============================================================================
