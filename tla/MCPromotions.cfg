SPECIFICATION MCSpec
CONSTANTS
    g1 = g1  g2 = g2  g3 = g3  g4 = g4
    h1 = h1  h2 = h2  h3 = h3  h4 = h4  a1 = a1
    s1 = s1  s2 = s2  s3 = s3  m1 = m1  x1 = x1  j1 = j1  j2 = j2
    k1 = k1  k2 = k2  k3 = k3  k5 = k5  k6 = k6  k7 = k7  k8 = k8
    u1 = u1  u2 = u2  u3 = u3  u4 = u4  u5 = u5
    p1 = p1  p2 = p2  p3 = p3  pm = pm  q1 = q1  q2 = q2
    c1 = c1  c3 = c3  NoCode = NoCode  b1 = b1  NoPromotion = NoPromotion
    User = {u1, u2, u3, u4, u5, s1, s2, s3}
    Grant = {g1, g2, g3, g4, h1, h2, h3, h4, s1, s2, s3, m1, x1}
    Usage = {a1}
    Withdrawal = {}
    Key = {k1, k2, k3, k5, k6, k7, k8, s1, s2, s3, m1, x1}
    FirstOwners = {u2, u4, u5}
    FirstCount = 1
    Promotion = {p1, p2, p3, pm, q1, q2}
    SignupPromotion = {q1, q2}
    SignUp = {s1, s2, s3}
    Job = {j1, j2}
    Monthly = pm
    Code = {c1, c3}
    UserOf <- MCUserOf
    AmountOf <- MCAmountOf
    KeyOf <- MCKeyOf
    PromotionOf <- MCPromotionOf
    CodeOf <- MCCodeOf
    MaxRedemptions <- MCMaxRedemptions
    MaxCodeRedemptions <- MCMaxCodeRedemptions
    MaxPerUser <- MCMaxPerUser
    Rank <- MCRank
    BeneficiaryOf <- MCBeneficiaryOf
CHECK_DEADLOCK FALSE
INVARIANTS RedeemedOncePerKey RedeemedIffCredited LimitsKept CountersMatchRedemptions
           NobodyIsStuck
PROPERTIES RedemptionsAndJobsEnd
