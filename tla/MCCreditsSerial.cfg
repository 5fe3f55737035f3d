SPECIFICATION CreditSpec
CONSTANTS
    g1 = g1  g2 = g2  g3 = g3  a1 = a1  a2 = a2  w1 = w1
    k1 = k1  k2 = k2  u1 = u1
    User = {u1}
    Grant = {g1, g2, g3}
    Usage = {a1, a2}
    Withdrawal = {}
    Key = {k1, k2}
    FirstOwners = {u1}
    FirstCount = 1
    UserOf <- MCSameUser
    AmountOf <- MCAmountOf
    KeyOf <- MCKeyOf
CHECK_DEADLOCK FALSE
INVARIANTS BalanceMatchesLedger
PROPERTIES IsSerialAccount ReplayIsCredited
