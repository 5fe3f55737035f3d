SPECIFICATION MCSpec
CONSTANTS
    s1 = s1  s2 = s2  s4 = s4  l1 = l1  l2 = l2  l3 = l3
    r1 = r1  r2 = r2  r3 = r3  o1 = o1  w1 = w1  w2 = w2
    i1 = i1  i2 = i2  mail = mail  google = google  apple = apple
    SignUp = {s1, s2, s4}
    Login = {l1, l2, l3}
    Refresh = {r1, r2, r3}
    Logout = {o1}
    Withdrawal = {w1, w2}
    Registered = {s1}
    Identity = {i1, i2}
    Email = {mail}
    NoEmail = NoEmail
    Verified = {i1, i2}
    Nobody = Nobody
    IdentityOf <- MCIdentityOf
    EmailOf <- MCEmailOf
    IssuerOf <- MCIssuerOf
    AccountOf <- MCAccountOf
CHECK_DEADLOCK FALSE
INVARIANTS TokenExchangedOnce WithdrawalErasesAccount IdentityHasOneAccount LoginsDoNotCollide
PROPERTIES LogoutEndsSession EveryRequestAnswered
