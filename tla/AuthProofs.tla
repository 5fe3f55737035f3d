------------------------------ MODULE AuthProofs -----------------------------
(***************************************************************************)
(* Safety of Auth for every set of sign-ups, logins, refreshes, logouts    *)
(* and withdrawals, identities and addresses: the inductive invariant      *)
(* AuthInvariant and the properties that follow from it.                   *)
(***************************************************************************)
EXTENDS Auth, FiniteSetTheorems, TLAPS

-----------------------------------------------------------------------------
(* Kinds of requests *)

LEMMA Kinds ==
    /\ \A s \in SignUp : /\ s \in Request /\ s \in Opener /\ s \in Issuer
                         /\ s \notin Login /\ s \notin Remover /\ s \notin Refresh
                         /\ s \notin Logout /\ s \notin Withdrawal
    /\ \A l \in Login : /\ l \in Request /\ l \in Opener /\ l \in Issuer
                        /\ l \notin SignUp /\ l \notin Remover /\ l \notin Refresh
                        /\ l \notin Logout /\ l \notin Withdrawal
    /\ \A r \in Refresh : /\ r \in Request /\ r \in Issuer /\ r \in Remover
                          /\ r \notin SignUp /\ r \notin Login /\ r \notin Opener
                          /\ r \notin Logout /\ r \notin Withdrawal
    /\ \A o \in Logout : /\ o \in Request /\ o \in Remover
                         /\ o \notin SignUp /\ o \notin Login /\ o \notin Opener
                         /\ o \notin Refresh /\ o \notin Issuer /\ o \notin Withdrawal
    /\ \A w \in Withdrawal : /\ w \in Request /\ w \in Remover
                             /\ w \notin SignUp /\ w \notin Login /\ w \notin Opener
                             /\ w \notin Refresh /\ w \notin Issuer /\ w \notin Logout
BY KindsAssumption DEF Request, Issuer, Opener, Remover

LEMMA RowsAreRequests ==
    /\ \A r \in Request : r \in SignUp \/ r \in Login \/ r \in Refresh \/ r \in Logout
                          \/ r \in Withdrawal
    /\ Opener \subseteq Issuer /\ Issuer \subseteq Request
    /\ \A r \in Opener : r \notin Refresh /\ (r \in SignUp \/ r \in Login)
    /\ Nobody \notin Request
BY KindsAssumption DEF Request, Issuer, Opener, Remover

-----------------------------------------------------------------------------
(* What a step of one request leaves alone *)

\* The step is q's: nothing that another request remembers changes, and q is
\* not over.
OnlyMoves(q) ==
    /\ pc[q] \notin Final
    /\ \A r \in Request : r # q => pc'[r] = pc[r]
    /\ \A l \in Login :
          l # q => account'[l] = account[l] /\ (l \in attaching' <=> l \in attaching)
    /\ \A r \in Refresh \cup Logout :
          r # q => presented'[r] = presented[r] /\ session'[r] = session[r]
    /\ \A r \in Remover : r # q => taken'[r] = taken[r]
    /\ \A w \in Withdrawal : w # q => dropped'[w] = dropped[w]

\* No row is committed.
RowsStay == UNCHANGED <<credentials, links, sessions, revoked, tokens>>

LEMMA OthersHoldTheSame ==
    ASSUME NEW q \in Request, OnlyMoves(q), NEW r \in Request, r # q
    PROVE  /\ HeldTokens(r)' = HeldTokens(r)
           /\ HeldSessions(r)' = HeldSessions(r)
           /\ HeldCredentials(r)' = HeldCredentials(r)
           /\ HoldsIdentityLock(r)' = HoldsIdentityLock(r)
<1>1. pc'[r] = pc[r]
  BY DEF OnlyMoves
<1>2. HeldTokens(r)' = HeldTokens(r)
  BY <1>1 DEF OnlyMoves, HeldTokens
<1>3. HeldSessions(r)' = HeldSessions(r)
  BY <1>1 DEF OnlyMoves, HeldSessions
<1>4. HeldCredentials(r)' = HeldCredentials(r)
  BY <1>1 DEF OnlyMoves, HeldCredentials
<1> QED  BY <1>1, <1>2, <1>3, <1>4 DEF HoldsIdentityLock

\* A request that is over stays what it was: so do the session of a token
\* and the owner of a session.
LEMMA DoneStays ==
    ASSUME NEW q \in Request, OnlyMoves(q), NEW t \in Request, pc[t] = "done"
    PROVE  t # q /\ pc'[t] = "done" /\ SessionOf(t)' = SessionOf(t) /\ OwnerOf(t)' = OwnerOf(t)
<1>1. t # q
  BY DEF OnlyMoves, Final
<1> QED  BY <1>1 DEF OnlyMoves, SessionOf, OwnerOf

LEMMA SameSessions ==
    ASSUME NEW q \in Request, OnlyMoves(q), ForeignKeysHold, TypeOK
    PROVE  /\ \A t \in tokens : SessionOf(t)' = SessionOf(t) /\ t # q
           /\ \A s \in sessions : OwnerOf(s)' = OwnerOf(s) /\ s # q
           /\ \A c \in credentials : c # q
           /\ \A c \in credentials \cup sessions \cup tokens : pc'[c] = "done"
<1>1. \A t \in tokens \cup sessions \cup credentials : t \in Request /\ pc[t] = "done"
  BY RowsAreRequests, Kinds DEF ForeignKeysHold, TypeOK
<1> QED  BY <1>1, DoneStays

-----------------------------------------------------------------------------
(* Steps that commit no row *)

LEMMA SameRows ==
    ASSUME TypeOK, ForeignKeysHold, NEW q \in Request, OnlyMoves(q), RowsStay
    PROVE  /\ \A c : SessionsOf(c)' = SessionsOf(c)
           /\ \A S : TokensIn(S)' = TokensIn(S)
<1>1. /\ \A t \in tokens : SessionOf(t)' = SessionOf(t)
      /\ \A s \in sessions : OwnerOf(s)' = OwnerOf(s)
  BY SameSessions
<1>2. sessions' = sessions /\ tokens' = tokens
  BY DEF RowsStay
<1> QED  BY <1>1, <1>2 DEF SessionsOf, TokensIn

LEMMA RowsStayRight ==
    ASSUME AuthInvariant, NEW q \in Request, OnlyMoves(q), RowsStay,
           \/ pc'[q] # "done"
           \/ q \in Withdrawal /\ AccountOf[q] \notin credentials
    PROVE  /\ ForeignKeysHold' /\ OneTokenPerSession' /\ IdentityHasOneAccount'
           /\ TokenExchangedOnce' /\ LoggedOutForGood' /\ WithdrawalErasesAccount'
<1> USE DEF RowsStay
<1>0. TypeOK /\ ForeignKeysHold /\ MemoryIsOfRows
  BY DEF AuthInvariant
<1>1. /\ \A t \in tokens : SessionOf(t)' = SessionOf(t) /\ t # q
      /\ \A s \in sessions : OwnerOf(s)' = OwnerOf(s) /\ s # q
      /\ \A c \in credentials : c # q
      /\ \A c \in credentials \cup sessions \cup tokens : pc'[c] = "done"
  BY <1>0, SameSessions
<1>2. ForeignKeysHold'
  BY <1>0, <1>1 DEF ForeignKeysHold
<1>3. OneTokenPerSession'
  BY <1>1 DEF AuthInvariant, OneTokenPerSession
<1>4. IdentityHasOneAccount'
  BY DEF AuthInvariant, IdentityHasOneAccount
<1>5. TokenExchangedOnce'
  <2>1. \A r \in Refresh : pc'[r] = "done" => pc[r] = "done" /\ presented'[r] = presented[r]
    BY Kinds DEF OnlyMoves
  <2>2. \A S : TokensIn(S)' = TokensIn(S)
    BY <1>0, SameRows
  <2> QED  BY <2>1, <2>2 DEF AuthInvariant, TokenExchangedOnce
<1>6. LoggedOutForGood'
  <2>1. \A o \in Logout : pc'[o] = "done" => pc[o] = "done" /\ session'[o] = session[o]
    BY Kinds DEF OnlyMoves
  <2> QED  BY <2>1 DEF AuthInvariant, LoggedOutForGood
<1>7. WithdrawalErasesAccount'
  <2> SUFFICES ASSUME NEW w \in Withdrawal, pc'[w] = "done"
               PROVE  /\ AccountOf[w] \notin credentials
                      /\ \A k \in links : k[2] # AccountOf[w]
                      /\ \A s \in sessions : OwnerOf(s)' # AccountOf[w]
                      /\ \A t \in tokens : OwnerOf(SessionOf(t))' # AccountOf[w]
    BY <1>1 DEF WithdrawalErasesAccount
  <2>1. AccountOf[w] \notin credentials
    BY Kinds DEF OnlyMoves, AuthInvariant, WithdrawalErasesAccount
  <2> QED  BY <1>0, <1>2, <2>1 DEF ForeignKeysHold
<1> QED  BY <1>2, <1>3, <1>4, <1>5, <1>6, <1>7

\* What is remembered and locked stays as it was but for q.
LEMMA MemoryStaysRight ==
    ASSUME AuthInvariant, NEW q \in Request, OnlyMoves(q), TypeOK', StepsOfKind',
           q \in Refresh /\ pc'[q] \in {"taken", "validated", "done"} =>
              /\ presented'[q] \in Issuer /\ session'[q] \in Opener
              /\ session'[q] = SessionOf(presented'[q])
              /\ pc[presented'[q]] = "done" /\ pc[session'[q]] = "done",
           q \in Logout /\ pc'[q] \in {"located", "revoking", "selected", "purged", "done"} =>
              session'[q] \in Opener /\ pc[session'[q]] = "done",
           q \in Withdrawal /\ pc'[q] \notin {"start", "rejected", "failed", "ignored", "conflict"} =>
              pc[AccountOf[q]] = "done",
           q \in Withdrawal =>
              \A s \in dropped'[q] : pc[s] = "done" /\ OwnerOf(s) = AccountOf[q],
           q \in attaching' => pc'[q] \in {"found", "flushed"} \cup Final
    PROVE  MemoryIsOfRows'
<1>0. TypeOK /\ StepsOfKind /\ MemoryIsOfRows
  BY DEF AuthInvariant
<1>1. ASSUME NEW r \in Refresh, pc'[r] \in {"taken", "validated", "done"}
      PROVE  /\ presented'[r] \in Issuer /\ session'[r] \in Opener
             /\ (session[r] = SessionOf(presented[r]))'
             /\ pc'[presented'[r]] = "done" /\ pc'[session'[r]] = "done"
  <2>1. CASE r = q
    <3>1. /\ presented'[q] \in Request /\ session'[q] \in Request
          /\ pc[presented'[q]] = "done" /\ pc[session'[q]] = "done"
      BY <1>1, <2>1, RowsAreRequests
    <3> QED  BY <1>1, <2>1, <3>1, DoneStays
  <2>2. CASE r # q
    <3>1. /\ pc'[r] = pc[r] /\ presented'[r] = presented[r] /\ session'[r] = session[r]
          /\ presented[r] \in Issuer /\ session[r] \in Opener
          /\ session[r] = SessionOf(presented[r])
          /\ pc[presented[r]] = "done" /\ pc[session[r]] = "done"
      BY <1>0, <1>1, <2>2, Kinds DEF OnlyMoves, MemoryIsOfRows
    <3> QED  BY <3>1, DoneStays, RowsAreRequests
  <2> QED  BY <2>1, <2>2
<1>2. ASSUME NEW o \in Logout,
             pc'[o] \notin {"start", "ignored", "failed", "rejected", "conflict"}
      PROVE  session'[o] \in Opener /\ pc'[session'[o]] = "done"
  <2>1. session'[o] \in Opener /\ pc[session'[o]] = "done"
    <3>1. CASE o = q
      BY <1>2, <3>1, Kinds DEF StepsOfKind, LogoutPC, Final
    <3>2. CASE o # q
      BY <1>0, <1>2, <3>2, Kinds DEF OnlyMoves, MemoryIsOfRows
    <3> QED  BY <3>1, <3>2
  <2> QED  BY <2>1, DoneStays, RowsAreRequests
<1>3. ASSUME NEW w \in Withdrawal,
             pc'[w] \notin {"start", "rejected", "failed", "ignored", "conflict"}
      PROVE  pc'[AccountOf[w]] = "done"
  <2>1. pc[AccountOf[w]] = "done"
    BY <1>0, <1>3, Kinds DEF OnlyMoves, MemoryIsOfRows
  <2>2. AccountOf[w] \in Request
    BY Kinds, IdentitiesAssumption
  <2> QED  BY <2>1, <2>2, DoneStays
<1>4. ASSUME NEW w \in Withdrawal, NEW s \in dropped'[w]
      PROVE  pc'[s] = "done" /\ OwnerOf(s)' = AccountOf[w]
  <2>1. pc[s] = "done" /\ OwnerOf(s) = AccountOf[w]
    BY <1>0, Kinds DEF OnlyMoves, MemoryIsOfRows
  <2>2. s \in Request
    BY RowsAreRequests DEF TypeOK
  <2> QED  BY <2>1, <2>2, DoneStays
<1>5. ASSUME NEW l \in attaching' PROVE pc'[l] \in {"found", "flushed"} \cup Final
  BY <1>0, <1>5, Kinds DEF OnlyMoves, MemoryIsOfRows, TypeOK
<1> QED  BY <1>1, <1>2, <1>3, <1>4, <1>5 DEF MemoryIsOfRows

LEMMA LocksStayExclusive ==
    ASSUME AuthInvariant, NEW q \in Request, OnlyMoves(q),
           \A r \in Request : r # q =>
              /\ q \in Opener /\ r \in Opener /\ HoldsIdentityLock(q)' /\ HoldsIdentityLock(r) =>
                    Me(q) # Me(r)
              /\ HeldTokens(q)' \cap HeldTokens(r) = {}
              /\ HeldSessions(q)' \cap HeldSessions(r) = {}
              /\ HeldCredentials(q)' \cap HeldCredentials(r) = {}
    PROVE  LocksExclude'
<1>0. LocksExclude
  BY DEF AuthInvariant
<1> SUFFICES ASSUME NEW a \in Request, NEW b \in Request, a # b
             PROVE  /\ a \in Opener /\ b \in Opener /\ HoldsIdentityLock(a)'
                       /\ HoldsIdentityLock(b)' => Me(a) # Me(b)
                    /\ HeldTokens(a)' \cap HeldTokens(b)' = {}
                    /\ HeldSessions(a)' \cap HeldSessions(b)' = {}
                    /\ HeldCredentials(a)' \cap HeldCredentials(b)' = {}
  BY RowsAreRequests DEF LocksExclude, Me
<1>1. CASE a # q /\ b # q
  BY <1>0, <1>1, OthersHoldTheSame DEF LocksExclude
<1>2. CASE a = q
  BY <1>2, OthersHoldTheSame
<1>3. CASE b = q
  BY <1>3, OthersHoldTheSame
<1> QED  BY <1>1, <1>2, <1>3

\* The invariant is preserved when it is of q, and its locks are free.
LEMMA QuietStep ==
    ASSUME AuthInvariant, NEW q \in Request, OnlyMoves(q), RowsStay,
           TypeOK', StepsOfKind',
           \/ pc'[q] # "done"
           \/ q \in Withdrawal /\ AccountOf[q] \notin credentials,
           \* MemoryIsOfRows
           q \in Refresh /\ pc'[q] \in {"taken", "validated"} =>
              /\ presented'[q] \in Issuer /\ session'[q] \in Opener
              /\ session'[q] = SessionOf(presented'[q])
              /\ pc[presented'[q]] = "done" /\ pc[session'[q]] = "done",
           q \in Logout /\ pc'[q] \in {"located", "revoking", "selected", "purged"} =>
              session'[q] \in Opener /\ pc[session'[q]] = "done",
           q \in Withdrawal /\ pc'[q] \notin {"start", "rejected", "failed", "ignored", "conflict"} =>
              pc[AccountOf[q]] = "done",
           q \in Withdrawal =>
              \A s \in dropped'[q] : pc[s] = "done" /\ OwnerOf(s) = AccountOf[q],
           q \in attaching' => pc'[q] \in {"found", "flushed"} \cup Final,
           \* LocksExclude
           \A r \in Request : r # q =>
              /\ q \in Opener /\ r \in Opener /\ HoldsIdentityLock(q)' /\ HoldsIdentityLock(r) =>
                    Me(q) # Me(r)
              /\ HeldTokens(q)' \cap HeldTokens(r) = {}
              /\ HeldSessions(q)' \cap HeldSessions(r) = {}
              /\ HeldCredentials(q)' \cap HeldCredentials(r) = {},
           \* HeldRowsAreCurrent
           q \in Refresh /\ pc'[q] \in {"taken", "validated"} =>
              taken'[q] = {presented'[q]} /\ presented'[q] \in tokens,
           q \in Logout /\ pc'[q] \in {"revoking", "selected", "purged"} =>
              session'[q] \in sessions,
           q \in Login /\ pc'[q] = "flushed" => account'[q] \in credentials,
           q \in attaching' /\ pc'[q] \in {"found", "flushed"} =>
              (\A k \in links : k[1] # Me(q)) /\ SharesAddress(Me(q), account'[q]),
           q \in Withdrawal /\ pc'[q] = "erased" =>
              /\ SessionsOf(AccountOf[q]) \subseteq dropped'[q]
              /\ TokensIn(SessionsOf(AccountOf[q])) \subseteq taken'[q]
    PROVE  AuthInvariant'
<1> USE DEF RowsStay
<1>0. /\ TypeOK /\ StepsOfKind /\ ForeignKeysHold /\ MemoryIsOfRows /\ LocksExclude
      /\ HeldRowsAreCurrent /\ LinksShareAddress
  BY DEF AuthInvariant
<1>1. /\ ForeignKeysHold' /\ OneTokenPerSession' /\ IdentityHasOneAccount'
      /\ TokenExchangedOnce' /\ LoggedOutForGood' /\ WithdrawalErasesAccount'
  BY RowsStayRight
<1>2. MemoryIsOfRows'
  <2>1. q \in Refresh \/ q \in Logout => pc'[q] # "done"
    BY Kinds
  <2>2. q \in Refresh /\ pc'[q] \in {"taken", "validated", "done"} =>
           /\ presented'[q] \in Issuer /\ session'[q] \in Opener
           /\ session'[q] = SessionOf(presented'[q])
           /\ pc[presented'[q]] = "done" /\ pc[session'[q]] = "done"
    BY <2>1
  <2>3. q \in Logout /\ pc'[q] \in {"located", "revoking", "selected", "purged", "done"} =>
           session'[q] \in Opener /\ pc[session'[q]] = "done"
    BY <2>1
  <2> QED  BY <2>2, <2>3, MemoryStaysRight
<1>3. LocksExclude'
  BY LocksStayExclusive
<1>4. HeldRowsAreCurrent'
  <2>1. ASSUME NEW r \in Refresh
        PROVE  /\ pc'[r] \in {"taken", "validated"} =>
                     taken'[r] = {presented'[r]} /\ presented'[r] \in tokens
               /\ pc'[r] = "done" => presented'[r] \notin tokens
    BY <1>0, Kinds DEF OnlyMoves, HeldRowsAreCurrent
  <2>2. ASSUME NEW o \in Logout, pc'[o] \in {"revoking", "selected", "purged"}
        PROVE  session'[o] \in sessions
    BY <1>0, <2>2, Kinds DEF OnlyMoves, HeldRowsAreCurrent
  <2>3. ASSUME NEW l \in Login, pc'[l] = "flushed" PROVE account'[l] \in credentials
    BY <1>0, <2>3, Kinds DEF OnlyMoves, HeldRowsAreCurrent
  <2>4. ASSUME NEW l \in attaching', pc'[l] \in {"found", "flushed"}
        PROVE  \A k \in links : k[1] # Me(l)
    BY <1>0, <2>4, Kinds DEF OnlyMoves, HeldRowsAreCurrent, TypeOK
  <2>5. ASSUME NEW w \in Withdrawal, pc'[w] = "erased"
        PROVE  /\ SessionsOf(AccountOf[w])' \subseteq dropped'[w]
               /\ TokensIn(SessionsOf(AccountOf[w]))' \subseteq taken'[w]
    <3>1. /\ SessionsOf(AccountOf[w]) \subseteq dropped'[w]
          /\ TokensIn(SessionsOf(AccountOf[w])) \subseteq taken'[w]
      BY <1>0, <2>5, Kinds DEF OnlyMoves, HeldRowsAreCurrent
    <3>2. SessionsOf(AccountOf[w])' = SessionsOf(AccountOf[w])
      BY <1>0, SameRows
    <3>3. TokensIn(SessionsOf(AccountOf[w]))' = TokensIn(SessionsOf(AccountOf[w]))
      BY <1>0, <3>2, SameRows
    <3> QED  BY <3>1, <3>2, <3>3
  <2> QED  BY <2>1, <2>2, <2>3, <2>4, <2>5 DEF HeldRowsAreCurrent, Me
<1>5. LinksShareAddress'
  <2>1. ASSUME NEW l \in attaching', pc'[l] \in {"found", "flushed"}
        PROVE  SharesAddress(Me(l), account'[l])
    BY <1>0, <2>1, Kinds DEF OnlyMoves, LinksShareAddress, TypeOK
  <2> QED  BY <1>0, <2>1 DEF LinksShareAddress, SharesAddress, Me, HasVerifiedEmail
<1> QED  BY <1>1, <1>2, <1>3, <1>4, <1>5 DEF AuthInvariant

-----------------------------------------------------------------------------
(* The parts of a step *)

LEMMA FinishIsMine ==
    ASSUME TypeOK, StepsOfKind, NEW q \in Request, pc[q] \notin Final,
           NEW result \in Final, Finish(q, result), UNCHANGED <<loginMemory, tokenMemory>>
    PROVE  /\ OnlyMoves(q) /\ pc' = [pc EXCEPT ![q] = result] /\ pc'[q] = result
           /\ StepsOfKind'
           /\ taken' \in [Remover -> SUBSET Issuer] /\ dropped' \in [Withdrawal -> SUBSET Opener]
           /\ HeldTokens(q)' = {} /\ HeldSessions(q)' = {} /\ HeldCredentials(q)' = {}
           /\ ~HoldsIdentityLock(q)'
           /\ q \in Withdrawal => dropped'[q] = {}
<1> USE DEF loginMemory, tokenMemory
<1>1. pc' = [pc EXCEPT ![q] = result] /\ pc'[q] = result
  BY DEF Finish, StepsOfKind
<1>2. OnlyMoves(q)
  BY <1>1 DEF Finish, OnlyMoves, TypeOK, StepsOfKind
<1>3. StepsOfKind'
  BY <1>1 DEF StepsOfKind, SignUpPC, LoginPC, RefreshPC, LogoutPC, WithdrawalPC
<1>4. taken' \in [Remover -> SUBSET Issuer] /\ dropped' \in [Withdrawal -> SUBSET Opener]
  BY DEF Finish, TypeOK
<1>5. HeldTokens(q)' = {} /\ (q \in Withdrawal => dropped'[q] = {})
  BY DEF Finish, HeldTokens, TypeOK
<1>6. HeldSessions(q)' = {}
  BY <1>1, <1>5 DEF HeldSessions, Final
<1>7. HeldCredentials(q)' = {} /\ ~HoldsIdentityLock(q)'
  BY <1>1 DEF HeldCredentials, HoldsIdentityLock, Final
<1> QED  BY <1>1, <1>2, <1>3, <1>4, <1>5, <1>6, <1>7

\* A transaction that is rolled back, or has nothing to commit.
LEMMA NothingDone ==
    ASSUME AuthInvariant, NEW q \in Request, pc[q] \notin Final,
           NEW result \in Final, Finish(q, result),
           UNCHANGED <<accountTables, sessionTables, loginMemory, tokenMemory>>,
           \/ result # "done"
           \/ /\ q \in Withdrawal /\ AccountOf[q] \notin credentials
              /\ pc[q] = "admitted"
    PROVE  AuthInvariant'
<1> USE DEF accountTables, sessionTables
<1>0. TypeOK /\ StepsOfKind /\ MemoryIsOfRows
  BY DEF AuthInvariant
<1>1. /\ OnlyMoves(q) /\ pc'[q] = result
      /\ StepsOfKind'
      /\ taken' \in [Remover -> SUBSET Issuer] /\ dropped' \in [Withdrawal -> SUBSET Opener]
      /\ HeldTokens(q)' = {} /\ HeldSessions(q)' = {} /\ HeldCredentials(q)' = {}
      /\ ~HoldsIdentityLock(q)'
      /\ q \in Withdrawal => dropped'[q] = {}
  BY <1>0, FinishIsMine
<1>2. TypeOK'
  BY <1>0, <1>1 DEF TypeOK, StepsOfKind, loginMemory, tokenMemory
<1>3. q \in Withdrawal /\ pc'[q] \notin {"start", "rejected", "failed", "ignored", "conflict"} =>
         pc[AccountOf[q]] = "done"
  BY <1>0, <1>1 DEF MemoryIsOfRows, Final
<1>4. RowsStay
  BY DEF RowsStay
<1> QED  BY <1>1, <1>2, <1>3, <1>4, QuietStep, Kinds DEF Final

\* A statement that moves nothing but the transaction itself.
LEMMA GotoIsMine ==
    ASSUME TypeOK, StepsOfKind, NEW q \in Request, pc[q] \notin Final,
           NEW label, Goto(q, label), UNCHANGED <<loginMemory, tokenMemory, rowLocks>>
    PROVE  OnlyMoves(q) /\ pc' = [pc EXCEPT ![q] = label] /\ pc'[q] = label
BY DEF Goto, OnlyMoves, StepsOfKind, loginMemory, tokenMemory, rowLocks

-----------------------------------------------------------------------------
(* Sign-up and login, up to the commit *)

LEMMA QuietOpener ==
    ASSUME AuthInvariant, NEW q \in Opener, OnlyMoves(q), RowsStay,
           TypeOK', StepsOfKind', pc'[q] # "done",
           HoldsIdentityLock(q)' =>
              \A r \in Opener : r # q /\ HoldsIdentityLock(r) => Me(q) # Me(r),
           \A r \in Request : r # q => HeldCredentials(q)' \cap HeldCredentials(r) = {},
           q \in Login /\ pc'[q] = "flushed" => account'[q] \in credentials,
           q \in attaching' =>
              /\ pc'[q] \in {"found", "flushed"}
              /\ \A k \in links : k[1] # Me(q)
              /\ SharesAddress(Me(q), account'[q])
    PROVE  AuthInvariant'
<1>1. HeldTokens(q)' = {} /\ HeldSessions(q)' = {}
  BY RowsAreRequests, Kinds DEF HeldTokens, HeldSessions
<1> QED  BY <1>1, QuietStep, RowsAreRequests, Kinds

\* An identity that has no account with a row has no link either.
LEMMA NotLinked ==
    ASSUME TypeOK, ForeignKeysHold, NEW i \in Identity, Linked(i) = {}
    PROVE  \A k \in links : k[1] # i
<1> SUFFICES ASSUME NEW k \in links, k[1] = i PROVE FALSE
  OBVIOUS
<1>1. k = <<i, k[2]>> /\ k[2] \in credentials
  BY DEF TypeOK, ForeignKeysHold
<1> QED  BY <1>1 DEF Linked

LEMMA StepOfAccount ==
    ASSUME AuthInvariant, NEW q \in Opener,
           \/ q \in SignUp /\ CheckNewUser(q)
           \/ LockIdentity(q) \/ LockEmail(q) \/ SignUpConflict(q)
           \/ FindAccount(q) \/ RejectLogin(q) \/ FlushLogin(q) \/ FlushLoginError(q)
    PROVE  AuthInvariant'
<1> USE DEF accountTables, sessionTables
<1>0. /\ TypeOK /\ StepsOfKind /\ ForeignKeysHold /\ LocksExclude /\ HeldRowsAreCurrent
      /\ LinksShareAddress /\ MemoryIsOfRows /\ q \in Request /\ Me(q) \in Identity
      /\ q \in SignUp \/ q \in Login
  BY RowsAreRequests, IdentitiesAssumption DEF AuthInvariant, Me
<1>1. CASE q \in SignUp /\ CheckNewUser(q)
  <2>1. PICK label \in {"rejected", "checked"} : Goto(q, label)
    BY <1>1 DEF CheckNewUser
  <2>2. /\ OnlyMoves(q) /\ pc' = [pc EXCEPT ![q] = label] /\ pc'[q] = label /\ RowsStay
    BY <1>0, <1>1, <2>1, GotoIsMine DEF CheckNewUser, Final, RowsStay
  <2>3. TypeOK' /\ StepsOfKind'
    BY <1>0, <1>1, <2>2, Kinds DEF CheckNewUser, TypeOK, StepsOfKind, SignUpPC, LoginPC, RefreshPC,
       LogoutPC, WithdrawalPC, Final, loginMemory, tokenMemory, rowLocks
  <2>4. ~HoldsIdentityLock(q)' /\ HeldCredentials(q)' = {}
    BY <1>1, <2>2, Kinds DEF HoldsIdentityLock, HeldCredentials
  <2>5. q \notin attaching' /\ q \notin Login
    BY <1>0, <1>1, Kinds DEF CheckNewUser, loginMemory, TypeOK
  <2> QED  BY <2>2, <2>3, <2>4, <2>5, QuietOpener
<1>2. CASE LockIdentity(q)
  <2>1. PICK label \in {"locked", "identityLocked"} : Goto(q, label)
    BY <1>2 DEF LockIdentity
  <2>2. /\ OnlyMoves(q) /\ pc' = [pc EXCEPT ![q] = label] /\ pc'[q] = label /\ RowsStay
    BY <1>0, <1>2, <2>1, GotoIsMine DEF LockIdentity, Final, RowsStay
  <2>3. TypeOK' /\ StepsOfKind'
    BY <1>0, <1>2, <2>2, Kinds DEF LockIdentity, TypeOK, StepsOfKind, SignUpPC, LoginPC,
       RefreshPC, LogoutPC, WithdrawalPC, loginMemory, tokenMemory, rowLocks
  <2>4. HeldCredentials(q)' = {}
    BY <1>0, <2>2, Kinds DEF HeldCredentials
  <2>5. \A r \in Opener : HoldsIdentityLock(r) => Me(q) # Me(r)
    BY <1>2 DEF LockIdentity
  <2>6. q \notin attaching'
    BY <1>0, <1>2, Kinds DEF LockIdentity, loginMemory, MemoryIsOfRows, Final
  <2> QED  BY <2>2, <2>3, <2>4, <2>5, <2>6, QuietOpener
<1>3. CASE LockEmail(q)
  <2>1. Goto(q, "locked") /\ HoldsIdentityLock(q)
    BY <1>3 DEF LockEmail, HoldsIdentityLock
  <2>2. /\ OnlyMoves(q) /\ pc' = [pc EXCEPT ![q] = "locked"] /\ pc'[q] = "locked" /\ RowsStay
    BY <1>0, <1>3, <2>1, GotoIsMine DEF LockEmail, Final, RowsStay
  <2>3. TypeOK' /\ StepsOfKind'
    BY <1>0, <1>3, <2>2, Kinds DEF LockEmail, TypeOK, StepsOfKind, SignUpPC, LoginPC, RefreshPC,
       LogoutPC, WithdrawalPC, loginMemory, tokenMemory, rowLocks
  <2>4. HeldCredentials(q)' = {}
    BY <1>0, <2>2, Kinds DEF HeldCredentials
  <2>5. \A r \in Opener : r # q /\ HoldsIdentityLock(r) => Me(q) # Me(r)
    BY <1>0, <2>1 DEF LocksExclude
  <2>6. q \notin attaching'
    BY <1>0, <1>3 DEF LockEmail, loginMemory, MemoryIsOfRows, Final
  <2> QED  BY <2>2, <2>3, <2>4, <2>5, <2>6, QuietOpener
<1>4. CASE SignUpConflict(q)
  BY <1>0, <1>4, NothingDone DEF SignUpConflict, Final
<1>5. CASE FindAccount(q)
  <2>0. q \in Login /\ pc[q] = "locked" /\ HoldsIdentityLock(q)
    BY <1>5 DEF FindAccount, HoldsIdentityLock
  <2>1. PICK c \in credentials :
           /\ account' = [account EXCEPT ![q] = c]
           /\ Linked(Me(q)) = {} => c \in SameVerifiedEmail(Me(q))
    BY <1>5 DEF FindAccount, Linked, SameVerifiedEmail
  <2>2. /\ pc' = [pc EXCEPT ![q] = "found"]
        /\ attaching' \in {attaching, attaching \cup {q}}
        /\ UNCHANGED <<presented, session, taken, dropped>> /\ RowsStay
    BY <1>5 DEF FindAccount, Goto, tokenMemory, rowLocks, RowsStay
  <2>3. OnlyMoves(q) /\ pc'[q] = "found" /\ account'[q] = c
    BY <1>0, <2>0, <2>1, <2>2 DEF OnlyMoves, Final, StepsOfKind, TypeOK
  <2>4. TypeOK' /\ StepsOfKind'
    <3>1. c \in SignUp
      BY <1>0 DEF TypeOK
    <3> QED
      BY <1>0, <2>0, <2>1, <2>2, <3>1, Kinds DEF TypeOK, StepsOfKind, SignUpPC, LoginPC,
         RefreshPC, LogoutPC, WithdrawalPC, RowsStay
  <2>5. HeldCredentials(q)' = {}
    BY <1>0, <2>0, <2>3, Kinds DEF HeldCredentials
  <2>6. \A r \in Opener : r # q /\ HoldsIdentityLock(r) => Me(q) # Me(r)
    BY <1>0, <2>0 DEF LocksExclude
  <2>7. ASSUME q \in attaching'
        PROVE  (\A k \in links : k[1] # Me(q)) /\ SharesAddress(Me(q), c)
    <3>0. q \notin attaching
      BY <1>0, <2>0 DEF MemoryIsOfRows, Final
    <3>1. Linked(Me(q)) = {} /\ HasVerifiedEmail(Me(q))
      BY <1>5, <2>7, <3>0 DEF FindAccount
    <3>2. \A k \in links : k[1] # Me(q)
      BY <1>0, <3>1, NotLinked
    <3>3. PICK j \in Verified : EmailOf[j] = EmailOf[Me(q)] /\ <<j, c>> \in links
      BY <2>1, <3>1 DEF SameVerifiedEmail
    <3>4. j = Me(c) \/ SharesAddress(j, c)
      BY <1>0, <3>3 DEF LinksShareAddress
    <3>5. SharesAddress(Me(q), c)
      BY <3>1, <3>3, <3>4 DEF SharesAddress
    <3> QED  BY <3>2, <3>5
  <2> QED  BY <2>2, <2>3, <2>4, <2>5, <2>6, <2>7, QuietOpener
<1>6. CASE RejectLogin(q)
  BY <1>0, <1>6, NothingDone DEF RejectLogin, Final
<1>7. CASE FlushLogin(q)
  <2>0. /\ q \in Login /\ pc[q] = "found" /\ Goto(q, "flushed") /\ HoldsIdentityLock(q)
        /\ account[q] \in credentials
    BY <1>7 DEF FlushLogin, HoldsIdentityLock
  <2>2. /\ OnlyMoves(q) /\ pc' = [pc EXCEPT ![q] = "flushed"] /\ pc'[q] = "flushed" /\ RowsStay
        /\ UNCHANGED <<account, attaching>>
    BY <1>0, <1>7, <2>0, GotoIsMine DEF FlushLogin, Final, RowsStay, loginMemory
  <2>3. TypeOK' /\ StepsOfKind'
    BY <1>0, <1>7, <2>0, <2>2, Kinds DEF FlushLogin, TypeOK, StepsOfKind, SignUpPC, LoginPC,
       RefreshPC, LogoutPC, WithdrawalPC, loginMemory, tokenMemory, rowLocks
  <2>4. ASSUME NEW r \in Request, r # q
        PROVE  HeldCredentials(q)' \cap HeldCredentials(r) = {}
    <3>1. HeldCredentials(q)' = {account[q]} /\ WantedCredentials(q) = {account[q]}
      BY <2>0, <2>2 DEF HeldCredentials, WantedCredentials
    <3>2. ~WaitsFor(q, r)
      BY <1>7, <2>4 DEF FlushLogin, Waiting
    <3> QED  BY <2>4, <3>1, <3>2 DEF WaitsFor
  <2>5. \A r \in Opener : r # q /\ HoldsIdentityLock(r) => Me(q) # Me(r)
    BY <1>0, <2>0 DEF LocksExclude
  <2>6. q \in attaching =>
           (\A k \in links : k[1] # Me(q)) /\ SharesAddress(Me(q), account[q])
    BY <1>0, <2>0 DEF HeldRowsAreCurrent, LinksShareAddress
  <2> QED  BY <2>0, <2>2, <2>3, <2>4, <2>5, <2>6, QuietOpener
<1>8. CASE FlushLoginError(q)
  BY <1>0, <1>8, NothingDone DEF FlushLoginError, Final
<1> QED  BY <1>1, <1>2, <1>3, <1>4, <1>5, <1>6, <1>7, <1>8

-----------------------------------------------------------------------------
(* Refresh, up to the commit *)

\* A request that is not a sign-up or login holds no advisory lock, and locks
\* no credential but in a withdrawal.
LEMMA QuietRemover ==
    ASSUME AuthInvariant, NEW q \in Refresh \cup Logout, OnlyMoves(q), RowsStay,
           TypeOK', StepsOfKind', pc'[q] # "done",
           q \in Refresh /\ pc'[q] \in {"taken", "validated"} =>
              /\ presented'[q] \in Issuer /\ session'[q] \in Opener
              /\ session'[q] = SessionOf(presented'[q])
              /\ pc[presented'[q]] = "done" /\ pc[session'[q]] = "done"
              /\ taken'[q] = {presented'[q]} /\ presented'[q] \in tokens,
           q \in Logout /\ pc'[q] \in {"located", "revoking", "selected", "purged"} =>
              session'[q] \in Opener /\ pc[session'[q]] = "done",
           q \in Logout /\ pc'[q] \in {"revoking", "selected", "purged"} =>
              session'[q] \in sessions,
           \A r \in Request : r # q =>
              /\ HeldTokens(q)' \cap HeldTokens(r) = {}
              /\ HeldSessions(q)' \cap HeldSessions(r) = {}
    PROVE  AuthInvariant'
<1>1. /\ q \in Request /\ q \notin Opener /\ q \notin Withdrawal /\ q \notin Login
      /\ q \notin attaching'
  BY Kinds DEF TypeOK
<1>2. HeldCredentials(q)' = {}
  BY <1>1 DEF HeldCredentials
<1> QED  BY <1>1, <1>2, QuietStep

LEMMA StepOfRefresh ==
    ASSUME AuthInvariant, NEW q \in Refresh,
           \/ TakeToken(q) \/ RejectToken(q) \/ ValidateSession(q) \/ RejectSession(q)
           \/ RotateError(q)
    PROVE  AuthInvariant'
<1> USE DEF accountTables, sessionTables
<1>0. /\ TypeOK /\ StepsOfKind /\ ForeignKeysHold /\ LocksExclude /\ HeldRowsAreCurrent
      /\ MemoryIsOfRows /\ q \in Request /\ q \in Remover /\ q \notin Logout
      /\ q \notin Withdrawal
  BY Kinds DEF AuthInvariant
<1>1. HeldSessions(q)' = {}
  BY <1>0 DEF HeldSessions
<1>2. CASE TakeToken(q)
  <2>1. PICK t \in Issued \cap tokens :
           /\ \A r \in Remover : t \notin HeldTokens(r)
           /\ presented' = [presented EXCEPT ![q] = t]
           /\ session' = [session EXCEPT ![q] = SessionOf(t)]
           /\ taken' = [taken EXCEPT ![q] = {t}]
    BY <1>2 DEF TakeToken
  <2>2. /\ pc' = [pc EXCEPT ![q] = "taken"] /\ pc[q] = "start" /\ RowsStay
        /\ UNCHANGED <<account, attaching, dropped>>
    BY <1>2 DEF TakeToken, Goto, loginMemory, RowsStay
  <2>3. /\ t \in Issuer /\ pc[t] = "done"
        /\ SessionOf(t) \in Opener /\ pc[SessionOf(t)] = "done"
    BY <1>0, <2>1 DEF Issued, ForeignKeysHold, TypeOK
  <2>4. /\ OnlyMoves(q) /\ pc'[q] = "taken" /\ presented'[q] = t /\ session'[q] = SessionOf(t)
        /\ taken'[q] = {t}
    BY <1>0, <2>1, <2>2 DEF OnlyMoves, Final, StepsOfKind, TypeOK
  <2>5. TypeOK' /\ StepsOfKind'
    BY <1>0, <2>1, <2>2, <2>3, Kinds DEF TypeOK, StepsOfKind, SignUpPC, LoginPC, RefreshPC,
       LogoutPC, WithdrawalPC, RowsStay
  <2>6. \A r \in Request : HeldTokens(q)' \cap HeldTokens(r) = {}
    BY <1>0, <2>1, <2>4 DEF HeldTokens
  <2> QED  BY <1>0, <1>1, <2>1, <2>2, <2>3, <2>4, <2>5, <2>6, QuietRemover
<1>3. CASE RejectToken(q)
  BY <1>0, <1>3, NothingDone DEF RejectToken, Final
<1>4. CASE ValidateSession(q)
  <2>1. pc[q] = "taken" /\ Goto(q, "validated") /\ UNCHANGED <<presented, session, taken>>
    BY <1>4 DEF ValidateSession, tokenMemory, rowLocks
  <2>2. /\ OnlyMoves(q) /\ pc' = [pc EXCEPT ![q] = "validated"] /\ pc'[q] = "validated" /\ RowsStay
    BY <1>0, <1>4, <2>1, GotoIsMine DEF ValidateSession, Final, RowsStay
  <2>3. TypeOK' /\ StepsOfKind'
    BY <1>0, <1>4, <2>2, Kinds DEF ValidateSession, TypeOK, StepsOfKind, SignUpPC, LoginPC,
       RefreshPC, LogoutPC, WithdrawalPC, loginMemory, tokenMemory, rowLocks
  <2>4. HeldTokens(q)' = HeldTokens(q)
    BY <2>1, <2>2 DEF HeldTokens
  <2>5. \A r \in Request : r # q => HeldTokens(q)' \cap HeldTokens(r) = {}
    BY <1>0, <2>4 DEF LocksExclude
  <2>6. /\ presented[q] \in Issuer /\ session[q] \in Opener
        /\ session[q] = SessionOf(presented[q])
        /\ pc[presented[q]] = "done" /\ pc[session[q]] = "done"
        /\ taken[q] = {presented[q]} /\ presented[q] \in tokens
    BY <1>0, <2>1 DEF MemoryIsOfRows, HeldRowsAreCurrent
  <2> QED  BY <1>0, <1>1, <2>1, <2>2, <2>3, <2>5, <2>6, QuietRemover
<1>5. CASE RejectSession(q)
  BY <1>0, <1>5, NothingDone DEF RejectSession, Final
<1>6. CASE RotateError(q)
  BY <1>0, <1>6, NothingDone DEF RotateError, Final
<1> QED  BY <1>2, <1>3, <1>4, <1>5, <1>6

-----------------------------------------------------------------------------
(* Logout, up to the commit *)

LEMMA StepOfLogout ==
    ASSUME AuthInvariant, NEW q \in Logout,
           \/ LocateSession(q) \/ IgnoreLogout(q) \/ RevokeSession(q) \/ RevokeError(q)
           \/ SelectTokens(q) \/ LockTokens(q)
    PROVE  AuthInvariant'
<1> USE DEF accountTables, sessionTables
<1>0. /\ TypeOK /\ StepsOfKind /\ ForeignKeysHold /\ LocksExclude /\ HeldRowsAreCurrent
      /\ MemoryIsOfRows /\ q \in Request /\ q \in Remover /\ q \notin Refresh
      /\ q \notin Withdrawal
  BY Kinds DEF AuthInvariant
<1>1. CASE LocateSession(q)
  <2>1. PICK t \in Issued \cap tokens :
           /\ presented' = [presented EXCEPT ![q] = t]
           /\ session' = [session EXCEPT ![q] = SessionOf(t)]
    BY <1>1 DEF LocateSession
  <2>2. /\ pc' = [pc EXCEPT ![q] = "located"] /\ pc[q] = "start" /\ RowsStay
        /\ UNCHANGED <<account, attaching, taken, dropped>>
    BY <1>1 DEF LocateSession, Goto, loginMemory, rowLocks, RowsStay
  <2>3. t \in Issuer /\ SessionOf(t) \in Opener /\ pc[SessionOf(t)] = "done"
    BY <1>0, <2>1 DEF Issued, ForeignKeysHold, TypeOK
  <2>4. OnlyMoves(q) /\ pc'[q] = "located" /\ session'[q] = SessionOf(t)
    BY <1>0, <2>1, <2>2 DEF OnlyMoves, Final, StepsOfKind, TypeOK
  <2>5. TypeOK' /\ StepsOfKind'
    BY <1>0, <2>1, <2>2, <2>3, Kinds DEF TypeOK, StepsOfKind, SignUpPC, LoginPC, RefreshPC,
       LogoutPC, WithdrawalPC, RowsStay
  <2>6. HeldTokens(q)' = HeldTokens(q) /\ HeldSessions(q)' = {}
    BY <1>0, <2>2, <2>4 DEF HeldTokens, HeldSessions
  <2>7. \A r \in Request : r # q => HeldTokens(q)' \cap HeldTokens(r) = {}
    BY <1>0, <2>6 DEF LocksExclude
  <2> QED  BY <1>0, <2>2, <2>3, <2>4, <2>5, <2>6, <2>7, QuietRemover
<1>2. CASE IgnoreLogout(q)
  BY <1>0, <1>2, NothingDone DEF IgnoreLogout, Final
<1>3. CASE RevokeSession(q)
  <2>1. /\ pc[q] = "located" /\ Goto(q, "revoking") /\ UNCHANGED <<session, taken>>
        /\ session[q] \in sessions
    BY <1>3 DEF RevokeSession, tokenMemory, rowLocks
  <2>2. /\ OnlyMoves(q) /\ pc' = [pc EXCEPT ![q] = "revoking"] /\ pc'[q] = "revoking" /\ RowsStay
    BY <1>0, <1>3, <2>1, GotoIsMine DEF RevokeSession, Final, RowsStay
  <2>3. TypeOK' /\ StepsOfKind'
    BY <1>0, <1>3, <2>2, Kinds DEF RevokeSession, TypeOK, StepsOfKind, SignUpPC, LoginPC,
       RefreshPC, LogoutPC, WithdrawalPC, loginMemory, tokenMemory, rowLocks
  <2>4. HeldTokens(q)' = HeldTokens(q)
    BY <2>1, <2>2 DEF HeldTokens
  <2>5. HeldSessions(q)' = {session[q]} /\ WantedSessions(q) = {session[q]}
    BY <1>0, <2>1, <2>2 DEF HeldSessions, WantedSessions
  <2>6. \A r \in Request : r # q => WantedSessions(q) \cap HeldSessions(r) = {}
    BY <1>3 DEF RevokeSession, Waiting, WaitsFor
  <2>7. \A r \in Request : r # q =>
           HeldTokens(q)' \cap HeldTokens(r) = {} /\ HeldSessions(q)' \cap HeldSessions(r) = {}
    BY <1>0, <2>4, <2>5, <2>6 DEF LocksExclude
  <2>8. session[q] \in Opener /\ pc[session[q]] = "done"
    BY <1>0, <2>1 DEF MemoryIsOfRows
  <2> QED  BY <1>0, <2>1, <2>2, <2>3, <2>7, <2>8, QuietRemover
<1>4. CASE RevokeError(q)
  BY <1>0, <1>4, NothingDone DEF RevokeError, Final
<1>5. ASSUME pc[q] \in {"revoking", "selected"},
             NEW label \in {"selected", "purged"}, pc' = [pc EXCEPT ![q] = label],
             NEW S \in SUBSET Issuer, taken' = [taken EXCEPT ![q] = S],
             \A r \in Request : label = "purged" /\ r # q => S \cap HeldTokens(r) = {},
             UNCHANGED <<accountTables, sessionTables, loginMemory, tokenMemory, dropped>>
      PROVE  AuthInvariant'
  <2> USE DEF loginMemory, tokenMemory
  <2>1. /\ OnlyMoves(q) /\ pc'[q] = label /\ RowsStay /\ taken'[q] = S
    BY <1>0, <1>5 DEF OnlyMoves, Final, RowsStay, StepsOfKind, TypeOK
  <2>2. TypeOK' /\ StepsOfKind'
    BY <1>0, <1>5, Kinds DEF TypeOK, StepsOfKind, SignUpPC, LoginPC, RefreshPC,
       LogoutPC, WithdrawalPC
  <2>3. \A r \in Request : r # q => HeldTokens(q)' \cap HeldTokens(r) = {}
    BY <1>5, <2>1 DEF HeldTokens
  <2>4. HeldSessions(q)' = HeldSessions(q)
    BY <1>0, <1>5, <2>1 DEF HeldSessions
  <2>5. \A r \in Request : r # q => HeldSessions(q)' \cap HeldSessions(r) = {}
    BY <1>0, <2>4 DEF LocksExclude
  <2>6. session[q] \in sessions /\ session[q] \in Opener /\ pc[session[q]] = "done"
    BY <1>0, <1>5 DEF MemoryIsOfRows, HeldRowsAreCurrent
  <2>7. session'[q] = session[q] /\ pc'[q] # "done"
    BY <1>5, <2>1
  <2> QED  BY <1>0, <2>1, <2>2, <2>3, <2>5, <2>6, <2>7, QuietRemover
<1>6. CASE SelectTokens(q)
  <2>1. TokensIn({session[q]}) \in SUBSET Issuer
    BY <1>0 DEF TokensIn, TypeOK
  <2> QED  BY <1>5, <1>6, <2>1 DEF SelectTokens, Goto
<1>7. CASE LockTokens(q)
  <2>1. \A r \in Request : r # q => taken[q] \cap HeldTokens(r) = {}
    BY <1>7 DEF LockTokens, Waiting, WaitsFor, WantedTokens
  <2>2. (taken[q] \cap tokens) \in SUBSET Issuer
    BY <1>0 DEF TypeOK
  <2>3. taken' = [taken EXCEPT ![q] = taken[q] \cap tokens]
    BY <1>7 DEF LockTokens
  <2> QED  BY <1>5, <1>7, <2>1, <2>2, <2>3 DEF LockTokens, Goto
<1> QED  BY <1>1, <1>2, <1>3, <1>4, <1>6, <1>7

-----------------------------------------------------------------------------
(* Withdrawal, up to the commit *)

LEMMA QuietWithdrawal ==
    ASSUME AuthInvariant, NEW q \in Withdrawal, pc[q] \notin Final,
           pc[AccountOf[q]] = "done",
           NEW label \in WithdrawalPC \ Final, Goto(q, label),
           taken' \in [Remover -> SUBSET Issuer], dropped' \in [Withdrawal -> SUBSET Opener],
           \A r \in Remover : r # q => taken'[r] = taken[r],
           \A w \in Withdrawal : w # q => dropped'[w] = dropped[w],
           UNCHANGED <<accountTables, sessionTables, loginMemory, tokenMemory>>,
           \A s \in dropped'[q] : pc[s] = "done" /\ OwnerOf(s) = AccountOf[q],
           label # "selected" =>
              \A r \in Request : r # q => taken'[q] \cap HeldTokens(r) = {},
           \A r \in Request : r # q => dropped'[q] \cap HeldSessions(r) = {},
           label \in {"credentialDeleted", "erased"} =>
              \A r \in Request : r # q => AccountOf[q] \notin HeldCredentials(r),
           label = "erased" =>
              /\ SessionsOf(AccountOf[q]) \subseteq dropped'[q]
              /\ TokensIn(SessionsOf(AccountOf[q])) \subseteq taken'[q]
    PROVE  AuthInvariant'
<1> USE DEF accountTables, sessionTables, loginMemory, tokenMemory
<1>0. /\ TypeOK /\ StepsOfKind /\ q \in Request /\ q \in Remover /\ q \notin Refresh
      /\ q \notin Logout /\ q \notin Opener /\ q \notin Login
  BY Kinds DEF AuthInvariant
<1>1. OnlyMoves(q) /\ pc'[q] = label /\ RowsStay
  BY <1>0 DEF Goto, OnlyMoves, RowsStay, StepsOfKind
<1>2. TypeOK'
  BY <1>0 DEF Goto, TypeOK
<1>3. StepsOfKind'
  BY <1>0, Kinds DEF Goto, StepsOfKind
<1>4. \A r \in Request : r # q =>
         /\ HeldTokens(q)' \cap HeldTokens(r) = {}
         /\ HeldSessions(q)' \cap HeldSessions(r) = {}
         /\ HeldCredentials(q)' \cap HeldCredentials(r) = {}
  <2>1. HeldTokens(q)' = IF label = "selected" THEN {} ELSE taken'[q]
    BY <1>0, <1>1 DEF HeldTokens
  <2>2. HeldSessions(q)' = dropped'[q]
    BY DEF HeldSessions
  <2>3. HeldCredentials(q)' =
           IF label \in {"credentialDeleted", "erased"} THEN {AccountOf[q]} ELSE {}
    BY <1>0, <1>1 DEF HeldCredentials
  <2> QED  BY <2>1, <2>2, <2>3
<1>5. q \notin attaching' /\ pc'[q] # "done"
  BY <1>0, <1>1 DEF TypeOK, Final
<1> QED  BY <1>0, <1>1, <1>2, <1>3, <1>4, <1>5, QuietStep

LEMMA StepOfWithdrawal ==
    ASSUME AuthInvariant, NEW q \in Withdrawal,
           \/ Admit(q) \/ Refuse(q) \/ SelectAccountTokens(q) \/ SkipAccount(q) \/ LockTokens(q)
           \/ DeleteSessions(q) \/ CascadeSessions(q) \/ DeleteCredential(q)
           \/ CascadeCredential(q)
    PROVE  AuthInvariant'
<1> DEFINE A == AccountOf[q]
<1> USE DEF WithdrawalPC, Final
<1>0. /\ TypeOK /\ ForeignKeysHold /\ LocksExclude /\ HeldRowsAreCurrent
      /\ MemoryIsOfRows /\ q \in Request /\ q \in Remover
  BY Kinds DEF AuthInvariant
<1>1. /\ taken \in [Remover -> SUBSET Issuer] /\ dropped \in [Withdrawal -> SUBSET Opener]
      /\ SessionsOf(A) \subseteq Opener
      /\ TokensIn(SessionsOf(A)) \subseteq Issuer /\ TokensIn(dropped[q]) \subseteq Issuer
  BY <1>0 DEF TypeOK, SessionsOf, TokensIn
<1>2. /\ \A s \in dropped[q] : pc[s] = "done" /\ OwnerOf(s) = A
      /\ \A s \in SessionsOf(A) : pc[s] = "done" /\ OwnerOf(s) = A
  BY <1>0 DEF MemoryIsOfRows, ForeignKeysHold, SessionsOf
<1>3. pc[q] \notin Final /\ pc[q] # "start" => pc[A] = "done"
  BY <1>0 DEF MemoryIsOfRows
<1>4. HeldSessions(q) = dropped[q] /\ (pc[q] # "selected" => HeldTokens(q) = taken[q])
  BY <1>0 DEF HeldSessions, HeldTokens
<1>5. \A r \in Request : r # q =>
         /\ dropped[q] \cap HeldSessions(r) = {}
         /\ pc[q] # "selected" => taken[q] \cap HeldTokens(r) = {}
         /\ pc[q] \in {"credentialDeleted", "erased"} => A \notin HeldCredentials(r)
  BY <1>0, <1>4, Kinds DEF LocksExclude, HeldCredentials
<1>6. \A r \in Request : r # q /\ ~Waiting(q) =>
         /\ WantedTokens(q) \cap HeldTokens(r) = {}
         /\ WantedSessions(q) \cap HeldSessions(r) = {}
         /\ WantedCredentials(q) \cap HeldCredentials(r) = {}
  BY DEF Waiting, WaitsFor
<1>7. CASE Admit(q)
  <2>1. pc[A] = "done"
    <3>1. PICK s \in SessionsOf(A) : TRUE
      BY <1>7 DEF Admit
    <3> QED  BY <1>0, <3>1 DEF SessionsOf, ForeignKeysHold
  <2>2. pc[q] = "start" /\ Goto(q, "admitted") /\ UNCHANGED <<taken, dropped>>
        /\ UNCHANGED <<accountTables, sessionTables, loginMemory, tokenMemory>>
    BY <1>7 DEF Admit, rowLocks
  <2> QED  BY <1>1, <1>2, <1>5, <2>1, <2>2, QuietWithdrawal
<1>8. CASE Refuse(q)
  BY <1>0, <1>8, NothingDone DEF Refuse
<1>9. CASE SelectAccountTokens(q)
  <2>1. /\ pc[q] = "admitted" /\ Goto(q, "selected") /\ UNCHANGED dropped
        /\ taken' = [taken EXCEPT ![q] = TokensIn(SessionsOf(A))]
        /\ UNCHANGED <<accountTables, sessionTables, loginMemory, tokenMemory>>
    BY <1>9 DEF SelectAccountTokens
  <2>2. /\ taken' \in [Remover -> SUBSET Issuer]
        /\ \A r \in Remover : r # q => taken'[r] = taken[r]
    BY <1>0, <1>1, <2>1
  <2> QED  BY <1>1, <1>2, <1>3, <1>5, <2>1, <2>2, QuietWithdrawal
<1>10. CASE SkipAccount(q)
  BY <1>0, <1>10, NothingDone DEF SkipAccount
<1>11. CASE LockTokens(q)
  <2>1. /\ pc[q] = "selected" /\ Goto(q, "purged") /\ UNCHANGED dropped /\ ~Waiting(q)
        /\ taken' = [taken EXCEPT ![q] = taken[q] \cap tokens]
        /\ UNCHANGED <<accountTables, sessionTables, loginMemory, tokenMemory>>
    BY <1>11 DEF LockTokens
  <2>2. /\ taken' \in [Remover -> SUBSET Issuer] /\ taken'[q] = taken[q] \cap tokens
        /\ \A r \in Remover : r # q => taken'[r] = taken[r]
    BY <1>0, <1>1, <2>1
  <2>3. \A r \in Request : r # q => taken'[q] \cap HeldTokens(r) = {}
    BY <1>6, <2>1, <2>2 DEF WantedTokens
  <2> QED  BY <1>1, <1>2, <1>3, <1>5, <2>1, <2>2, <2>3, QuietWithdrawal
<1>12. CASE DeleteSessions(q)
  <2>1. /\ pc[q] = "purged" /\ Goto(q, "sessionsDeleted") /\ UNCHANGED taken /\ ~Waiting(q)
        /\ dropped' = [dropped EXCEPT ![q] = SessionsOf(A)]
        /\ UNCHANGED <<accountTables, sessionTables, loginMemory, tokenMemory>>
    BY <1>12 DEF DeleteSessions
  <2>2. /\ dropped' \in [Withdrawal -> SUBSET Opener] /\ dropped'[q] = SessionsOf(A)
        /\ \A w \in Withdrawal : w # q => dropped'[w] = dropped[w]
    BY <1>1, <2>1
  <2>3. \A r \in Request : r # q => dropped'[q] \cap HeldSessions(r) = {}
    BY <1>6, <2>1, <2>2 DEF WantedSessions
  <2> QED  BY <1>1, <1>2, <1>3, <1>5, <2>1, <2>2, <2>3, QuietWithdrawal
<1>13. CASE CascadeSessions(q)
  <2>1. /\ pc[q] = "sessionsDeleted" /\ Goto(q, "sessionsGone") /\ UNCHANGED dropped /\ ~Waiting(q)
        /\ taken' = [taken EXCEPT ![q] = taken[q] \cup TokensIn(dropped[q])]
        /\ UNCHANGED <<accountTables, sessionTables, loginMemory, tokenMemory>>
    BY <1>13 DEF CascadeSessions
  <2>2. /\ taken' \in [Remover -> SUBSET Issuer]
        /\ taken'[q] = taken[q] \cup TokensIn(dropped[q])
        /\ \A r \in Remover : r # q => taken'[r] = taken[r]
    BY <1>0, <1>1, <2>1
  <2>3. \A r \in Request : r # q => taken'[q] \cap HeldTokens(r) = {}
    BY <1>5, <1>6, <2>1, <2>2 DEF WantedTokens
  <2> QED  BY <1>1, <1>2, <1>3, <1>5, <2>1, <2>2, <2>3, QuietWithdrawal
<1>14. CASE DeleteCredential(q)
  <2>1. /\ pc[q] = "sessionsGone" /\ Goto(q, "credentialDeleted") /\ UNCHANGED <<taken, dropped>>
        /\ UNCHANGED <<accountTables, sessionTables, loginMemory, tokenMemory>>
    BY <1>14 DEF DeleteCredential, rowLocks
  <2>2. \A r \in Request : r # q => A \notin HeldCredentials(r)
    BY <1>6, <1>14 DEF DeleteCredential, WantedCredentials
  <2> QED  BY <1>1, <1>2, <1>3, <1>5, <2>1, <2>2, QuietWithdrawal
<1>15. CASE CascadeCredential(q)
  <2>1. /\ pc[q] = "credentialDeleted" /\ Goto(q, "erased") /\ ~Waiting(q)
        /\ dropped' = [dropped EXCEPT ![q] = dropped[q] \cup SessionsOf(A)]
        /\ taken' = [taken EXCEPT ![q] = taken[q] \cup TokensIn(SessionsOf(A))]
        /\ UNCHANGED <<accountTables, sessionTables, loginMemory, tokenMemory>>
    BY <1>15 DEF CascadeCredential
  <2>2. /\ taken' \in [Remover -> SUBSET Issuer]
        /\ taken'[q] = taken[q] \cup TokensIn(SessionsOf(A))
        /\ \A r \in Remover : r # q => taken'[r] = taken[r]
    BY <1>0, <1>1, <2>1
  <2>3. /\ dropped' \in [Withdrawal -> SUBSET Opener]
        /\ dropped'[q] = dropped[q] \cup SessionsOf(A)
        /\ \A w \in Withdrawal : w # q => dropped'[w] = dropped[w]
    BY <1>1, <2>1
  <2>4. \A r \in Request : r # q =>
           taken'[q] \cap HeldTokens(r) = {} /\ dropped'[q] \cap HeldSessions(r) = {}
    BY <1>5, <1>6, <2>1, <2>2, <2>3 DEF WantedTokens, WantedSessions
  <2> QED  BY <1>1, <1>2, <1>3, <1>5, <2>1, <2>2, <2>3, <2>4, QuietWithdrawal
<1> QED  BY <1>7, <1>8, <1>9, <1>10, <1>11, <1>12, <1>13, <1>14, <1>15

-----------------------------------------------------------------------------
(* The commits *)

\* What the transaction of q has remembered and locked is forgotten with it.
LEMMA CommitOf ==
    ASSUME AuthInvariant, NEW q \in Request, pc[q] \notin Final, Finish(q, "done"),
           UNCHANGED <<loginMemory, tokenMemory>>, TypeOK',
           q \in Refresh => pc[q] \in {"taken", "validated"},
           q \in Logout => pc[q] = "purged",
           q \in Withdrawal => pc[q] # "start"
    PROVE  /\ OnlyMoves(q) /\ pc'[q] = "done" /\ StepsOfKind' /\ MemoryIsOfRows' /\ LocksExclude'
           /\ UNCHANGED <<account, attaching, presented, session>>
           /\ \A r \in Request : pc'[r] = "done" => r = q \/ pc[r] = "done"
<1>0. TypeOK /\ StepsOfKind /\ MemoryIsOfRows
  BY DEF AuthInvariant
<1>1. "done" \in Final
  BY DEF Final
<1>2. /\ OnlyMoves(q) /\ pc' = [pc EXCEPT ![q] = "done"] /\ pc'[q] = "done"
      /\ StepsOfKind'
      /\ HeldTokens(q)' = {} /\ HeldSessions(q)' = {} /\ HeldCredentials(q)' = {}
      /\ ~HoldsIdentityLock(q)'
      /\ q \in Withdrawal => dropped'[q] = {}
  BY <1>0, <1>1, FinishIsMine
<1>3. UNCHANGED <<account, attaching, presented, session>>
  BY DEF loginMemory, tokenMemory
<1>4. LocksExclude'
  BY <1>2, LocksStayExclusive
<1>5. MemoryIsOfRows'
  <2>1. q \in Refresh =>
           /\ presented'[q] \in Issuer /\ session'[q] \in Opener
           /\ session'[q] = SessionOf(presented'[q])
           /\ pc[presented'[q]] = "done" /\ pc[session'[q]] = "done"
    BY <1>0, <1>3 DEF MemoryIsOfRows
  <2>2. q \in Logout => session'[q] \in Opener /\ pc[session'[q]] = "done"
    BY <1>0, <1>3 DEF MemoryIsOfRows
  <2>3. q \in Withdrawal => pc[AccountOf[q]] = "done"
    BY <1>0 DEF MemoryIsOfRows, Final
  <2>4. pc'[q] \in Final
    BY <1>1, <1>2
  <2> QED  BY <1>2, <2>1, <2>2, <2>3, <2>4, MemoryStaysRight
<1>6. \A r \in Request : pc'[r] = "done" => r = q \/ pc[r] = "done"
  BY <1>2 DEF OnlyMoves
<1> QED  BY <1>2, <1>3, <1>4, <1>5, <1>6

LEMMA ErasedWithItsRows ==
    ASSUME ForeignKeysHold', \A w \in Withdrawal : pc'[w] = "done" => AccountOf[w] \notin credentials'
    PROVE  WithdrawalErasesAccount'
BY DEF ForeignKeysHold, WithdrawalErasesAccount

LEMMA AtMostOne ==
    ASSUME NEW S, \A t, u \in S : t = u
    PROVE  Cardinality(S) <= 1
<1>1. CASE S = {}
  BY <1>1, FS_EmptySet
<1>2. CASE S # {}
  <2>1. PICK t \in S : S = {t}
    BY <1>2
  <2>2. Cardinality({t}) = 1
    BY FS_Singleton
  <2> QED  BY <2>1, <2>2
<1> QED  BY <1>1, <1>2

LEMMA ExchangedOnce ==
    ASSUME OneTokenPerSession',
           \A q, r \in Refresh :
              pc'[q] = "done" /\ pc'[r] = "done" /\ presented'[q] = presented'[r] => q = r
    PROVE  TokenExchangedOnce'
<1>1. ASSUME NEW s PROVE Cardinality(TokensIn({s}))' <= 1
  <2>1. \A t, u \in TokensIn({s})' : t = u
    BY DEF OneTokenPerSession, TokensIn
  <2> QED  BY <2>1, AtMostOne
<1> QED  BY <1>1 DEF TokenExchangedOnce

LEMMA StepOfRotate ==
    ASSUME AuthInvariant, NEW q \in Refresh, Rotate(q)
    PROVE  AuthInvariant'
<1> DEFINE p == presented[q]
           s == session[q]
<1>0. /\ TypeOK /\ StepsOfKind /\ ForeignKeysHold /\ LocksExclude /\ HeldRowsAreCurrent
      /\ MemoryIsOfRows /\ LinksShareAddress /\ OneTokenPerSession /\ IdentityHasOneAccount
      /\ TokenExchangedOnce /\ LoggedOutForGood /\ WithdrawalErasesAccount
      /\ q \in Request /\ q \in Remover /\ q \in Issuer /\ q \notin Opener
  BY Kinds DEF AuthInvariant
<1>1. /\ pc[q] = "validated" /\ ~Waiting(q) /\ s \in sessions /\ OwnerOf(s) \in credentials
      /\ Finish(q, "done") /\ tokens' = (tokens \ taken[q]) \cup {q}
      /\ UNCHANGED <<loginMemory, tokenMemory, credentials, links, sessions, revoked>>
  BY DEF Rotate, accountTables
<1>2. /\ taken[q] = {p} /\ p \in tokens /\ s = SessionOf(p) /\ pc[p] = "done"
      /\ HeldTokens(q) = {p}
  BY <1>0, <1>1 DEF HeldRowsAreCurrent, MemoryIsOfRows, HeldTokens
<1>3. TypeOK'
  BY <1>0, <1>1 DEF TypeOK, Finish, loginMemory, tokenMemory
<1>4. /\ OnlyMoves(q) /\ pc'[q] = "done" /\ StepsOfKind' /\ MemoryIsOfRows' /\ LocksExclude'
      /\ UNCHANGED <<account, attaching, presented, session>>
      /\ \A r \in Request : pc'[r] = "done" => r = q \/ pc[r] = "done"
  <2>1. pc[q] \notin Final /\ q \notin Logout /\ q \notin Withdrawal
    BY <1>1, Kinds DEF Final
  <2> QED  BY <1>0, <1>1, <1>3, <2>1, CommitOf
<1>5. /\ SessionOf(q)' = s
      /\ \A t \in tokens : SessionOf(t)' = SessionOf(t) /\ t # q
      /\ \A o \in sessions : OwnerOf(o)' = OwnerOf(o)
      /\ \A c \in credentials \cup sessions \cup tokens : pc'[c] = "done"
      /\ p # q
  BY <1>0, <1>2, <1>4, SameSessions DEF SessionOf
<1>6. ForeignKeysHold'
  BY <1>0, <1>1, <1>4, <1>5 DEF ForeignKeysHold
<1>7. HeldRowsAreCurrent'
  <2>1. ASSUME NEW r \in Refresh, pc'[r] \in {"taken", "validated"}
        PROVE  taken'[r] = {presented'[r]} /\ presented'[r] \in tokens'
    <3>1. r # q /\ r \in Request /\ r \in Remover
      BY <1>4, <2>1, Kinds
    <3>2. /\ pc[r] \in {"taken", "validated"} /\ taken'[r] = taken[r]
          /\ presented'[r] = presented[r]
      BY <1>4, <2>1, <3>1 DEF OnlyMoves
    <3>3. taken[r] = {presented[r]} /\ presented[r] \in tokens /\ HeldTokens(r) = taken[r]
      BY <1>0, <3>1, <3>2 DEF HeldRowsAreCurrent, HeldTokens
    <3>4. HeldTokens(r) \cap HeldTokens(q) = {}
      BY <1>0, <3>1 DEF LocksExclude
    <3> QED  BY <1>1, <1>2, <3>2, <3>3, <3>4
  <2>2. ASSUME NEW r \in Refresh, pc'[r] = "done"
        PROVE  presented'[r] \notin tokens'
    <3>1. CASE r = q
      BY <1>1, <1>2, <1>4, <1>5, <3>1
    <3>2. CASE r # q
      <4>1. pc[r] = "done" /\ presented'[r] = presented[r]
        BY <1>4, <2>2, <3>2, Kinds DEF OnlyMoves
      <4>2. presented[r] \notin tokens /\ pc[presented[r]] = "done"
        BY <1>0, <4>1 DEF HeldRowsAreCurrent, MemoryIsOfRows
      <4>3. presented[r] # q
        BY <1>1, <4>2
      <4> QED  BY <1>1, <4>1, <4>2, <4>3
    <3> QED  BY <3>1, <3>2
  <2>3. ASSUME NEW o \in Logout, pc'[o] \in {"revoking", "selected", "purged"}
        PROVE  session'[o] \in sessions'
    BY <1>0, <1>1, <1>4, <2>3, Kinds DEF OnlyMoves, HeldRowsAreCurrent
  <2>4. ASSUME NEW l \in Login, pc'[l] = "flushed"
        PROVE  account'[l] \in credentials'
    BY <1>0, <1>1, <1>4, <2>4, Kinds DEF OnlyMoves, HeldRowsAreCurrent
  <2>5. ASSUME NEW l \in attaching', pc'[l] \in {"found", "flushed"}
        PROVE  \A k \in links' : k[1] # Me(l)
    BY <1>0, <1>1, <1>4, <2>5, Kinds DEF OnlyMoves, HeldRowsAreCurrent, TypeOK
  <2>6. ASSUME NEW w \in Withdrawal, pc'[w] = "erased"
        PROVE  /\ SessionsOf(AccountOf[w])' \subseteq dropped'[w]
               /\ TokensIn(SessionsOf(AccountOf[w]))' \subseteq taken'[w]
    <3>1. /\ w # q /\ w \in Request /\ w \in Remover /\ pc[w] = "erased"
          /\ dropped'[w] = dropped[w] /\ taken'[w] = taken[w]
      BY <1>4, <2>6, Kinds DEF OnlyMoves
    <3>2. /\ SessionsOf(AccountOf[w]) \subseteq dropped[w]
          /\ TokensIn(SessionsOf(AccountOf[w])) \subseteq taken[w]
      BY <1>0, <3>1 DEF HeldRowsAreCurrent
    <3>3. SessionsOf(AccountOf[w])' = SessionsOf(AccountOf[w])
      BY <1>1, <1>5 DEF SessionsOf
    <3>4. s \notin dropped[w]
      <4>1. SharedSessions(q) \cap HeldSessions(w) = {}
        BY <1>1, <3>1 DEF Waiting, WaitsFor
      <4> QED  BY <1>1, <4>1 DEF SharedSessions, HeldSessions
    <3>5. TokensIn(SessionsOf(AccountOf[w]))' \subseteq TokensIn(SessionsOf(AccountOf[w]))
      BY <1>1, <1>5, <3>2, <3>3, <3>4 DEF TokensIn
    <3> QED  BY <3>1, <3>2, <3>3, <3>5
  <2> QED  BY <2>1, <2>2, <2>3, <2>4, <2>5, <2>6 DEF HeldRowsAreCurrent, Me
<1>8. LinksShareAddress'
  <2>1. ASSUME NEW l \in attaching', pc'[l] \in {"found", "flushed"}
        PROVE  SharesAddress(Me(l), account'[l])
    BY <1>0, <1>4, <2>1, Kinds DEF OnlyMoves, LinksShareAddress, TypeOK
  <2> QED  BY <1>0, <1>1, <2>1 DEF LinksShareAddress, SharesAddress, Me, HasVerifiedEmail
<1>9. OneTokenPerSession'
  <2>1. \A t \in tokens \ {p} : SessionOf(t) # s
    BY <1>0, <1>2 DEF OneTokenPerSession
  <2> QED  BY <1>0, <1>1, <1>2, <1>5, <2>1 DEF OneTokenPerSession
<1>10. IdentityHasOneAccount'
  BY <1>0, <1>1 DEF IdentityHasOneAccount
<1>11. TokenExchangedOnce'
  <2>1. ASSUME NEW r \in Refresh, r # q, pc'[r] = "done"
        PROVE  /\ pc[r] = "done" /\ presented'[r] = presented[r] /\ presented[r] # p
    <3>1. pc[r] = "done" /\ presented'[r] = presented[r]
      BY <1>4, <2>1, Kinds DEF OnlyMoves
    <3> QED  BY <1>0, <1>2, <3>1 DEF HeldRowsAreCurrent
  <2>2. \A a, b \in Refresh :
           pc'[a] = "done" /\ pc'[b] = "done" /\ presented'[a] = presented'[b] => a = b
    BY <1>0, <1>4, <2>1 DEF TokenExchangedOnce
  <2> QED  BY <1>9, <2>2, ExchangedOnce
<1>12. LoggedOutForGood'
  BY <1>0, <1>1, <1>4, Kinds DEF LoggedOutForGood
<1>13. WithdrawalErasesAccount'
  <2>1. \A w \in Withdrawal : pc'[w] = "done" => AccountOf[w] \notin credentials'
    BY <1>0, <1>1, <1>4, Kinds DEF WithdrawalErasesAccount
  <2> QED  BY <1>6, <2>1, ErasedWithItsRows
<1> QED  BY <1>3, <1>4, <1>6, <1>7, <1>8, <1>9, <1>10, <1>11, <1>12, <1>13 DEF AuthInvariant

\* A logout or withdrawal removes the rows it has locked, and no others.
LEMMA RemovalStep ==
    ASSUME AuthInvariant, NEW q \in Logout \cup Withdrawal, pc[q] \notin Final,
           Finish(q, "done"), UNCHANGED <<loginMemory, tokenMemory>>,
           TypeOK', ForeignKeysHold',
           tokens' = tokens \ HeldTokens(q),
           sessions' \subseteq sessions, sessions \ sessions' \subseteq HeldSessions(q),
           credentials' \subseteq credentials,
           credentials \ credentials' \subseteq HeldCredentials(q),
           links' \subseteq links,
           sessions' \ revoked' \subseteq sessions \ revoked,
           q \in Logout => pc[q] = "purged" /\ session[q] \notin sessions' \ revoked',
           q \in Withdrawal => pc[q] # "start" /\ AccountOf[q] \notin credentials'
    PROVE  AuthInvariant'
<1>0. /\ TypeOK /\ StepsOfKind /\ ForeignKeysHold /\ LocksExclude /\ HeldRowsAreCurrent
      /\ MemoryIsOfRows /\ LinksShareAddress /\ OneTokenPerSession /\ IdentityHasOneAccount
      /\ TokenExchangedOnce /\ LoggedOutForGood /\ WithdrawalErasesAccount
      /\ q \in Request /\ q \notin Refresh /\ q \notin Login
  BY Kinds DEF AuthInvariant
<1>1. /\ OnlyMoves(q) /\ pc'[q] = "done" /\ StepsOfKind' /\ MemoryIsOfRows' /\ LocksExclude'
      /\ UNCHANGED <<account, attaching, presented, session>>
      /\ \A r \in Request : pc'[r] = "done" => r = q \/ pc[r] = "done"
  BY <1>0, CommitOf
<1>2. /\ \A t \in tokens : SessionOf(t)' = SessionOf(t)
      /\ \A s \in sessions : OwnerOf(s)' = OwnerOf(s)
  BY <1>0, <1>1, SameSessions
<1>3. \A r \in Request : r # q =>
         /\ HeldTokens(r) \cap HeldTokens(q) = {} /\ HeldSessions(r) \cap HeldSessions(q) = {}
         /\ HeldCredentials(r) \cap HeldCredentials(q) = {}
  BY <1>0 DEF LocksExclude
<1>4. HeldRowsAreCurrent'
  <2>1. ASSUME NEW r \in Refresh, pc'[r] \in {"taken", "validated"}
        PROVE  taken'[r] = {presented'[r]} /\ presented'[r] \in tokens'
    <3>1. /\ r # q /\ r \in Request /\ r \in Remover
          /\ pc[r] \in {"taken", "validated"} /\ taken'[r] = taken[r]
          /\ presented'[r] = presented[r]
      BY <1>0, <1>1, <2>1, Kinds DEF OnlyMoves
    <3>2. taken[r] = {presented[r]} /\ presented[r] \in tokens /\ HeldTokens(r) = taken[r]
      BY <1>0, <3>1 DEF HeldRowsAreCurrent, HeldTokens
    <3> QED  BY <1>3, <3>1, <3>2
  <2>2. ASSUME NEW r \in Refresh, pc'[r] = "done"
        PROVE  presented'[r] \notin tokens'
    BY <1>0, <1>1, <2>2, Kinds DEF OnlyMoves, HeldRowsAreCurrent
  <2>3. ASSUME NEW o \in Logout, pc'[o] \in {"revoking", "selected", "purged"}
        PROVE  session'[o] \in sessions'
    <3>1. o # q /\ o \in Request /\ pc[o] = pc'[o] /\ session'[o] = session[o]
      BY <1>1, <2>3, Kinds DEF OnlyMoves
    <3>2. session[o] \in sessions /\ session[o] \in HeldSessions(o)
      BY <1>0, <2>3, <3>1, Kinds DEF HeldRowsAreCurrent, HeldSessions
    <3> QED  BY <1>3, <3>1, <3>2
  <2>4. ASSUME NEW l \in Login, pc'[l] = "flushed"
        PROVE  account'[l] \in credentials'
    <3>1. l # q /\ l \in Request /\ pc[l] = "flushed" /\ account'[l] = account[l]
      BY <1>1, <2>4, Kinds DEF OnlyMoves
    <3>2. account[l] \in credentials /\ account[l] \in HeldCredentials(l)
      BY <1>0, <3>1 DEF HeldRowsAreCurrent, HeldCredentials
    <3> QED  BY <1>3, <3>1, <3>2
  <2>5. ASSUME NEW l \in attaching', pc'[l] \in {"found", "flushed"}
        PROVE  \A k \in links' : k[1] # Me(l)
    BY <1>0, <1>1, <2>5, Kinds DEF OnlyMoves, HeldRowsAreCurrent, TypeOK
  <2>6. ASSUME NEW w \in Withdrawal, pc'[w] = "erased"
        PROVE  /\ SessionsOf(AccountOf[w])' \subseteq dropped'[w]
               /\ TokensIn(SessionsOf(AccountOf[w]))' \subseteq taken'[w]
    <3>1. /\ w # q /\ w \in Request /\ w \in Remover /\ pc[w] = "erased"
          /\ dropped'[w] = dropped[w] /\ taken'[w] = taken[w]
      BY <1>1, <2>6, Kinds DEF OnlyMoves
    <3>2. /\ SessionsOf(AccountOf[w]) \subseteq dropped[w]
          /\ TokensIn(SessionsOf(AccountOf[w])) \subseteq taken[w]
      BY <1>0, <3>1 DEF HeldRowsAreCurrent
    <3>3. SessionsOf(AccountOf[w])' \subseteq SessionsOf(AccountOf[w])
      BY <1>2 DEF SessionsOf
    <3>4. TokensIn(SessionsOf(AccountOf[w]))' \subseteq TokensIn(SessionsOf(AccountOf[w]))
      BY <1>2, <3>3 DEF TokensIn
    <3> QED  BY <3>1, <3>2, <3>3, <3>4
  <2> QED  BY <2>1, <2>2, <2>3, <2>4, <2>5, <2>6 DEF HeldRowsAreCurrent, Me
<1>5. LinksShareAddress'
  <2>1. ASSUME NEW l \in attaching', pc'[l] \in {"found", "flushed"}
        PROVE  SharesAddress(Me(l), account'[l])
    BY <1>0, <1>1, <2>1, Kinds DEF OnlyMoves, LinksShareAddress, TypeOK
  <2> QED  BY <1>0, <2>1 DEF LinksShareAddress, SharesAddress, Me, HasVerifiedEmail
<1>6. OneTokenPerSession'
  BY <1>0, <1>2 DEF OneTokenPerSession
<1>7. IdentityHasOneAccount'
  BY <1>0 DEF IdentityHasOneAccount
<1>8. TokenExchangedOnce'
  <2>1. \A r \in Refresh : pc'[r] = "done" => pc[r] = "done" /\ presented'[r] = presented[r]
    BY <1>0, <1>1, Kinds DEF OnlyMoves
  <2>2. \A a, b \in Refresh :
           pc'[a] = "done" /\ pc'[b] = "done" /\ presented'[a] = presented'[b] => a = b
    BY <1>0, <2>1 DEF TokenExchangedOnce
  <2> QED  BY <1>6, <2>2, ExchangedOnce
<1>9. LoggedOutForGood'
  <2>1. ASSUME NEW o \in Logout, pc'[o] = "done" PROVE session'[o] \notin sessions' \ revoked'
    BY <1>0, <1>1, <2>1, Kinds DEF LoggedOutForGood
  <2> QED  BY <2>1 DEF LoggedOutForGood
<1>10. WithdrawalErasesAccount'
  <2>1. \A w \in Withdrawal : pc'[w] = "done" => AccountOf[w] \notin credentials'
    BY <1>0, <1>1, Kinds DEF WithdrawalErasesAccount
  <2> QED  BY <2>1, ErasedWithItsRows
<1> QED  BY <1>1, <1>4, <1>5, <1>6, <1>7, <1>8, <1>9, <1>10 DEF AuthInvariant

LEMMA StepOfCommitLogout ==
    ASSUME AuthInvariant, NEW q \in Logout, CommitLogout(q)
    PROVE  AuthInvariant'
<1>0. /\ TypeOK /\ StepsOfKind /\ ForeignKeysHold /\ HeldRowsAreCurrent /\ q \in Request
      /\ q \in Remover /\ q \notin Withdrawal
  BY Kinds DEF AuthInvariant
<1>1. /\ pc[q] = "purged" /\ Finish(q, "done") /\ pc[q] \notin Final
      /\ revoked' = revoked \cup {session[q]} /\ tokens' = tokens \ taken[q]
      /\ UNCHANGED <<loginMemory, tokenMemory, credentials, links, sessions>>
  BY DEF CommitLogout, accountTables, Final
<1>2. session[q] \in sessions /\ HeldTokens(q) = taken[q]
  BY <1>0, <1>1 DEF HeldRowsAreCurrent, HeldTokens
<1>3. TypeOK'
  BY <1>0, <1>1, <1>2 DEF TypeOK, Finish, loginMemory, tokenMemory
<1>4. OnlyMoves(q)
  <2>1. "done" \in Final
    BY DEF Final
  <2> QED  BY <1>0, <1>1, <2>1, FinishIsMine
<1>5. ForeignKeysHold'
  <2>1. /\ \A t \in tokens : SessionOf(t)' = SessionOf(t)
        /\ \A s \in sessions : OwnerOf(s)' = OwnerOf(s)
        /\ \A c \in credentials \cup sessions \cup tokens : pc'[c] = "done"
    BY <1>0, <1>4, SameSessions
  <2> QED  BY <1>0, <1>1, <2>1 DEF ForeignKeysHold
<1>6. /\ sessions' \subseteq sessions /\ sessions \ sessions' \subseteq HeldSessions(q)
      /\ credentials' \subseteq credentials
      /\ credentials \ credentials' \subseteq HeldCredentials(q)
      /\ links' \subseteq links
      /\ sessions' \ revoked' \subseteq sessions \ revoked
      /\ session[q] \notin sessions' \ revoked'
  BY <1>1
<1> QED  BY <1>0, <1>1, <1>2, <1>3, <1>5, <1>6, RemovalStep

LEMMA StepOfCommitWithdrawal ==
    ASSUME AuthInvariant, NEW q \in Withdrawal, CommitWithdrawal(q)
    PROVE  AuthInvariant'
<1> DEFINE A == AccountOf[q]
<1>0. /\ TypeOK /\ StepsOfKind /\ ForeignKeysHold /\ HeldRowsAreCurrent /\ MemoryIsOfRows
      /\ q \in Request /\ q \in Remover /\ q \notin Logout
  BY Kinds DEF AuthInvariant
<1>1. /\ pc[q] = "erased" /\ Finish(q, "done") /\ pc[q] \notin Final
      /\ credentials' = credentials \ {A} /\ links' = {k \in links : k[2] # A}
      /\ sessions' = sessions \ dropped[q] /\ revoked' = revoked \ dropped[q]
      /\ tokens' = tokens \ taken[q]
      /\ UNCHANGED <<loginMemory, tokenMemory>>
  BY DEF CommitWithdrawal, Final
<1>2. /\ SessionsOf(A) \subseteq dropped[q] /\ TokensIn(SessionsOf(A)) \subseteq taken[q]
      /\ HeldTokens(q) = taken[q] /\ HeldSessions(q) = dropped[q] /\ HeldCredentials(q) = {A}
      /\ \A s \in dropped[q] : OwnerOf(s) = A
  BY <1>0, <1>1, Kinds DEF HeldRowsAreCurrent, MemoryIsOfRows, HeldTokens, HeldSessions,
     HeldCredentials
<1>3. TypeOK'
  BY <1>0, <1>1 DEF TypeOK, Finish, loginMemory, tokenMemory
<1>4. OnlyMoves(q)
  <2>1. "done" \in Final
    BY DEF Final
  <2> QED  BY <1>0, <1>1, <2>1, FinishIsMine
<1>5. ForeignKeysHold'
  <2>1. /\ \A t \in tokens : SessionOf(t)' = SessionOf(t)
        /\ \A s \in sessions : OwnerOf(s)' = OwnerOf(s)
        /\ \A c \in credentials \cup sessions \cup tokens : pc'[c] = "done"
    BY <1>0, <1>4, SameSessions
  <2>2. ASSUME NEW s \in sessions' PROVE OwnerOf(s)' \in credentials'
    BY <1>0, <1>1, <1>2, <2>1, <2>2 DEF ForeignKeysHold, SessionsOf
  <2>3. ASSUME NEW t \in tokens' PROVE SessionOf(t)' \in sessions'
    <3>1. t \in tokens /\ t \notin taken[q] /\ SessionOf(t) \in sessions
      BY <1>0, <1>1, <2>3 DEF ForeignKeysHold
    <3>2. SessionOf(t) \notin SessionsOf(A)
      BY <1>2, <3>1 DEF TokensIn
    <3>3. SessionOf(t) \notin dropped[q]
      BY <1>2, <3>1, <3>2 DEF SessionsOf
    <3> QED  BY <1>1, <2>1, <3>1, <3>3
  <2> QED  BY <1>0, <1>1, <2>1, <2>2, <2>3 DEF ForeignKeysHold
<1>6. /\ sessions' \subseteq sessions /\ sessions \ sessions' \subseteq HeldSessions(q)
      /\ credentials' \subseteq credentials
      /\ credentials \ credentials' \subseteq HeldCredentials(q)
      /\ links' \subseteq links
      /\ sessions' \ revoked' \subseteq sessions \ revoked
      /\ pc[q] # "start" /\ AccountOf[q] \notin credentials'
      /\ tokens' = tokens \ HeldTokens(q)
  BY <1>1, <1>2
<1> QED  BY <1>0, <1>1, <1>3, <1>5, <1>6, RemovalStep

\* A sign-up or login opens a session of the account c.
LEMMA OpeningStep ==
    ASSUME AuthInvariant, NEW q \in Opener, pc[q] \notin Final, HoldsIdentityLock(q),
           Finish(q, "done"), UNCHANGED <<revoked, loginMemory, tokenMemory>>,
           NEW c \in SignUp, OwnerOf(q)' = c, pc'[c] = "done",
           credentials' = credentials \cup {c},
           links' \in {links, links \cup {<<Me(q), c>>}},
           links' = links \/ \A k \in links : k[1] # Me(q),
           Me(q) = Me(c) \/ SharesAddress(Me(q), c) \/ links' = links,
           sessions' = sessions \cup {q}, tokens' = tokens \cup {q},
           \A w \in Withdrawal : pc[w] \in {"erased", "done"} => AccountOf[w] # c
    PROVE  AuthInvariant'
<1>0. /\ TypeOK /\ StepsOfKind /\ ForeignKeysHold /\ LocksExclude /\ HeldRowsAreCurrent
      /\ MemoryIsOfRows /\ LinksShareAddress /\ OneTokenPerSession /\ IdentityHasOneAccount
      /\ TokenExchangedOnce /\ LoggedOutForGood /\ WithdrawalErasesAccount
      /\ q \in Request /\ q \in Issuer /\ q \notin Remover /\ q \notin Refresh
      /\ q \notin Logout /\ q \notin Withdrawal /\ Me(q) \in Identity
  BY RowsAreRequests, Kinds, IdentitiesAssumption DEF AuthInvariant, Me
<1>1. TypeOK'
  BY <1>0 DEF TypeOK, Finish, loginMemory, tokenMemory
<1>2. /\ OnlyMoves(q) /\ pc'[q] = "done" /\ StepsOfKind' /\ MemoryIsOfRows' /\ LocksExclude'
      /\ UNCHANGED <<account, attaching, presented, session>>
      /\ \A r \in Request : pc'[r] = "done" => r = q \/ pc[r] = "done"
  BY <1>0, <1>1, CommitOf
<1>3. /\ SessionOf(q)' = q
      /\ \A t \in tokens : SessionOf(t)' = SessionOf(t) /\ t # q
      /\ \A s \in sessions : OwnerOf(s)' = OwnerOf(s) /\ s # q
      /\ \A r \in credentials \cup sessions \cup tokens : pc'[r] = "done"
  BY <1>0, <1>2, SameSessions DEF SessionOf
<1>4. ForeignKeysHold'
  <2>1. \A k \in links' : k[2] \in credentials'
    BY <1>0 DEF ForeignKeysHold
  <2> QED  BY <1>0, <1>2, <1>3, <2>1 DEF ForeignKeysHold
<1>5. ASSUME NEW l \in attaching', pc'[l] \in {"found", "flushed"}
      PROVE  (\A k \in links' : k[1] # Me(l)) /\ SharesAddress(Me(l), account'[l])
  <2>1. l # q /\ l \in Opener /\ l \in attaching /\ pc[l] = pc'[l] /\ account'[l] = account[l]
    BY <1>1, <1>2, <1>5, Kinds DEF OnlyMoves, TypeOK
  <2>2. Me(l) # Me(q)
    BY <1>0, <1>5, <2>1 DEF LocksExclude, HoldsIdentityLock
  <2>3. (\A k \in links : k[1] # Me(l)) /\ SharesAddress(Me(l), account[l])
    BY <1>0, <1>5, <2>1 DEF HeldRowsAreCurrent, LinksShareAddress
  <2> QED  BY <2>1, <2>2, <2>3
<1>6. HeldRowsAreCurrent'
  <2>1. ASSUME NEW r \in Refresh
        PROVE  /\ pc'[r] \in {"taken", "validated"} =>
                     taken'[r] = {presented'[r]} /\ presented'[r] \in tokens'
               /\ pc'[r] = "done" => presented'[r] \notin tokens'
    <3>1. r # q /\ pc'[r] = pc[r] /\ presented'[r] = presented[r] /\ taken'[r] = taken[r]
      BY <1>0, <1>2, Kinds DEF OnlyMoves
    <3>2. pc[r] = "done" => presented[r] # q
      BY <1>0 DEF MemoryIsOfRows, Final
    <3> QED  BY <1>0, <3>1, <3>2 DEF HeldRowsAreCurrent
  <2>2. ASSUME NEW o \in Logout, pc'[o] \in {"revoking", "selected", "purged"}
        PROVE  session'[o] \in sessions'
    BY <1>0, <1>2, <2>2, Kinds DEF OnlyMoves, HeldRowsAreCurrent
  <2>3. ASSUME NEW l \in Login, pc'[l] = "flushed"
        PROVE  account'[l] \in credentials'
    BY <1>0, <1>2, <2>3, Kinds DEF OnlyMoves, HeldRowsAreCurrent
  <2>4. ASSUME NEW w \in Withdrawal, pc'[w] = "erased"
        PROVE  /\ SessionsOf(AccountOf[w])' \subseteq dropped'[w]
               /\ TokensIn(SessionsOf(AccountOf[w]))' \subseteq taken'[w]
    <3>1. /\ w # q /\ w \in Request /\ w \in Remover /\ pc[w] = "erased"
          /\ dropped'[w] = dropped[w] /\ taken'[w] = taken[w] /\ AccountOf[w] # c
      BY <1>2, <2>4, Kinds DEF OnlyMoves
    <3>2. /\ SessionsOf(AccountOf[w]) \subseteq dropped[w]
          /\ TokensIn(SessionsOf(AccountOf[w])) \subseteq taken[w]
      BY <1>0, <3>1 DEF HeldRowsAreCurrent
    <3>3. SessionsOf(AccountOf[w])' = SessionsOf(AccountOf[w])
      BY <1>3, <3>1 DEF SessionsOf
    <3>4. q \notin SessionsOf(AccountOf[w])
      BY <1>3 DEF SessionsOf
    <3>5. TokensIn(SessionsOf(AccountOf[w]))' \subseteq TokensIn(SessionsOf(AccountOf[w]))
      BY <1>3, <3>3, <3>4 DEF TokensIn
    <3> QED  BY <3>1, <3>2, <3>3, <3>5
  <2> QED  BY <1>5, <2>1, <2>2, <2>3, <2>4 DEF HeldRowsAreCurrent, Me
<1>7. LinksShareAddress'
  <2>1. \A k \in links' : k[1] = Me(k[2]) \/ SharesAddress(k[1], k[2])
    BY <1>0 DEF LinksShareAddress
  <2> QED  BY <1>5, <2>1 DEF LinksShareAddress, SharesAddress, Me, HasVerifiedEmail
<1>8. OneTokenPerSession'
  <2>1. \A t \in tokens : SessionOf(t) # q
    BY <1>0, <1>3 DEF ForeignKeysHold
  <2> QED  BY <1>0, <1>3, <2>1 DEF OneTokenPerSession
<1>9. IdentityHasOneAccount'
  BY <1>0 DEF IdentityHasOneAccount
<1>10. TokenExchangedOnce'
  <2>1. \A r \in Refresh : pc'[r] = pc[r] /\ presented'[r] = presented[r]
    BY <1>0, <1>2, Kinds DEF OnlyMoves
  <2>2. \A a, b \in Refresh :
           pc'[a] = "done" /\ pc'[b] = "done" /\ presented'[a] = presented'[b] => a = b
    BY <1>0, <2>1 DEF TokenExchangedOnce
  <2> QED  BY <1>8, <2>2, ExchangedOnce
<1>11. LoggedOutForGood'
  <2>1. ASSUME NEW o \in Logout, pc'[o] = "done" PROVE session'[o] \notin sessions' \ revoked'
    <3>1. pc[o] = "done" /\ session'[o] = session[o]
      BY <1>0, <1>2, <2>1, Kinds
    <3>2. session[o] \notin sessions \ revoked /\ session[o] # q
      BY <1>0, <3>1 DEF LoggedOutForGood, MemoryIsOfRows, Final
    <3> QED  BY <3>1, <3>2
  <2> QED  BY <2>1 DEF LoggedOutForGood
<1>12. WithdrawalErasesAccount'
  <2>1. \A w \in Withdrawal : pc'[w] = "done" => AccountOf[w] \notin credentials'
    BY <1>0, <1>2, Kinds DEF WithdrawalErasesAccount
  <2> QED  BY <1>4, <2>1, ErasedWithItsRows
<1> QED  BY <1>1, <1>2, <1>4, <1>6, <1>7, <1>8, <1>9, <1>10, <1>11, <1>12 DEF AuthInvariant

LEMMA StepOfCreateAccount ==
    ASSUME AuthInvariant, NEW q \in Opener, CreateAccount(q)
    PROVE  AuthInvariant'
<1>0. /\ TypeOK /\ StepsOfKind /\ ForeignKeysHold /\ MemoryIsOfRows
      /\ q \in SignUp /\ q \in Request /\ q \notin Login /\ Me(q) \in Identity
  BY Kinds, IdentitiesAssumption DEF AuthInvariant, CreateAccount, Me
<1>1. /\ pc[q] = "locked" /\ pc[q] \notin Final /\ HoldsIdentityLock(q) /\ Linked(Me(q)) = {}
      /\ Finish(q, "done") /\ UNCHANGED <<revoked, loginMemory, tokenMemory>>
      /\ credentials' = credentials \cup {q} /\ links' = links \cup {<<Me(q), q>>}
      /\ sessions' = sessions \cup {q} /\ tokens' = tokens \cup {q}
  BY DEF CreateAccount, Final, HoldsIdentityLock
<1>2. OwnerOf(q)' = q
  BY <1>0 DEF OwnerOf
<1>3. pc'[q] = "done"
  BY <1>0, <1>1 DEF Finish, StepsOfKind
<1>4. \A k \in links : k[1] # Me(q)
  BY <1>0, <1>1, NotLinked
<1>5. \A w \in Withdrawal : pc[w] \in {"erased", "done"} => AccountOf[w] # q
  BY <1>0, <1>1 DEF MemoryIsOfRows
<1> QED  BY <1>0, <1>1, <1>2, <1>3, <1>4, <1>5, OpeningStep

LEMMA StepOfCommitLogin ==
    ASSUME AuthInvariant, NEW q \in Opener, CommitLogin(q)
    PROVE  AuthInvariant'
<1> DEFINE c == account[q]
<1>0. /\ TypeOK /\ StepsOfKind /\ ForeignKeysHold /\ MemoryIsOfRows /\ LocksExclude
      /\ HeldRowsAreCurrent /\ LinksShareAddress /\ WithdrawalErasesAccount /\ q \in Request
  BY RowsAreRequests DEF AuthInvariant
<1>1. /\ pc[q] = "flushed" /\ pc[q] \notin Final /\ HoldsIdentityLock(q)
      /\ Finish(q, "done") /\ UNCHANGED <<credentials, revoked, loginMemory, tokenMemory>>
      /\ links' = IF q \in attaching THEN links \cup {<<Me(q), c>>} ELSE links
      /\ sessions' = sessions \cup {q} /\ tokens' = tokens \cup {q}
  BY DEF CommitLogin, Final, HoldsIdentityLock
<1>2. q \in Login
  BY <1>0, <1>1, RowsAreRequests DEF StepsOfKind, SignUpPC, Final
<1>3. c \in credentials /\ c \in SignUp /\ HeldCredentials(q) = {c} /\ pc[c] = "done"
  BY <1>0, <1>1, <1>2 DEF HeldRowsAreCurrent, HeldCredentials, TypeOK, ForeignKeysHold
<1>4. credentials' = credentials \cup {c}
  BY <1>1, <1>3
<1>5. OwnerOf(q)' = c
  BY <1>1, <1>2 DEF OwnerOf, loginMemory
<1>6. pc'[c] = "done"
  BY <1>0, <1>1, <1>3, Kinds DEF Finish, StepsOfKind
<1>7. q \in attaching => (\A k \in links : k[1] # Me(q)) /\ SharesAddress(Me(q), c)
  BY <1>0, <1>1 DEF HeldRowsAreCurrent, LinksShareAddress
<1>8. ASSUME NEW w \in Withdrawal, pc[w] \in {"erased", "done"} PROVE AccountOf[w] # c
  <2>1. CASE pc[w] = "erased"
    <3>1. /\ w # q /\ w \in Request /\ w \notin Login /\ HeldCredentials(w) = {AccountOf[w]}
      BY <1>2, <2>1, Kinds DEF HeldCredentials
    <3>2. HeldCredentials(q) \cap HeldCredentials(w) = {}
      BY <1>0, <3>1 DEF LocksExclude
    <3> QED  BY <1>3, <3>1, <3>2
  <2>2. CASE pc[w] = "done"
    BY <1>0, <1>3, <2>2 DEF WithdrawalErasesAccount
  <2> QED  BY <1>8, <2>1, <2>2
<1>9. links' \in {links, links \cup {<<Me(q), c>>}}
  BY <1>1
<1>10. links' = links \/ \A k \in links : k[1] # Me(q)
  BY <1>1, <1>7
<1>11. SharesAddress(Me(q), c) \/ links' = links
  BY <1>1, <1>7
<1> HIDE DEF c
<1> QED  BY <1>1, <1>3, <1>4, <1>5, <1>6, <1>8, <1>9, <1>10, <1>11, OpeningStep

-----------------------------------------------------------------------------
(* The theorems *)

LEMMA InitIsRight == Init => AuthInvariant
<1> SUFFICES ASSUME Init PROVE AuthInvariant
  OBVIOUS
<1> USE DEF Init, EarlierRows, NothingInMemory
<1>0. /\ \A r \in Request : pc[r] = IF r \in Registered THEN "done" ELSE "start"
      /\ Registered \subseteq SignUp /\ Nobody \notin Request
      /\ \A s \in SignUp : s \in Request /\ Me(s) \in Identity
      /\ \A s \in Registered : OwnerOf(s) = s /\ SessionOf(s) = s /\ pc[s] = "done"
      /\ \A r \in Request \ SignUp : pc[r] = "start"
  BY KindsAssumption, Kinds, IdentitiesAssumption DEF OwnerOf, SessionOf, Me
<1>1. TypeOK
  BY <1>0, Kinds DEF TypeOK
<1>2. StepsOfKind
  BY <1>0, Kinds DEF StepsOfKind, SignUpPC, LoginPC, RefreshPC, LogoutPC, WithdrawalPC, Final
<1>3. ForeignKeysHold
  BY <1>0 DEF ForeignKeysHold
<1>4. MemoryIsOfRows
  BY <1>0, Kinds DEF MemoryIsOfRows
<1>5. LocksExclude
  <2>1. \A r \in Request : /\ ~HoldsIdentityLock(r) /\ HeldTokens(r) = {}
                           /\ HeldSessions(r) = {} /\ HeldCredentials(r) = {}
    BY <1>0 DEF HoldsIdentityLock, HeldTokens, HeldSessions, HeldCredentials
  <2> QED  BY <2>1, RowsAreRequests DEF LocksExclude
<1>6. HeldRowsAreCurrent
  BY <1>0, Kinds DEF HeldRowsAreCurrent
<1>7. LinksShareAddress
  BY <1>0 DEF LinksShareAddress
<1>8. OneTokenPerSession
  BY <1>0 DEF OneTokenPerSession
<1>9. IdentityHasOneAccount
  BY IdentitiesAssumption DEF IdentityHasOneAccount, Me
<1>10. TokenExchangedOnce
  <2>1. ASSUME NEW s PROVE Cardinality(TokensIn({s})) <= 1
    <3>1. \A t, u \in TokensIn({s}) : t = u
      BY <1>8 DEF OneTokenPerSession, TokensIn
    <3> QED  BY <3>1, AtMostOne
  <2>2. \A r \in Refresh : pc[r] # "done"
    BY <1>0, Kinds
  <2> QED  BY <2>1, <2>2 DEF TokenExchangedOnce
<1>11. LoggedOutForGood
  BY <1>0, Kinds DEF LoggedOutForGood
<1>12. WithdrawalErasesAccount
  BY <1>0, Kinds DEF WithdrawalErasesAccount
<1> QED  BY <1>1, <1>2, <1>3, <1>4, <1>5, <1>6, <1>7, <1>8, <1>9, <1>10, <1>11, <1>12
         DEF AuthInvariant

LEMMA RollBack ==
    ASSUME AuthInvariant, NEW q \in Request, Abort(q)
    PROVE  AuthInvariant'
<1>1. "failed" \in Final /\ "failed" # "done"
  BY DEF Final
<1> QED  BY <1>1, NothingDone DEF Abort

LEMMA StepIsRight ==
    ASSUME AuthInvariant, NEW q \in Request, Step(q)
    PROVE  AuthInvariant'
<1>1. CASE q \in SignUp /\ CheckNewUser(q)
  BY <1>1, Kinds, StepOfAccount
<1>2. CASE q \in Opener /\ AccountStep(q)
  BY <1>2, StepOfAccount, StepOfCreateAccount, StepOfCommitLogin DEF AccountStep
<1>3. CASE q \in Refresh /\ RefreshStep(q)
  BY <1>3, StepOfRefresh, StepOfRotate DEF RefreshStep
<1>4. CASE q \in Logout /\ LogoutStep(q)
  BY <1>4, StepOfLogout, StepOfCommitLogout DEF LogoutStep
<1>5. CASE q \in Withdrawal /\ WithdrawalStep(q)
  BY <1>5, StepOfWithdrawal, StepOfCommitWithdrawal DEF WithdrawalStep
<1> QED  BY <1>1, <1>2, <1>3, <1>4, <1>5 DEF Step

LEMMA NextIsRight ==
    ASSUME AuthInvariant, [Next]_vars
    PROVE  AuthInvariant'
<1>1. CASE \E r \in Request : Step(r) \/ Abort(r)
  BY <1>1, StepIsRight, RollBack
<1>2. CASE \E w \in Withdrawal, r \in Remover : BreakDeadlock(w, r)
  <2>1. PICK w \in Withdrawal, r \in Remover : Abort(w) \/ Abort(r)
    BY <1>2 DEF BreakDeadlock
  <2> QED  BY <2>1, RollBack DEF Request, Remover
<1>3. CASE UNCHANGED vars
  <2> USE <1>3 DEF vars, accountTables, sessionTables, loginMemory, tokenMemory, rowLocks
  <2> USE DEF AuthInvariant
  <2>1. TypeOK' /\ StepsOfKind'
    BY DEF TypeOK, StepsOfKind
  <2>2. ForeignKeysHold' /\ MemoryIsOfRows'
    BY DEF ForeignKeysHold, MemoryIsOfRows, OwnerOf, SessionOf
  <2>3. LocksExclude'
    BY DEF LocksExclude, HoldsIdentityLock, HeldTokens, HeldSessions, HeldCredentials, Me
  <2>4. HeldRowsAreCurrent'
    BY DEF HeldRowsAreCurrent, TokensIn, SessionsOf, SessionOf, OwnerOf, Me
  <2>5. LinksShareAddress' /\ OneTokenPerSession' /\ IdentityHasOneAccount'
    BY DEF LinksShareAddress, SharesAddress, HasVerifiedEmail, OneTokenPerSession, SessionOf,
       IdentityHasOneAccount, Me
  <2>6. TokenExchangedOnce' /\ LoggedOutForGood' /\ WithdrawalErasesAccount'
    BY DEF TokenExchangedOnce, TokensIn, LoggedOutForGood, WithdrawalErasesAccount, OwnerOf,
       SessionOf
  <2> QED  BY <2>1, <2>2, <2>3, <2>4, <2>5, <2>6
<1> QED  BY <1>1, <1>2, <1>3 DEF Next

\* The strengthening, for any sign-ups, logins, refreshes, logouts and
\* withdrawals that overlap in any order (credential_repository.py:145-272).
THEOREM AuthInvariantHolds == Spec => []AuthInvariant
<1>1. Init => AuthInvariant
  BY InitIsRight
<1>2. AuthInvariant /\ [Next]_vars => AuthInvariant'
  BY NextIsRight
<1> QED  BY <1>1, <1>2, PTL DEF Spec

\* Every variable has its type.
THEOREM AuthTypeCorrect == Spec => []TypeOK
<1>1. AuthInvariant => TypeOK
  BY DEF AuthInvariant
<1> QED  BY <1>1, AuthInvariantHolds, PTL

\* An identity never has two accounts, whatever sign-ups and logins with it
\* overlap (signup use_case.py:112-113, orm.py:50).
THEOREM OneAccountPerIdentity == Spec => []IdentityHasOneAccount
<1>1. AuthInvariant => IdentityHasOneAccount
  BY DEF AuthInvariant
<1> QED  BY <1>1, AuthInvariantHolds, PTL

\* No refresh token is exchanged twice and no session has two of them
\* (credential_repository.py:145-183).
THEOREM RefreshTokensExchangedOnce == Spec => []TokenExchangedOnce
<1>1. AuthInvariant => TokenExchangedOnce
  BY DEF AuthInvariant
<1> QED  BY <1>1, AuthInvariantHolds, PTL

\* From the token on, a refresh moves by its own steps, and the check of its
\* session is the only one that lets it pass.
LEMMA OnlyTheCheckPasses ==
    ASSUME AuthInvariant, NEW r \in Refresh, pc[r] = "taken", Next,
           pc'[r] \in {"validated", "done"}
    PROVE  session[r] \in sessions \ revoked
<1>0. TypeOK /\ StepsOfKind /\ r \in Request
      /\ r \notin Opener /\ r \notin SignUp /\ r \notin Logout /\ r \notin Withdrawal
  BY Kinds DEF AuthInvariant
<1>1. PICK q \in Request : Step(q) \/ Abort(q)
  BY RowsAreRequests DEF Next, BreakDeadlock, Remover, Request
<1> USE DEF Goto, Finish, StepsOfKind
<1>2. ~Abort(q)
  BY <1>0 DEF Abort
<1>3. ~(q \in SignUp /\ CheckNewUser(q))
  BY <1>0 DEF CheckNewUser
<1>4. ~(q \in Opener /\ AccountStep(q))
  <2>1. q \in Opener /\ (LockIdentity(q) \/ LockEmail(q)) => FALSE
    BY <1>0 DEF LockIdentity, LockEmail
  <2>2. q \in Opener /\ (CreateAccount(q) \/ SignUpConflict(q) \/ FindAccount(q)) => FALSE
    BY <1>0 DEF CreateAccount, SignUpConflict, FindAccount
  <2>3. q \in Opener /\ (RejectLogin(q) \/ FlushLogin(q)) => FALSE
    BY <1>0 DEF RejectLogin, FlushLogin
  <2>4. q \in Opener /\ (FlushLoginError(q) \/ CommitLogin(q)) => FALSE
    BY <1>0 DEF FlushLoginError, CommitLogin
  <2> QED  BY <2>1, <2>2, <2>3, <2>4 DEF AccountStep
<1>5. CASE q \in Refresh /\ RefreshStep(q)
  <2>1. ~(TakeToken(q) \/ RejectToken(q))
    BY <1>0 DEF TakeToken, RejectToken
  <2>2. ~(RejectSession(q) \/ Rotate(q) \/ RotateError(q))
    BY <1>0 DEF RejectSession, Rotate, RotateError
  <2>3. CASE ValidateSession(q)
    BY <1>0, <2>3 DEF ValidateSession
  <2> QED  BY <1>5, <2>1, <2>2, <2>3 DEF RefreshStep
<1>6. ~(q \in Logout /\ LogoutStep(q))
  <2>1. q \in Logout /\ (LocateSession(q) \/ IgnoreLogout(q) \/ RevokeSession(q)) => FALSE
    BY <1>0 DEF LocateSession, IgnoreLogout, RevokeSession
  <2>2. q \in Logout /\ RevokeError(q) => FALSE
    BY <1>0 DEF RevokeError
  <2>3. q \in Logout /\ (SelectTokens(q) \/ LockTokens(q) \/ CommitLogout(q)) => FALSE
    BY <1>0 DEF SelectTokens, LockTokens, CommitLogout
  <2> QED  BY <2>1, <2>2, <2>3 DEF LogoutStep
<1>7. ~(q \in Withdrawal /\ WithdrawalStep(q))
  <2>1. q \in Withdrawal /\ (Admit(q) \/ Refuse(q) \/ SelectAccountTokens(q)) => FALSE
    BY <1>0 DEF Admit, Refuse, SelectAccountTokens
  <2>2. q \in Withdrawal /\ (SkipAccount(q) \/ LockTokens(q) \/ DeleteSessions(q)) => FALSE
    BY <1>0 DEF SkipAccount, LockTokens, DeleteSessions
  <2>3. q \in Withdrawal /\ (CascadeSessions(q) \/ DeleteCredential(q)) => FALSE
    BY <1>0 DEF CascadeSessions, DeleteCredential
  <2>4. q \in Withdrawal /\ (CascadeCredential(q) \/ CommitWithdrawal(q)) => FALSE
    BY <1>0 DEF CascadeCredential, CommitWithdrawal
  <2> QED  BY <2>1, <2>2, <2>3, <2>4 DEF WithdrawalStep
<1> QED  BY <1>1, <1>2, <1>3, <1>4, <1>5, <1>6, <1>7 DEF Step

\* A session that was logged out never comes back, and who looks at it finds
\* out (credential_repository.py:166-168, 189-206).
THEOREM LogoutIsFinal == Spec => LogoutEndsSession
<1> DEFINE Refused ==
        \A o \in Logout, r \in Refresh :
           pc[o] = "done" /\ session[r] = session[o] /\ pc[r] = "taken" =>
              pc'[r] \notin {"validated", "done"}
<1>1. AuthInvariant /\ [Next]_vars => [Refused]_vars
  <2> SUFFICES ASSUME AuthInvariant, Next, NEW o \in Logout, NEW r \in Refresh,
                      pc[o] = "done", session[r] = session[o], pc[r] = "taken",
                      pc'[r] \in {"validated", "done"}
               PROVE  FALSE
    OBVIOUS
  <2>1. session[o] \notin sessions \ revoked
    BY DEF AuthInvariant, LoggedOutForGood
  <2> QED  BY <2>1, OnlyTheCheckPasses
<1> QED  BY <1>1, AuthInvariantHolds, PTL DEF Spec, LogoutEndsSession

\* Nothing that authenticates for an account outlives its withdrawal
\* (credential_repository.py:242-272).
THEOREM WithdrawalIsFinal == Spec => []WithdrawalErasesAccount
<1>1. AuthInvariant => WithdrawalErasesAccount
  BY DEF AuthInvariant
<1> QED  BY <1>1, AuthInvariantHolds, PTL

\* A login that links its identity to the account of its address finds no
\* link in its way.
LEMMA CanAttach ==
    ASSUME AuthInvariant, OneSubjectPerAddress, NEW l \in Login, pc[l] = "found"
    PROVE  ~CannotAttach(l)
<1> SUFFICES ASSUME l \in attaching, NEW j \in Identity,
                    \/ <<j, account[l]>> \in links /\ IssuerOf[j] = IssuerOf[Me(l)]
                    \/ j = Me(l) /\ Linked(j) # {}
             PROVE  FALSE
  BY DEF CannotAttach
<1>1. /\ \A k \in links : k[1] # Me(l)
      /\ SharesAddress(Me(l), account[l])
      /\ \A k \in links : k[1] = Me(k[2]) \/ SharesAddress(k[1], k[2])
  BY DEF AuthInvariant, HeldRowsAreCurrent, LinksShareAddress
<1>2. <<j, account[l]>> \in links /\ IssuerOf[j] = IssuerOf[Me(l)] /\ j # Me(l)
  BY <1>1 DEF Linked
<1>3. j = Me(account[l]) \/ SharesAddress(j, account[l])
  BY <1>1, <1>2
<1>4. j \in Verified /\ Me(l) \in Verified /\ EmailOf[j] = EmailOf[Me(l)] /\ EmailOf[j] # NoEmail
  BY <1>1, <1>3 DEF SharesAddress, HasVerifiedEmail
<1> QED  BY <1>2, <1>4 DEF OneSubjectPerAddress

\* No step but the error of FlushLogin answers a login with a conflict.
LEMMA ConflictIsOfFlush ==
    ASSUME AuthInvariant, NEW l \in Login, pc[l] # "conflict", Next, pc'[l] = "conflict"
    PROVE  FlushLoginError(l)
<1>0. TypeOK /\ StepsOfKind /\ l \in Request /\ l \notin SignUp /\ l \notin Remover
  BY Kinds DEF AuthInvariant
<1>1. PICK q \in Request : Step(q) \/ Abort(q)
  BY RowsAreRequests DEF Next, BreakDeadlock, Remover, Request
<1>2. ~Abort(q)
  BY <1>0 DEF Abort, Finish, StepsOfKind
<1> USE DEF Goto, Finish, StepsOfKind
<1>3. CASE q \in SignUp /\ CheckNewUser(q)
  BY <1>0, <1>3 DEF CheckNewUser
<1>4. CASE q \in Opener /\ AccountStep(q)
  <2>1. LockIdentity(q) => pc'[l] # "conflict"
    BY <1>0 DEF LockIdentity
  <2>2. LockEmail(q) => pc'[l] # "conflict"
    BY <1>0 DEF LockEmail
  <2>3. CreateAccount(q) \/ SignUpConflict(q) => pc'[l] # "conflict"
    BY <1>0 DEF CreateAccount, SignUpConflict
  <2>4. FindAccount(q) \/ RejectLogin(q) \/ FlushLogin(q) \/ CommitLogin(q) => pc'[l] # "conflict"
    BY <1>0 DEF FindAccount, RejectLogin, FlushLogin, CommitLogin
  <2>5. FlushLoginError(q) => q = l
    BY <1>0 DEF FlushLoginError
  <2> QED  BY <1>4, <2>1, <2>2, <2>3, <2>4, <2>5 DEF AccountStep
<1>5. CASE q \in Refresh /\ RefreshStep(q)
  <2>1. TakeToken(q) \/ RejectToken(q) \/ ValidateSession(q) => pc'[l] # "conflict"
    BY <1>0 DEF TakeToken, RejectToken, ValidateSession
  <2>2. RejectSession(q) \/ Rotate(q) \/ RotateError(q) => pc'[l] # "conflict"
    BY <1>0 DEF RejectSession, Rotate, RotateError
  <2> QED  BY <1>5, <2>1, <2>2 DEF RefreshStep
<1>6. CASE q \in Logout /\ LogoutStep(q)
  <2>1. LocateSession(q) \/ IgnoreLogout(q) \/ RevokeSession(q) => pc'[l] # "conflict"
    BY <1>0 DEF LocateSession, IgnoreLogout, RevokeSession
  <2>2. RevokeError(q) => pc'[l] # "conflict"
    BY <1>0 DEF RevokeError
  <2>3. SelectTokens(q) \/ LockTokens(q) \/ CommitLogout(q) => pc'[l] # "conflict"
    BY <1>0 DEF SelectTokens, LockTokens, CommitLogout
  <2> QED  BY <1>6, <2>1, <2>2, <2>3 DEF LogoutStep
<1>7. CASE q \in Withdrawal /\ WithdrawalStep(q)
  <2>1. Admit(q) \/ Refuse(q) \/ SelectAccountTokens(q) \/ SkipAccount(q) => pc'[l] # "conflict"
    BY <1>0 DEF Admit, Refuse, SelectAccountTokens, SkipAccount
  <2>2. LockTokens(q) \/ DeleteSessions(q) \/ CascadeSessions(q) => pc'[l] # "conflict"
    BY <1>0 DEF LockTokens, DeleteSessions, CascadeSessions
  <2>3. DeleteCredential(q) \/ CascadeCredential(q) \/ CommitWithdrawal(q) => pc'[l] # "conflict"
    BY <1>0 DEF DeleteCredential, CascadeCredential, CommitWithdrawal
  <2> QED  BY <1>7, <2>1, <2>2, <2>3 DEF WithdrawalStep
<1> QED  BY <1>1, <1>2, <1>3, <1>4, <1>5, <1>6, <1>7 DEF Step

\* A login never runs into a unique constraint, as long as no issuer has
\* verified one address for two subjects (login use_case.py:36, orm.py:46-50).
THEOREM LoginsSucceedTogether ==
    ASSUME OneSubjectPerAddress
    PROVE  Spec => []LoginsDoNotCollide
<1>1. Init => LoginsDoNotCollide
  BY KindsAssumption, Kinds DEF Init, LoginsDoNotCollide
<1>2. AuthInvariant /\ LoginsDoNotCollide /\ [Next]_vars => LoginsDoNotCollide'
  <2> SUFFICES ASSUME AuthInvariant, LoginsDoNotCollide, [Next]_vars,
                      NEW l \in Login, pc'[l] = "conflict"
               PROVE  FALSE
    BY DEF LoginsDoNotCollide
  <2>1. pc[l] # "conflict"
    BY DEF LoginsDoNotCollide
  <2>2. Next
    BY <2>1 DEF vars
  <2>3. FlushLoginError(l)
    BY <2>1, <2>2, ConflictIsOfFlush
  <2>4. pc[l] = "found" /\ account[l] \in credentials
    BY <2>3, Kinds DEF FlushLoginError, Finish, AuthInvariant, StepsOfKind
  <2> QED  BY <2>3, <2>4, CanAttach DEF FlushLoginError
<1> QED  BY <1>1, <1>2, AuthInvariantHolds, PTL DEF Spec

=============================================================================
