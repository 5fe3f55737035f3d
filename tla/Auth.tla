-------------------------------- MODULE Auth --------------------------------
(***************************************************************************)
(* Accounts, sessions and refresh tokens (modules/auth): sign-up, login,   *)
(* refresh, logout and withdrawal, each one transaction at READ COMMITTED  *)
(* (see Credits).  Rows are named by the requests that insert them: a      *)
(* credential by its sign-up, a session by the sign-up or login that       *)
(* opened it, a refresh token by the sign-up, login or refresh that issued *)
(* it.  The foreign keys cascade: external_identities, auth_sessions and   *)
(* refresh_tokens to user_credentials, refresh_tokens to auth_sessions.    *)
(***************************************************************************)
EXTENDS Integers, FiniteSets

CONSTANTS
    SignUp, Login, Refresh, Logout, Withdrawal,     \* requests
    Registered,     \* sign-ups that were done long ago
    Identity,       \* <issuer, subject>
    Email,          \* canonical e-mail addresses
    NoEmail,
    Verified,       \* the identities whose address the issuer has verified
    IdentityOf,     \* of a sign-up or login
    EmailOf,        \* of an identity
    IssuerOf,       \* of an identity
    AccountOf,      \* the account that a withdrawal is for
    Nobody          \* where no request is named

Opener == SignUp \cup Login
Issuer == Opener \cup Refresh
Remover == Refresh \cup Logout \cup Withdrawal
Request == Issuer \cup Remover

ASSUME KindsAssumption ==
    /\ SignUp \cap Login = {}
    /\ Opener \cap Remover = {}
    /\ Refresh \cap (Logout \cup Withdrawal) = {} /\ Logout \cap Withdrawal = {}
    /\ Registered \subseteq SignUp
    /\ Nobody \notin Request

ASSUME IdentitiesAssumption ==
    /\ NoEmail \notin Email
    /\ Verified \subseteq Identity
    /\ IdentityOf \in [Opener -> Identity]
    /\ EmailOf \in [Identity -> Email \cup {NoEmail}]
    /\ AccountOf \in [Withdrawal -> SignUp]
    /\ \A i, j \in Registered : IdentityOf[i] = IdentityOf[j] => i = j

VARIABLES
    credentials,    \* committed rows of user_credentials
    links,          \* of external_identities: an identity and its credential
    sessions,       \* of auth_sessions
    revoked,        \* the sessions with a revoked_at
    tokens,         \* of refresh_tokens
    pc,
    account,        \* the credential a login has found
    attaching,      \* logins that link their identity to it
    presented,      \* the token a refresh or logout comes with
    session,        \* the session of that token
    taken,          \* tokens a transaction is deleting
    dropped         \* sessions a withdrawal is deleting

accountTables == <<credentials, links>>
sessionTables == <<sessions, revoked, tokens>>
loginMemory == <<account, attaching>>
tokenMemory == <<presented, session>>
rowLocks == <<taken, dropped>>
vars == <<accountTables, sessionTables, pc, loginMemory, tokenMemory, rowLocks>>

Final == {"done", "rejected", "ignored", "conflict", "failed"}

-----------------------------------------------------------------------------
(* State helpers *)

Me(r) == IdentityOf[r]

\* find_by_external_identity
Linked(i) == {c \in credentials : <<i, c>> \in links}

\* find_by_verified_email
HasVerifiedEmail(i) == i \in Verified /\ EmailOf[i] # NoEmail
SameVerifiedEmail(i) ==
    {c \in credentials :
        \E j \in Verified : EmailOf[j] = EmailOf[i] /\ <<j, c>> \in links}

\* The credential of a session and the session of a token.
OwnerOf(s) == IF s \in Login THEN account[s] ELSE s
SessionOf(t) == IF t \in Refresh THEN session[t] ELSE t

SessionsOf(c) == {s \in sessions : OwnerOf(s) = c}
TokensIn(S) == {t \in tokens : SessionOf(t) \in S}

\* The refresh tokens that clients have been given.
Issued == {t \in Issuer : pc[t] = "done"}

\* pg_advisory_xact_lock, first of the identity, then of the address
HoldsIdentityLock(r) == pc[r] \in {"identityLocked", "locked", "found", "flushed"}
HoldsEmailLock(r) == pc[r] \in {"locked", "found", "flushed"}

\* Row locks.
HeldTokens(r) == IF r \in Remover /\ pc[r] # "selected" THEN taken[r] ELSE {}
HeldSessions(r) ==
    IF r \in Withdrawal THEN dropped[r]
    ELSE IF r \in Logout /\ pc[r] \in {"revoking", "selected", "purged"}
    THEN {session[r]} ELSE {}
HeldCredentials(r) ==
    IF r \in Login /\ pc[r] = "flushed" THEN {account[r]}
    ELSE IF r \in Withdrawal /\ pc[r] \in {"credentialDeleted", "erased"}
    THEN {AccountOf[r]} ELSE {}

\* The rows that the next statement of r has to lock, or to share-lock for a
\* foreign key that another transaction is deleting.
WantedTokens(r) ==
    CASE pc[r] = "selected" -> taken[r]
      [] pc[r] = "sessionsDeleted" -> TokensIn(dropped[r])
      [] pc[r] = "credentialDeleted" -> TokensIn(SessionsOf(AccountOf[r]))
      [] OTHER -> {}
WantedSessions(r) ==
    CASE pc[r] = "located" -> {session[r]}
      [] pc[r] = "purged" /\ r \in Withdrawal -> SessionsOf(AccountOf[r])
      [] pc[r] = "credentialDeleted" -> SessionsOf(AccountOf[r])
      [] OTHER -> {}
WantedCredentials(r) ==
    CASE pc[r] = "found" -> {account[r]}
      [] pc[r] = "sessionsGone" -> {AccountOf[r]}
      [] OTHER -> {}
SharedSessions(r) == IF pc[r] = "validated" THEN {session[r]} ELSE {}
SharedCredentials(r) ==
    CASE pc[r] = "validated" -> {OwnerOf(session[r])}
      [] pc[r] = "locked" /\ r \in SignUp -> Linked(Me(r))
      [] OTHER -> {}

\* r waits for a row that q has locked.  A logout's update of a session and
\* a login's of a credential do not exclude a foreign key's share lock.
WaitsFor(r, q) ==
    /\ r # q
    /\ \/ WantedTokens(r) \cap HeldTokens(q) # {}
       \/ WantedSessions(r) \cap HeldSessions(q) # {}
       \/ WantedCredentials(r) \cap HeldCredentials(q) # {}
       \/ q \in Withdrawal /\ \/ SharedSessions(r) \cap HeldSessions(q) # {}
                              \/ SharedCredentials(r) \cap HeldCredentials(q) # {}

Waiting(r) == \E q \in Request : WaitsFor(r, q)

\* The transaction of r ends, its locks with it.
Finish(r, result) ==
    /\ pc' = [pc EXCEPT ![r] = result]
    /\ taken' = IF r \in Remover THEN [taken EXCEPT ![r] = {}] ELSE taken
    /\ dropped' = IF r \in Withdrawal THEN [dropped EXCEPT ![r] = {}] ELSE dropped

Goto(r, label) == pc' = [pc EXCEPT ![r] = label]

-----------------------------------------------------------------------------
EarlierRows ==
    /\ credentials = Registered
    /\ links = {<<Me(s), s>> : s \in Registered}
    /\ sessions = Registered
    /\ revoked = {}
    /\ tokens = Registered

NothingInMemory ==
    /\ account = [l \in Login |-> Nobody]
    /\ attaching = {}
    /\ presented = [r \in Refresh \cup Logout |-> Nobody]
    /\ session = [r \in Refresh \cup Logout |-> Nobody]
    /\ taken = [r \in Remover |-> {}]
    /\ dropped = [w \in Withdrawal |-> {}]

Init ==
    /\ EarlierRows
    /\ NothingInMemory
    /\ pc = [r \in Request |-> IF r \in Registered THEN "done" ELSE "start"]

-----------------------------------------------------------------------------
(* Sign-up and login *)

\* _ensure_new_user, before any lock is taken
CheckNewUser(s) ==
    /\ pc[s] = "start"
    /\ LET i == Me(s)
           exists == Linked(i) # {} \/ (HasVerifiedEmail(i) /\ SameVerifiedEmail(i) # {})
       IN Goto(s, IF exists THEN "rejected" ELSE "checked")
    /\ UNCHANGED <<accountTables, sessionTables, loginMemory, tokenMemory, rowLocks>>

\* Mutant: synchronize is not called.
LockIdentitySkipped(r) ==
    /\ pc[r] = IF r \in SignUp THEN "checked" ELSE "start"
    /\ Goto(r, "locked")
    /\ UNCHANGED <<accountTables, sessionTables, loginMemory, tokenMemory, rowLocks>>

\* synchronize: the advisory lock of the identity
LockIdentity(r) ==
    /\ pc[r] = IF r \in SignUp THEN "checked" ELSE "start"
    /\ \A q \in Opener : HoldsIdentityLock(q) => Me(q) # Me(r)
    /\ Goto(r, IF EmailOf[Me(r)] = NoEmail THEN "locked" ELSE "identityLocked")
    /\ UNCHANGED <<accountTables, sessionTables, loginMemory, tokenMemory, rowLocks>>

\* and that of the address, verified or not
LockEmail(r) ==
    /\ pc[r] = "identityLocked"
    /\ \A q \in Opener : HoldsEmailLock(q) => EmailOf[Me(q)] # EmailOf[Me(r)]
    /\ Goto(r, "locked")
    /\ UNCHANGED <<accountTables, sessionTables, loginMemory, tokenMemory, rowLocks>>

\* Mutant: external_identities has no unique index.
CreateAccountUnchecked(s) ==
    /\ s \in SignUp
    /\ pc[s] = "locked"
    /\ ~Waiting(s)
    /\ credentials' = credentials \cup {s}
    /\ links' = links \cup {<<Me(s), s>>}
    /\ sessions' = sessions \cup {s}
    /\ tokens' = tokens \cup {s}
    /\ Finish(s, "done")
    /\ UNCHANGED <<revoked, loginMemory, tokenMemory>>

\* The user, the credential with its identity, a session and a token are
\* inserted, unless the identity is linked by now (UNIQUE issuer, subject).
CreateAccount(s) ==
    /\ s \in SignUp
    /\ pc[s] = "locked"
    /\ ~Waiting(s)
    /\ Linked(Me(s)) = {}
    /\ credentials' = credentials \cup {s}
    /\ links' = links \cup {<<Me(s), s>>}
    /\ sessions' = sessions \cup {s}
    /\ tokens' = tokens \cup {s}
    /\ Finish(s, "done")
    /\ UNCHANGED <<revoked, loginMemory, tokenMemory>>

SignUpConflict(s) ==
    /\ s \in SignUp
    /\ pc[s] = "locked"
    /\ ~Waiting(s)
    /\ Linked(Me(s)) # {}
    /\ Finish(s, "conflict")
    /\ UNCHANGED <<accountTables, sessionTables, loginMemory, tokenMemory>>

\* The account of the identity, or else one with its verified address.
FindAccount(l) ==
    /\ l \in Login
    /\ pc[l] = "locked"
    /\ \E c \in IF Linked(Me(l)) # {} THEN Linked(Me(l)) ELSE SameVerifiedEmail(Me(l)) :
           account' = [account EXCEPT ![l] = c]
    /\ \/ Linked(Me(l)) # {} /\ UNCHANGED attaching
       \/ /\ Linked(Me(l)) = {} /\ HasVerifiedEmail(Me(l))
          /\ attaching' = attaching \cup {l}
    /\ Goto(l, "found")
    /\ UNCHANGED <<accountTables, sessionTables, tokenMemory, rowLocks>>

\* AuthenticationError or UserNotRegisteredError
RejectLogin(l) ==
    /\ l \in Login
    /\ pc[l] = "locked"
    /\ Linked(Me(l)) = {}
    /\ HasVerifiedEmail(Me(l)) => SameVerifiedEmail(Me(l)) = {}
    /\ Finish(l, "rejected")
    /\ UNCHANGED <<accountTables, sessionTables, loginMemory, tokenMemory>>

\* UNIQUE (credentials_id, issuer) and UNIQUE (issuer, subject)
CannotAttach(l) ==
    /\ l \in attaching
    /\ \E j \in Identity :
          \/ <<j, account[l]>> \in links /\ IssuerOf[j] = IssuerOf[Me(l)]
          \/ j = Me(l) /\ Linked(j) # {}

\* record_login's update, the identity and the session are flushed; the row
\* of the credential is locked from here on.
FlushLogin(l) ==
    /\ l \in Login
    /\ pc[l] = "found"
    /\ ~Waiting(l)
    /\ account[l] \in credentials
    /\ ~CannotAttach(l)
    /\ Goto(l, "flushed")
    /\ UNCHANGED <<accountTables, sessionTables, loginMemory, tokenMemory, rowLocks>>

\* The credential is gone, or the identity cannot be linked to it.
FlushLoginError(l) ==
    /\ l \in Login
    /\ pc[l] = "found"
    /\ ~Waiting(l)
    /\ account[l] \notin credentials \/ CannotAttach(l)
    /\ Finish(l, IF account[l] \in credentials THEN "conflict" ELSE "failed")
    /\ UNCHANGED <<accountTables, sessionTables, loginMemory, tokenMemory>>

CommitLogin(l) ==
    /\ pc[l] = "flushed"
    /\ links' = IF l \in attaching THEN links \cup {<<Me(l), account[l]>>} ELSE links
    /\ sessions' = sessions \cup {l}
    /\ tokens' = tokens \cup {l}
    /\ Finish(l, "done")
    /\ UNCHANGED <<credentials, revoked, loginMemory, tokenMemory>>

-----------------------------------------------------------------------------
(* Refresh: rotate_refresh_token *)

\* Mutant: the token is selected without a lock.
TakeTokenUnlocked(r) ==
    /\ r \in Refresh
    /\ pc[r] = "start"
    /\ \E t \in Issued \cap tokens :
           /\ presented' = [presented EXCEPT ![r] = t]
           /\ session' = [session EXCEPT ![r] = SessionOf(t)]
           /\ taken' = [taken EXCEPT ![r] = {t}]
    /\ Goto(r, "taken")
    /\ UNCHANGED <<accountTables, sessionTables, loginMemory, dropped>>

\* DELETE .. WHERE token_hash RETURNING, which waits for whoever has locked
\* the token.
TakeToken(r) ==
    /\ r \in Refresh
    /\ pc[r] = "start"
    /\ \E t \in Issued :
           /\ \A q \in Remover : t \notin HeldTokens(q)
           /\ t \in tokens
           /\ presented' = [presented EXCEPT ![r] = t]
           /\ session' = [session EXCEPT ![r] = SessionOf(t)]
           /\ taken' = [taken EXCEPT ![r] = {t}]
    /\ Goto(r, "taken")
    /\ UNCHANGED <<accountTables, sessionTables, loginMemory, dropped>>

\* The token is not there any more.
RejectToken(r) ==
    /\ r \in Refresh
    /\ pc[r] = "start"
    /\ \E t \in Issued : t \notin tokens
    /\ Finish(r, "rejected")
    /\ UNCHANGED <<accountTables, sessionTables, loginMemory, tokenMemory>>

\* Mutant: a session that is there is good enough.
ValidateSessionThere(r) ==
    /\ pc[r] = "taken"
    /\ session[r] \in sessions
    /\ OwnerOf(session[r]) \in credentials
    /\ Goto(r, "validated")
    /\ UNCHANGED <<accountTables, sessionTables, loginMemory, tokenMemory, rowLocks>>

ValidateSession(r) ==
    /\ pc[r] = "taken"
    /\ session[r] \in sessions \ revoked
    /\ OwnerOf(session[r]) \in credentials
    /\ Goto(r, "validated")
    /\ UNCHANGED <<accountTables, sessionTables, loginMemory, tokenMemory, rowLocks>>

\* Mutant: the transaction stays open after the rejection.
RejectSessionHolding(r) ==
    /\ pc[r] = "taken"
    /\ Goto(r, "rejected")
    /\ UNCHANGED <<accountTables, sessionTables, loginMemory, tokenMemory, rowLocks>>

\* The session is revoked or gone, or the token has expired, which is not
\* modelled and may be at any time.
RejectSession(r) ==
    /\ pc[r] = "taken"
    /\ Finish(r, "rejected")
    /\ UNCHANGED <<accountTables, sessionTables, loginMemory, tokenMemory>>

\* The new token is inserted, if its foreign keys still hold, and committed.
Rotate(r) ==
    /\ pc[r] = "validated"
    /\ ~Waiting(r)
    /\ session[r] \in sessions
    /\ OwnerOf(session[r]) \in credentials
    /\ tokens' = (tokens \ taken[r]) \cup {r}
    /\ Finish(r, "done")
    /\ UNCHANGED <<accountTables, sessions, revoked, loginMemory, tokenMemory>>

RotateError(r) ==
    /\ pc[r] = "validated"
    /\ ~Waiting(r)
    /\ session[r] \notin sessions \/ OwnerOf(session[r]) \notin credentials
    /\ Finish(r, "failed")
    /\ UNCHANGED <<accountTables, sessionTables, loginMemory, tokenMemory>>

-----------------------------------------------------------------------------
(* Logout: revoke_session_by_refresh_token *)

LocateSession(o) ==
    /\ o \in Logout
    /\ pc[o] = "start"
    /\ \E t \in Issued \cap tokens :
           /\ presented' = [presented EXCEPT ![o] = t]
           /\ session' = [session EXCEPT ![o] = SessionOf(t)]
    /\ Goto(o, "located")
    /\ UNCHANGED <<accountTables, sessionTables, loginMemory, rowLocks>>

\* The token is gone or, at any time, expired: logged out all the same.
IgnoreLogout(o) ==
    /\ o \in Logout
    /\ pc[o] = "start"
    /\ Finish(o, "ignored")
    /\ UNCHANGED <<accountTables, sessionTables, loginMemory, tokenMemory>>

\* The update of revoked_at, which the next statement flushes.
RevokeSession(o) ==
    /\ pc[o] = "located"
    /\ ~Waiting(o)
    /\ session[o] \in sessions
    /\ Goto(o, "revoking")
    /\ UNCHANGED <<accountTables, sessionTables, loginMemory, tokenMemory, rowLocks>>

\* The session is gone: before it is read again, or before it is updated.
RevokeError(o) ==
    /\ pc[o] = "located"
    /\ ~Waiting(o)
    /\ session[o] \notin sessions
    /\ \E result \in {"ignored", "failed"} : Finish(o, result)
    /\ UNCHANGED <<accountTables, sessionTables, loginMemory, tokenMemory>>

\* DELETE .. WHERE session_id: the rows it sees when it starts ..
SelectTokens(o) ==
    /\ pc[o] = "revoking"
    /\ taken' = [taken EXCEPT ![o] = TokensIn({session[o]})]
    /\ Goto(o, "selected")
    /\ UNCHANGED <<accountTables, sessionTables, loginMemory, tokenMemory, dropped>>

\* .. are locked one after the other, but for those that are gone by then.
LockTokens(r) ==
    /\ pc[r] = "selected"
    /\ ~Waiting(r)
    /\ taken' = [taken EXCEPT ![r] = @ \cap tokens]
    /\ Goto(r, "purged")
    /\ UNCHANGED <<accountTables, sessionTables, loginMemory, tokenMemory, dropped>>

CommitLogout(o) ==
    /\ o \in Logout
    /\ pc[o] = "purged"
    /\ revoked' = revoked \cup {session[o]}
    /\ tokens' = tokens \ taken[o]
    /\ Finish(o, "done")
    /\ UNCHANGED <<accountTables, sessions, loginMemory, tokenMemory>>

-----------------------------------------------------------------------------
(* Withdrawal: delete_account_auth_state, then users, credits and push      *)
(* tokens                                                                   *)

\* The principal is admitted by exists_active_session.
Admit(w) ==
    /\ w \in Withdrawal
    /\ pc[w] = "start"
    /\ SessionsOf(AccountOf[w]) \ revoked # {}
    /\ Goto(w, "admitted")
    /\ UNCHANGED <<accountTables, sessionTables, loginMemory, tokenMemory, rowLocks>>

Refuse(w) ==
    /\ w \in Withdrawal
    /\ pc[w] = "start"
    /\ SessionsOf(AccountOf[w]) \ revoked = {}
    /\ Finish(w, "rejected")
    /\ UNCHANGED <<accountTables, sessionTables, loginMemory, tokenMemory>>

\* The credential is the user's: DELETE FROM refresh_tokens starts.
SelectAccountTokens(w) ==
    /\ pc[w] = "admitted"
    /\ AccountOf[w] \in credentials
    /\ taken' = [taken EXCEPT ![w] = TokensIn(SessionsOf(AccountOf[w]))]
    /\ Goto(w, "selected")
    /\ UNCHANGED <<accountTables, sessionTables, loginMemory, tokenMemory, dropped>>

\* The credential is gone: there is no authentication state to delete.
SkipAccount(w) ==
    /\ pc[w] = "admitted"
    /\ AccountOf[w] \notin credentials
    /\ Finish(w, "done")
    /\ UNCHANGED <<accountTables, sessionTables, loginMemory, tokenMemory>>

DeleteSessions(w) ==
    /\ w \in Withdrawal
    /\ pc[w] = "purged"
    /\ ~Waiting(w)
    /\ dropped' = [dropped EXCEPT ![w] = SessionsOf(AccountOf[w])]
    /\ Goto(w, "sessionsDeleted")
    /\ UNCHANGED <<accountTables, sessionTables, loginMemory, tokenMemory, taken>>

\* The cascade finds the tokens as they are by now.
CascadeSessions(w) ==
    /\ pc[w] = "sessionsDeleted"
    /\ ~Waiting(w)
    /\ taken' = [taken EXCEPT ![w] = @ \cup TokensIn(dropped[w])]
    /\ Goto(w, "sessionsGone")
    /\ UNCHANGED <<accountTables, sessionTables, loginMemory, tokenMemory, dropped>>

\* The identities are deleted, then the credential.
DeleteCredential(w) ==
    /\ pc[w] = "sessionsGone"
    /\ ~Waiting(w)
    /\ Goto(w, "credentialDeleted")
    /\ UNCHANGED <<accountTables, sessionTables, loginMemory, tokenMemory, rowLocks>>

\* Mutant: auth_sessions does not cascade from user_credentials.
CascadeCredentialToNothing(w) ==
    /\ pc[w] = "credentialDeleted"
    /\ ~Waiting(w)
    /\ Goto(w, "erased")
    /\ UNCHANGED <<accountTables, sessionTables, loginMemory, tokenMemory, rowLocks>>

\* The cascade finds what a login has committed in the meantime.
CascadeCredential(w) ==
    /\ pc[w] = "credentialDeleted"
    /\ ~Waiting(w)
    /\ dropped' = [dropped EXCEPT ![w] = @ \cup SessionsOf(AccountOf[w])]
    /\ taken' = [taken EXCEPT ![w] = @ \cup TokensIn(SessionsOf(AccountOf[w]))]
    /\ Goto(w, "erased")
    /\ UNCHANGED <<accountTables, sessionTables, loginMemory, tokenMemory>>

CommitWithdrawal(w) ==
    /\ pc[w] = "erased"
    /\ credentials' = credentials \ {AccountOf[w]}
    /\ links' = {k \in links : k[2] # AccountOf[w]}
    /\ sessions' = sessions \ dropped[w]
    /\ revoked' = revoked \ dropped[w]
    /\ tokens' = tokens \ taken[w]
    /\ Finish(w, "done")
    /\ UNCHANGED <<loginMemory, tokenMemory>>

-----------------------------------------------------------------------------
\* A database error, a crash, a client that goes away: rollback.
Abort(r) ==
    /\ pc[r] \notin Final
    /\ Finish(r, "failed")
    /\ UNCHANGED <<accountTables, sessionTables, loginMemory, tokenMemory>>

\* A withdrawal and a refresh, a logout or another withdrawal wait for each
\* other: PostgreSQL aborts one of the two.
BreakDeadlock(w, r) ==
    /\ WaitsFor(w, r) /\ WaitsFor(r, w)
    /\ Abort(w) \/ Abort(r)

AccountStep(r) ==
    \/ LockIdentity(r) \/ LockEmail(r)
    \/ CreateAccount(r) \/ SignUpConflict(r)
    \/ FindAccount(r) \/ RejectLogin(r)
    \/ FlushLogin(r) \/ FlushLoginError(r) \/ CommitLogin(r)

RefreshStep(r) ==
    \/ TakeToken(r) \/ RejectToken(r)
    \/ ValidateSession(r) \/ RejectSession(r)
    \/ Rotate(r) \/ RotateError(r)

LogoutStep(o) ==
    \/ LocateSession(o) \/ IgnoreLogout(o)
    \/ RevokeSession(o) \/ RevokeError(o)
    \/ SelectTokens(o) \/ LockTokens(o) \/ CommitLogout(o)

WithdrawalStep(w) ==
    \/ Admit(w) \/ Refuse(w)
    \/ SelectAccountTokens(w) \/ SkipAccount(w) \/ LockTokens(w)
    \/ DeleteSessions(w) \/ CascadeSessions(w)
    \/ DeleteCredential(w) \/ CascadeCredential(w) \/ CommitWithdrawal(w)

Step(r) ==
    \/ r \in SignUp /\ CheckNewUser(r)
    \/ r \in Opener /\ AccountStep(r)
    \/ r \in Refresh /\ RefreshStep(r)
    \/ r \in Logout /\ LogoutStep(r)
    \/ r \in Withdrawal /\ WithdrawalStep(r)

Next ==
    \/ \E r \in Request : Step(r) \/ Abort(r)
    \/ \E w \in Withdrawal, r \in Remover : BreakDeadlock(w, r)

Spec == Init /\ [][Next]_vars

\* As long as a request can go on, some request does, and a deadlock is
\* detected.  No step is ever repeated, so that nothing starves.
Fairness ==
    /\ WF_vars(\E r \in Request : Step(r))
    /\ WF_vars(\E w \in Withdrawal, r \in Remover : BreakDeadlock(w, r))

FairSpec == Spec /\ Fairness

-----------------------------------------------------------------------------
(* Properties *)

\* Every variable has its type.
TypeOK ==
    /\ credentials \subseteq SignUp
    /\ links \subseteq Identity \X SignUp
    /\ sessions \subseteq Opener
    /\ revoked \subseteq sessions
    /\ tokens \subseteq Issuer
    /\ DOMAIN pc = Request
    /\ account \in [Login -> SignUp \cup {Nobody}]
    /\ attaching \subseteq Login
    /\ presented \in [Refresh \cup Logout -> Issuer \cup {Nobody}]
    /\ session \in [Refresh \cup Logout -> Opener \cup {Nobody}]
    /\ taken \in [Remover -> SUBSET Issuer]
    /\ dropped \in [Withdrawal -> SUBSET Opener]

\* An identity belongs to one account, though _ensure_new_user looks before
\* the advisory lock is taken (signup use_case.py:112-113, orm.py:50).
IdentityHasOneAccount ==
    \A k, m \in links : k[1] = m[1] => k = m

\* A refresh token is exchanged at most once, and a session has at most one
\* refresh token, whatever refreshes and logouts overlap
\* (credential_repository.py:145-183;
\* test_concurrent_rotate_refresh_token_exactly_one_wins).
TokenExchangedOnce ==
    /\ \A q, r \in Refresh :
          pc[q] = "done" /\ pc[r] = "done" /\ presented[q] = presented[r] => q = r
    /\ \A s \in sessions : Cardinality(TokensIn({s})) <= 1

\* Once a logout has been answered no refresh passes that comes to the session
\* from then on, not even with a token that the logout has missed because a
\* refresh it overlapped had not committed it (credential_repository.py:166-168,
\* 189-206).
LogoutEndsSession ==
    [][\A o \in Logout, r \in Refresh :
          pc[o] = "done" /\ session[r] = session[o] /\ pc[r] = "taken" =>
             pc'[r] \notin {"validated", "done"}]_vars

\* Nothing that authenticates outlives the withdrawal of the account, not
\* what logins and refreshes commit while it is running
\* (credential_repository.py:242-272 and the foreign keys of orm.py).
WithdrawalErasesAccount ==
    \A w \in Withdrawal :
        LET c == AccountOf[w] IN
        pc[w] = "done" =>
           /\ c \notin credentials
           /\ \A k \in links : k[2] # c
           /\ \A s \in sessions : OwnerOf(s) # c
           /\ \A t \in tokens : OwnerOf(SessionOf(t)) # c

\* A login whose identity or verified address is registered succeeds beside
\* any other: it never runs into a unique constraint (login use_case.py:36,
\* test_concurrent_login_for_same_verified_email_links_identities).
LoginsDoNotCollide == \A l \in Login : pc[l] # "conflict"

\* Every request is answered: a withdrawal that deadlocks with a logout or a
\* refresh is resolved.
EveryRequestAnswered == <>(\A r \in Request : pc[r] \in Final)

-----------------------------------------------------------------------------
(* Why: the inductive invariant of the proofs *)

SignUpPC == {"start", "checked", "identityLocked", "locked"} \cup Final
LoginPC == {"start", "identityLocked", "locked", "found", "flushed"} \cup Final
RefreshPC == {"start", "taken", "validated"} \cup Final
LogoutPC == {"start", "located", "revoking", "selected", "purged"} \cup Final
WithdrawalPC == {"start", "admitted", "selected", "purged", "sessionsDeleted", "sessionsGone",
                 "credentialDeleted", "erased"} \cup Final

StepsOfKind ==
    /\ pc \in [Request -> SignUpPC \cup LoginPC \cup RefreshPC \cup LogoutPC \cup WithdrawalPC]
    /\ \A s \in SignUp : pc[s] \in SignUpPC
    /\ \A l \in Login : pc[l] \in LoginPC
    /\ \A r \in Refresh : pc[r] \in RefreshPC
    /\ \A o \in Logout : pc[o] \in LogoutPC
    /\ \A w \in Withdrawal : pc[w] \in WithdrawalPC

\* The foreign keys hold of the committed rows, which are of requests that
\* are over.
ForeignKeysHold ==
    /\ \A k \in links : k[2] \in credentials
    /\ \A s \in sessions : OwnerOf(s) \in credentials
    /\ \A t \in tokens : SessionOf(t) \in sessions
    /\ \A c \in credentials \cup sessions \cup tokens : pc[c] = "done"

\* What a request remembers was committed once, if it has not gone since.
MemoryIsOfRows ==
    /\ \A r \in Refresh :
          pc[r] \in {"taken", "validated", "done"} =>
             /\ presented[r] \in Issuer /\ session[r] \in Opener
             /\ session[r] = SessionOf(presented[r])
             /\ pc[presented[r]] = "done" /\ pc[session[r]] = "done"
    /\ \A o \in Logout :
          pc[o] \notin {"start", "ignored", "failed", "rejected", "conflict"} =>
             session[o] \in Opener /\ pc[session[o]] = "done"
    /\ \A w \in Withdrawal :
          pc[w] \notin {"start", "rejected", "failed", "ignored", "conflict"} =>
             pc[AccountOf[w]] = "done"
    /\ \A w \in Withdrawal : \A s \in dropped[w] :
          pc[s] = "done" /\ OwnerOf(s) = AccountOf[w]
    /\ \A l \in attaching : pc[l] \in {"found", "flushed"} \cup Final

\* No two transactions hold one lock.
LocksExclude ==
    /\ \A q, r \in Opener :
          HoldsIdentityLock(q) /\ HoldsIdentityLock(r) /\ Me(q) = Me(r) => q = r
    /\ \A q, r \in Request : q # r => HeldTokens(q) \cap HeldTokens(r) = {}
    /\ \A q, r \in Request : q # r => HeldSessions(q) \cap HeldSessions(r) = {}
    /\ \A q, r \in Request : q # r => HeldCredentials(q) \cap HeldCredentials(r) = {}

\* A row that a transaction has locked is there, and what it has seen under
\* its locks is so.
HeldRowsAreCurrent ==
    /\ \A r \in Refresh :
          /\ pc[r] \in {"taken", "validated"} =>
                taken[r] = {presented[r]} /\ presented[r] \in tokens
          /\ pc[r] = "done" => presented[r] \notin tokens
    /\ \A o \in Logout :
          pc[o] \in {"revoking", "selected", "purged"} => session[o] \in sessions
    /\ \A l \in Login : pc[l] = "flushed" => account[l] \in credentials
    /\ \A l \in attaching :
          pc[l] \in {"found", "flushed"} => \A k \in links : k[1] # Me(l)
    /\ \A w \in Withdrawal :
          pc[w] = "erased" =>
             /\ SessionsOf(AccountOf[w]) \subseteq dropped[w]
             /\ TokensIn(SessionsOf(AccountOf[w])) \subseteq taken[w]

\* The identities of an account have the verified address it was opened with.
SharesAddress(i, c) ==
    /\ HasVerifiedEmail(i) /\ Me(c) \in Verified
    /\ EmailOf[i] = EmailOf[Me(c)]

LinksShareAddress ==
    /\ \A k \in links : k[1] = Me(k[2]) \/ SharesAddress(k[1], k[2])
    /\ \A l \in attaching :
          pc[l] \in {"found", "flushed"} => SharesAddress(Me(l), account[l])

OneTokenPerSession ==
    \A t, u \in tokens : SessionOf(t) = SessionOf(u) => t = u

\* A session that was logged out is revoked or gone.
LoggedOutForGood ==
    \A o \in Logout : pc[o] = "done" => session[o] \notin sessions \ revoked

\* The strengthening behind the safety properties: the row locks of the
\* deletions and the advisory locks last to the commit, and the foreign keys
\* make a rotation wait for a withdrawal (credential_repository.py:145-272).
AuthInvariant ==
    /\ TypeOK
    /\ StepsOfKind
    /\ ForeignKeysHold
    /\ MemoryIsOfRows
    /\ LocksExclude
    /\ HeldRowsAreCurrent
    /\ LinksShareAddress
    /\ OneTokenPerSession
    /\ IdentityHasOneAccount
    /\ TokenExchangedOnce
    /\ LoggedOutForGood
    /\ WithdrawalErasesAccount

\* An issuer has verified an address for one of its subjects at most.  With
\* two of them, the second to log in finds the account of the first, where
\* UNIQUE (credentials_id, issuer) refuses its identity.
OneSubjectPerAddress ==
    \A i, j \in Verified :
        EmailOf[i] = EmailOf[j] /\ EmailOf[i] # NoEmail /\ IssuerOf[i] = IssuerOf[j] => i = j

=============================================================================
