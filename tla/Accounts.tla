------------------------------ MODULE Accounts ------------------------------
(* The accounts: users and their roles (modules/users), their sessions,     *)
(* access tokens and password resets (auth).  Registration of an            *)
(* administrator, deactivation and change of role are Serializable          *)
(* transactions that read, decide and write; login and the resets write the *)
(* user's row first, so each takes effect at once; the rest is at Read      *)
(* Committed.  MEMBER stands for every role but the administrator's.        *)
(* Passwords, lockout, the expiry of subscriptions and of sessions,         *)
(* profiles and audit rows are left out.                                    *)
EXTENDS Naturals, FiniteSets, SerializableTx

CONSTANTS Requests,       \* handlers in flight at once
          Users,          \* ids of User rows
          Sessions,       \* ids of Session rows
          ResetTokens,    \* ids of PasswordResetToken rows
          MaxGeneration,  \* sessionGeneration stops here
          MaxRotations,   \* refreshes of one session
          NoRow, NoHash

VARIABLES user, session, resetToken, issued, tx

vars == <<user, session, resetToken, issued, tx>>

Roles == {"ADMIN", "MEMBER"}

UserRow == [status : {"ACTIVE", "INACTIVE"}, role : Roles,
            generation : 0 .. MaxGeneration]

Hashes == 0 .. MaxRotations

\* barred: revoked with the generation incremented, by a deactivation or a
\* change of role.  ended: by a logout or a new password.
SessionRow == [user : Users, hash : Hashes, revoked : {"no", "ended", "barred"}]

ResetTokenRow == [user : Users, state : {"live", "expired", "used"}]

\* An access token: the session it was signed for, the generation it carries,
\* the refresh token presented for it, none at a login, and the one that came
\* with it.
AccessToken == [session : Sessions, generation : 0 .. MaxGeneration,
                exchanged : Hashes \cup {NoHash}, refresh : Hashes]

Signed(s, generation, exchanged, refresh) ==
  [session |-> s, generation |-> generation, exchanged |-> exchanged,
   refresh |-> refresh]

\* actor: whether an administrator asks for the registration.
Request ==
  [op : {"register"}, actor : BOOLEAN]
    \cup [op : {"deactivate", "activate", "login"}, user : Users]
    \cup [op : {"changeRole"}, user : Users, role : Roles]
    \cup [op : {"refresh"}, session : Sessions, hash : Hashes]
    \cup [op : {"reset"}, token : ResetTokens]

SerializableOps == {"register", "deactivate", "changeRole"}

SerializableRequest == {r \in Request : r.op \in SerializableOps}
Registrations == {r \in Request : r.op = "register"}

ASSUME AccountsAssumption ==
  /\ MaxGeneration \in Nat /\ MaxRotations \in Nat
  /\ NoRow \notin UserRow \cup SessionRow \cup ResetTokenRow \cup Request
  /\ NoHash \notin Nat
  /\ "admins" \notin Users

Handler(phase, request, attempt, generation, doomed) ==
  [phase |-> phase, request |-> request, attempt |-> attempt,
   generation |-> generation, doomed |-> doomed]

Idle == Handler("idle", NoRow, 0, 0, FALSE)

HandlerState ==
  {Idle}
    \cup [phase : {"waiting"}, request : Registrations, attempt : 1 .. MaxAttempts,
          generation : {0}, doomed : {FALSE}]
    \cup [phase : {"open"}, request : SerializableRequest, attempt : 1 .. MaxAttempts,
          generation : {0}, doomed : BOOLEAN]
    \cup [phase : {"read", "known"}, request : Request, attempt : {1},
          generation : 0 .. MaxGeneration, doomed : {FALSE}]

-----------------------------------------------------------------------------
(* What the handlers ask of the rows they read.                            *)

IsUser(u) == user[u] # NoRow

IsActive(u) == IsUser(u) /\ user[u].status = "ACTIVE"

Administrators == {u \in Users : IsUser(u) /\ user[u].role = "ADMIN"}

ActiveAdministrators == {u \in Administrators : IsActive(u)}

Live(s) == session[s] # NoRow /\ session[s].revoked = "no"

LiveToken(t) == resetToken[t] # NoRow /\ resetToken[t].state = "live"

\* Mutant: the count of the others includes the user.
ContinuityCounted(u, role) ==
  u \in ActiveAdministrators /\ role # "ADMIN" => ActiveAdministrators # {}

\* requiresAdminContinuity and assertAnotherActiveAdministrator; a
\* deactivation leaves the user no role.
Continuity(u, role) ==
  u \in ActiveAdministrators /\ role # "ADMIN" =>
    ActiveAdministrators \ {u} # {}

\* The bound MaxGeneration.
Countable(u) == user[u].generation < MaxGeneration

RegisterAllowed(r) == Administrators # {} => r.actor

DeactivateAllowed(r) ==
  IsActive(r.user) /\ Countable(r.user) /\ Continuity(r.user, "none")

ChangeRoleAllowed(r) ==
  IsUser(r.user) /\ Countable(r.user) /\ Continuity(r.user, r.role)

RefreshAllowed(r) == Live(r.session) /\ session[r.session].hash = r.hash

Allowed(r) ==
  \/ r.op = "register" /\ RegisterAllowed(r)
  \/ r.op = "deactivate" /\ DeactivateAllowed(r)
  \/ r.op = "changeRole" /\ ChangeRoleAllowed(r)
  \/ r.op = "activate" /\ IsUser(r.user) /\ ~ IsActive(r.user)
  \/ r.op = "login" /\ IsActive(r.user)
  \/ r.op = "refresh" /\ RefreshAllowed(r)
  \/ r.op = "reset" /\ LiveToken(r.token)

-----------------------------------------------------------------------------
(* Transactions.                                                           *)

\* The administrators are a predicate that registration, deactivation and
\* change of role may read and may write under.
ReadsAdministrators(r) ==
  \/ r.op = "register"
  \/ r.op = "deactivate" /\ r.user \in ActiveAdministrators
  \/ r.op = "changeRole" /\ r.user \in ActiveAdministrators /\ r.role # "ADMIN"

WritesAdministrators(r) ==
  \/ r.op = "register"
  \/ r.op \in {"deactivate", "changeRole"} /\ r.user \in Administrators
  \/ r.op = "changeRole" /\ r.role = "ADMIN"

UserOf(r) == IF r.op = "register" THEN {} ELSE {r.user}

\* Footprint of an open transaction; while nothing it conflicts with has
\* committed, it is the same now as when the transaction read.
Footprint(r) ==
  [reads |-> UserOf(r) \cup IF ReadsAdministrators(r) THEN {"admins"} ELSE {},
   rows |-> UserOf(r),
   marks |-> IF WritesAdministrators(r) THEN {"admins"} ELSE {}]

\* What a Serializable transaction on one user's row touches, and what a
\* statement at Read Committed does: only its row can be in conflict.
OnUser(u) == [reads |-> {u}, rows |-> {u}, marks |-> {}]
RowOnly(u) == [reads |-> {}, rows |-> {u}, marks |-> {}]

\* Condemns the open transactions that a commit of footprint f conflicts with.
Condemned(f) ==
  [p \in Requests |->
     IF tx[p].phase = "open" /\ Conflict(Footprint(tx[p].request), f)
     THEN Handler("open", tx[p].request, tx[p].attempt, 0, TRUE)
     ELSE tx[p]]

Committed(q, f) == tx' = [Condemned(f) EXCEPT ![q] = Idle]

\* The routes of modules/users only an administrator is admitted to.  Nobody
\* deactivates their own account, but another administrator may.
AskedByAdministrator(r) ==
  \/ r.op \in {"deactivate", "changeRole", "activate"}
  \/ r.op = "register" /\ r.actor

\* The first read of a handler; a refusal answers at once and leaves nothing.
Start(q, r) ==
  /\ tx[q] = Idle
  /\ AskedByAdministrator(r) => ActiveAdministrators # {}
  /\ Allowed(r)
  /\ tx' = [tx EXCEPT ![q] =
              Handler(IF r.op \in SerializableOps THEN "open" ELSE "read",
                      r, 1, 0, FALSE)]
  /\ UNCHANGED <<user, session, resetToken, issued>>

\* Mutant: one attempt too many.
RetryOffByOne(q) == tx[q].request.op = "register" /\ tx[q].attempt <= MaxAttempts

\* withRegistrationTransaction tries again; withTransaction does not.
MayRetry(q) == tx[q].request.op = "register" /\ tx[q].attempt < MaxAttempts

SerializationFailure(q) ==
  /\ tx[q].phase = "open"
  /\ MayRetry(q)
  /\ tx' = [tx EXCEPT ![q] =
              Handler("waiting", tx[q].request, tx[q].attempt + 1, 0, FALSE)]
  /\ UNCHANGED <<user, session, resetToken, issued>>

Restart(q) ==
  /\ tx[q].phase = "waiting"
  /\ Allowed(tx[q].request)
  /\ tx' = [tx EXCEPT ![q] =
              Handler("open", tx[q].request, tx[q].attempt, 0, FALSE)]
  /\ UNCHANGED <<user, session, resetToken, issued>>

\* The handler ends with an error and nothing of it stays: a refusal after a
\* restart, a guarded update that finds no row, P2034, a lost connection.
Fail(q) ==
  /\ tx[q] # Idle
  /\ tx' = [tx EXCEPT ![q] = Idle]
  /\ UNCHANGED <<user, session, resetToken, issued>>

Open(q, op) == tx[q].phase = "open" /\ ~ tx[q].doomed /\ tx[q].request.op = op

Read(q, op) == tx[q].phase = "read" /\ tx[q].request.op = op

-----------------------------------------------------------------------------
(* Users and roles.                                                        *)

Row(status, role, generation) ==
  [status |-> status, role |-> role, generation |-> generation]

Revoked(u, as) ==
  [s \in Sessions |->
     IF Live(s) /\ session[s].user = u
     THEN [user |-> u, hash |-> session[s].hash, revoked |-> as]
     ELSE session[s]]

\* A community account is activated.
Join(u) ==
  /\ ~ IsUser(u)
  /\ user' = [user EXCEPT ![u] = Row("ACTIVE", "MEMBER", 0)]
  /\ UNCHANGED <<session, resetToken, issued, tx>>

\* RegisterAdministratorUseCase.
CommitRegister(q) ==
  /\ Open(q, "register")
  /\ \E u \in Users :
       /\ ~ IsUser(u)
       /\ user' = [user EXCEPT ![u] = Row("ACTIVE", "ADMIN", 0)]
  /\ Committed(q, Footprint(tx[q].request))
  /\ UNCHANGED <<session, resetToken, issued>>

\* deactivateAndRevokeSessions.
CommitDeactivate(q) ==
  LET u == tx[q].request.user IN
  /\ Open(q, "deactivate")
  /\ user' = [user EXCEPT ![u] = Row("INACTIVE", @.role, @.generation + 1)]
  /\ session' = Revoked(u, "barred")
  /\ resetToken' = [t \in ResetTokens |->
                      IF resetToken[t] # NoRow /\ resetToken[t].user = u
                      THEN [user |-> u, state |-> "used"] ELSE resetToken[t]]
  /\ Committed(q, Footprint(tx[q].request))
  /\ UNCHANGED issued

CommitChangeRole(q) ==
  LET r == tx[q].request IN
  /\ Open(q, "changeRole")
  /\ user' = [user EXCEPT ![r.user] = Row(@.status, r.role, @.generation + 1)]
  /\ session' = Revoked(r.user, "barred")
  /\ Committed(q, Footprint(r))
  /\ UNCHANGED <<resetToken, issued>>

\* ActivateUserUseCase: updateStatus by id, whatever the row has become.
CommitActivate(q) ==
  LET u == tx[q].request.user IN
  /\ Read(q, "activate")
  /\ user' = [user EXCEPT ![u] = Row("ACTIVE", @.role, @.generation)]
  /\ Committed(q, RowOnly(u))
  /\ UNCHANGED <<session, resetToken, issued>>

-----------------------------------------------------------------------------
(* Sessions.                                                               *)

\* Mutant: the transaction trusts the account read before the password check.
LoginAsRead(u) == TRUE

\* updateMany where status = ACTIVE.
LoginStillActive(u) == IsActive(u)

\* recordLoginSuccessAndCreateSession, and the token signed with the
\* generation it returns.
CommitLogin(q) ==
  LET u == tx[q].request.user IN
  /\ Read(q, "login")
  /\ LoginStillActive(u)
  /\ \E s \in Sessions :
       /\ session[s] = NoRow
       /\ session' = [session EXCEPT ![s] =
                        [user |-> u, hash |-> 0, revoked |-> "no"]]
       /\ issued' = issued \cup
            {Signed(s, user[u].generation, NoHash, 0)}
  /\ Committed(q, OnUser(u))
  /\ UNCHANGED <<user, resetToken>>

\* findCredentialsById: the account must be ACTIVE; its generation is kept.
KnowUser(q) ==
  LET r == tx[q].request IN
  /\ Read(q, "refresh")
  /\ IsActive(session[r.session].user)
  /\ tx' = [tx EXCEPT ![q] =
              Handler("known", r, 1, user[session[r.session].user].generation, FALSE)]
  /\ UNCHANGED <<user, session, resetToken, issued>>

\* Mutants: the rotation claims the session by id, or whatever its revocation.
RotateById(r) == Live(r.session)
RotateRevoked(r) == session[r.session].hash = r.hash

\* updateMany where id, refreshTokenHash and revokedAt null.
RotateAllowed(r) == Live(r.session) /\ session[r.session].hash = r.hash

\* rotate, and the token signed with the generation read before it.
CommitRotate(q) ==
  LET r == tx[q].request
      row == session[r.session] IN
  /\ tx[q].phase = "known"
  /\ RotateAllowed(r)
  /\ row.hash < MaxRotations
  /\ session' = [session EXCEPT ![r.session] =
                   [user |-> row.user, hash |-> row.hash + 1, revoked |-> row.revoked]]
  /\ issued' = issued \cup
       {Signed(r.session, tx[q].generation, r.hash, row.hash + 1)}
  /\ tx' = [tx EXCEPT ![q] = Idle]
  /\ UNCHANGED <<user, resetToken>>

\* revokeByRefreshTokenHash of whoever holds the current refresh token.
Logout(s) ==
  /\ Live(s)
  /\ session' = [session EXCEPT ![s] =
       [user |-> session[s].user, hash |-> session[s].hash, revoked |-> "ended"]]
  /\ UNCHANGED <<user, resetToken, issued, tx>>

\* JwtStrategy.validate.
Accepted(t) ==
  LET u == session[t.session].user IN
  IsActive(u) /\ user[u].generation = t.generation

-----------------------------------------------------------------------------
(* Passwords.                                                              *)

\* setUserPassword and revokeUserSessions, for a user a token still admits.
ChangePassword(u) ==
  /\ \E t \in issued : session[t.session].user = u /\ Accepted(t)
  /\ session' = Revoked(u, "ended")
  /\ tx' = Condemned(OnUser(u))
  /\ UNCHANGED <<user, resetToken, issued>>

\* Mutant: the tokens sent before stay valid.
KeptTokens(u) == resetToken

InvalidatedTokens(u) ==
  [t \in ResetTokens |-> IF LiveToken(t) /\ resetToken[t].user = u
                         THEN [user |-> u, state |-> "used"] ELSE resetToken[t]]

\* invalidateAndCreateResetToken, guarded by status = ACTIVE.
RequestReset(u) ==
  /\ IsActive(u)
  /\ \E t \in ResetTokens :
       /\ resetToken[t] = NoRow
       /\ resetToken' = [InvalidatedTokens(u) EXCEPT ![t] =
                           [user |-> u, state |-> "live"]]
  /\ tx' = Condemned(OnUser(u))
  /\ UNCHANGED <<user, session, issued>>

ExpireToken(t) ==
  /\ LiveToken(t)
  /\ resetToken' = [resetToken EXCEPT ![t] = [user |-> @.user, state |-> "expired"]]
  /\ UNCHANGED <<user, session, issued, tx>>

\* claimResetToken, setUserPassword and revokeUserSessions.  A token that
\* expired since the handler's now is still claimed.
CommitReset(q) ==
  LET t == tx[q].request.token
      u == resetToken[t].user IN
  /\ Read(q, "reset")
  /\ resetToken[t].state # "used" /\ IsActive(u)
  /\ resetToken' = [resetToken EXCEPT ![t] = [user |-> u, state |-> "used"]]
  /\ session' = Revoked(u, "ended")
  /\ Committed(q, OnUser(u))
  /\ UNCHANGED <<user, issued>>

-----------------------------------------------------------------------------
Init ==
  /\ user = [u \in Users |-> NoRow]
  /\ session = [s \in Sessions |-> NoRow]
  /\ resetToken = [t \in ResetTokens |-> NoRow]
  /\ issued = {}
  /\ tx = [q \in Requests |-> Idle]

Next ==
  \/ \E q \in Requests, r \in Request : Start(q, r)
  \/ \E q \in Requests :
       \/ SerializationFailure(q) \/ Restart(q) \/ Fail(q)
       \/ CommitRegister(q) \/ CommitDeactivate(q) \/ CommitChangeRole(q)
       \/ CommitActivate(q)
       \/ CommitLogin(q) \/ KnowUser(q) \/ CommitRotate(q) \/ CommitReset(q)
  \/ \E u \in Users : Join(u) \/ ChangePassword(u) \/ RequestReset(u)
  \/ \E s \in Sessions : Logout(s)
  \/ \E t \in ResetTokens : ExpireToken(t)

Spec == Init /\ [][Next]_vars

-----------------------------------------------------------------------------
(* Properties.                                                             *)

TypeOK ==
  /\ user \in [Users -> UserRow \cup {NoRow}]
  /\ session \in [Sessions -> SessionRow \cup {NoRow}]
  /\ resetToken \in [ResetTokens -> ResetTokenRow \cup {NoRow}]
  /\ issued \subseteq AccessToken
  /\ tx \in [Requests -> HandlerState]

\* A login that checked the password while the account was being deactivated,
\* or a refresh in flight, leaves no session behind: a live session is always
\* of an ACTIVE user.
LiveSessionsAreOfActive ==
  \A s \in Sessions : Live(s) => IsActive(session[s].user)

\* The generation makes revocation reach the access tokens already signed:
\* none of a session barred by a deactivation or a change of role is accepted,
\* not even after the user is activated again, nor one signed by a refresh
\* that read the user before.
BarredTokensAreRefused ==
  \A t \in issued : session[t.session].revoked = "barred" => ~ Accepted(t)

\* Two refreshes that present the same refresh token: one wins the rotation.
ExchangedOnce ==
  \A t1, t2 \in issued :
    t1.session = t2.session /\ t1.exchanged = t2.exchanged => t1 = t2

\* Requests, resets and deactivations racing: a user has at most one reset
\* token to use, and an inactive one has none.
OneResetToken ==
  \A t \in ResetTokens :
    LiveToken(t) =>
      /\ IsActive(resetToken[t].user)
      /\ \A x \in ResetTokens \ {t} :
           ~ (LiveToken(x) /\ resetToken[x].user = resetToken[t].user)

\* Administrators deactivating or demoting each other, or themselves, at once:
\* no step leaves the system without an active one.
AdministratorsContinue ==
  [][ActiveAdministrators # {} => ActiveAdministrators' # {}]_vars

\* Two installers at once: an administrator registers without another one
\* asking only while there is none at all.
FirstAdministratorOnly ==
  [][\A q \in Requests :
       /\ Open(q, "register") /\ tx'[q] = Idle /\ user' # user
       /\ ~ tx[q].request.actor
       => Administrators = {}]_vars
=============================================================================
