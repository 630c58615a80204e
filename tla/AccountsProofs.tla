---------------------------- MODULE AccountsProofs ----------------------------
(* Sessions, tokens and administrators, for any number of handlers, users,    *)
(* sessions, tokens, generations and rotations.                               *)
EXTENDS Accounts, TLAPS

RowsTyped ==
  /\ user \in [Users -> UserRow \cup {NoRow}]
  /\ session \in [Sessions -> SessionRow \cup {NoRow}]
  /\ resetToken \in [ResetTokens -> ResetTokenRow \cup {NoRow}]
  /\ issued \subseteq AccessToken

GenerationOf(s) == user[session[s].user].generation

SessionsOwned == \A s \in Sessions : session[s] # NoRow => IsUser(session[s].user)

\* The generation of a token is never ahead of its user's, and behind it once
\* its session is barred; it came of a refresh token already exchanged.
TokenSound(t) ==
  /\ session[t.session] # NoRow
  /\ t.generation <= GenerationOf(t.session)
  /\ session[t.session].revoked = "barred" => t.generation < GenerationOf(t.session)
  /\ t.exchanged # NoHash => t.exchanged < session[t.session].hash

IssuedSound == \A t \in issued : TokenSound(t)

RowsOK ==
  /\ RowsTyped /\ SessionsOwned /\ IssuedSound
  /\ LiveSessionsAreOfActive /\ ExchangedOnce /\ OneResetToken

\* The row a handler found is still there.
Named(r) ==
  /\ r.op \in {"activate", "login"} => IsUser(r.user)
  /\ r.op = "refresh" => session[r.session] # NoRow
  /\ r.op = "reset" => resetToken[r.token] # NoRow

\* What a handler may count on between its reads and its writes.
Sound(h) ==
  /\ h.phase = "open" /\ h.doomed = FALSE => Allowed(h.request)
  /\ h.phase \in {"read", "known"} => Named(h.request)
  /\ h.phase = "known" => /\ h.request.op = "refresh"
                          /\ h.generation <= GenerationOf(h.request.session)
  /\ h.phase # "idle" /\ AskedByAdministrator(h.request) => ActiveAdministrators # {}

HandlersSound == \A q \in Requests, h \in HandlerState : tx[q] = h => Sound(h)

IInv == TypeOK /\ RowsOK /\ HandlersSound

-----------------------------------------------------------------------------
(* The shapes of the records.                                                 *)

LEMMA IdleHandler == Idle \in HandlerState /\ Idle.phase = "idle"
BY DEF HandlerState, Idle, Handler

LEMMA HandlerFields ==
  ASSUME NEW h \in HandlerState
  PROVE  /\ h.phase \in {"idle", "waiting", "open", "read", "known"}
         /\ h = Idle <=> h.phase = "idle"
         /\ h.phase # "idle" => h.request \in Request /\ h.attempt \in 1 .. MaxAttempts
         /\ h.phase = "waiting" => h.request.op = "register"
         /\ h.phase = "open" => h.request.op \in SerializableOps
         /\ h.phase \in {"read", "known"} => h.generation \in 0 .. MaxGeneration
<1>0. 1 \in 1 .. MaxAttempts
  BY AttemptsAssumption
<1>1. CASE h = Idle
  BY <1>1, IdleHandler
<1>2. CASE h \in [phase : {"waiting"}, request : Registrations, attempt : 1 .. MaxAttempts,
                  generation : {0}, doomed : {FALSE}]
  <2>1. h.phase = "waiting" /\ h.request \in Registrations /\ h.attempt \in 1 .. MaxAttempts
    BY <1>2
  <2> QED
    BY <2>1, IdleHandler DEF Registrations
<1>3. CASE h \in [phase : {"open"}, request : SerializableRequest, attempt : 1 .. MaxAttempts,
                  generation : {0}, doomed : BOOLEAN]
  <2>1. h.phase = "open" /\ h.request \in SerializableRequest /\ h.attempt \in 1 .. MaxAttempts
    BY <1>3
  <2> QED
    BY <2>1, IdleHandler DEF SerializableRequest
<1>4. CASE h \in [phase : {"read", "known"}, request : Request, attempt : {1},
                  generation : 0 .. MaxGeneration, doomed : {FALSE}]
  <2>1. /\ h.phase \in {"read", "known"} /\ h.request \in Request /\ h.attempt = 1
        /\ h.generation \in 0 .. MaxGeneration
    BY <1>4
  <2> QED
    BY <1>0, <2>1, IdleHandler
<1> QED
  BY <1>1, <1>2, <1>3, <1>4 DEF HandlerState

LEMMA OtherHandlers ==
  ASSUME NEW r \in Request, NEW n \in 1 .. MaxAttempts
  PROVE  /\ r.op = "register" => Handler("waiting", r, n, 0, FALSE) \in HandlerState
         /\ r.op \in SerializableOps =>
              /\ Handler("open", r, n, 0, FALSE) \in HandlerState
              /\ Handler("open", r, n, 0, TRUE) \in HandlerState
BY DEF HandlerState, Handler, Registrations, SerializableRequest

LEMMA ReadHandlers ==
  ASSUME NEW r \in Request, NEW n \in 0 .. MaxGeneration
  PROVE  /\ Handler("read", r, 1, n, FALSE) \in HandlerState
         /\ Handler("known", r, 1, n, FALSE) \in HandlerState
BY DEF HandlerState, Handler

LEMMA RequestFields ==
  ASSUME NEW r \in Request
  PROVE  /\ r.op \in SerializableOps \cup {"activate", "login", "refresh", "reset"}
         /\ r.op \in {"deactivate", "changeRole", "activate", "login"} => r.user \in Users
         /\ r.op = "changeRole" => r.role \in Roles
         /\ r.op = "refresh" => r.session \in Sessions /\ r.hash \in Hashes
         /\ r.op = "reset" => r.token \in ResetTokens
BY DEF Request, SerializableOps

LEMMA UserFields ==
  ASSUME NEW row \in UserRow
  PROVE  /\ row.status \in {"ACTIVE", "INACTIVE"} /\ row.role \in Roles
         /\ row.generation \in 0 .. MaxGeneration /\ row # NoRow
BY AccountsAssumption DEF UserRow

LEMMA MadeUser ==
  ASSUME NEW s \in {"ACTIVE", "INACTIVE"}, NEW r \in Roles, NEW n \in 0 .. MaxGeneration
  PROVE  /\ Row(s, r, n) \in UserRow /\ Row(s, r, n).status = s
         /\ Row(s, r, n).role = r /\ Row(s, r, n).generation = n
BY DEF UserRow, Row

LEMMA SessionFields ==
  ASSUME NEW row \in SessionRow
  PROVE  /\ row.user \in Users /\ row.hash \in Hashes
         /\ row.revoked \in {"no", "ended", "barred"} /\ row # NoRow
BY AccountsAssumption DEF SessionRow

LEMMA ResetTokenFields ==
  ASSUME NEW row \in ResetTokenRow
  PROVE  /\ row.user \in Users /\ row.state \in {"live", "expired", "used"} /\ row # NoRow
BY AccountsAssumption DEF ResetTokenRow

LEMMA TokenFields ==
  ASSUME NEW t \in AccessToken
  PROVE  /\ t.session \in Sessions /\ t.generation \in 0 .. MaxGeneration
         /\ t.exchanged \in Hashes \cup {NoHash} /\ t.refresh \in Hashes
BY DEF AccessToken

LEMMA SessionUser ==
  ASSUME RowsTyped, SessionsOwned, NEW s \in Sessions, session[s] # NoRow
  PROVE  /\ session[s] \in SessionRow /\ session[s].user \in Users
         /\ user[session[s].user] \in UserRow /\ GenerationOf(s) \in 0 .. MaxGeneration
<1>1. session[s] \in SessionRow
  BY DEF RowsTyped
<1>2. session[s].user \in Users /\ IsUser(session[s].user)
  BY <1>1, SessionFields DEF SessionsOwned
<1>3. user[session[s].user] \in UserRow
  BY <1>2 DEF RowsTyped, IsUser
<1> QED
  BY <1>1, <1>2, <1>3, UserFields DEF GenerationOf

LEMMA AdministratorSets ==
  \A u \in Users :
    /\ u \in Administrators <=> user[u] # NoRow /\ user[u].role = "ADMIN"
    /\ u \in ActiveAdministrators <=>
         user[u] # NoRow /\ user[u].role = "ADMIN" /\ user[u].status = "ACTIVE"
BY DEF Administrators, ActiveAdministrators, IsActive, IsUser

LEMMA AdministratorsAreUsers ==
  ActiveAdministrators \subseteq Administrators /\ Administrators \subseteq Users
BY DEF Administrators, ActiveAdministrators

-----------------------------------------------------------------------------
(* What a step does to what the handlers count on.                            *)

\* No row goes away, no generation decreases, no session changes hands.
RowsGrow ==
  /\ \A u \in Users : IsUser(u) => IsUser(u)' /\ user[u].generation <= user'[u].generation
  /\ \A s \in Sessions :
       session[s] # NoRow => session'[s] # NoRow /\ session'[s].user = session[s].user
  /\ \A t \in ResetTokens : resetToken[t] # NoRow => resetToken'[t] # NoRow

AdministratorsStay == ActiveAdministrators # {} => ActiveAdministrators' # {}

\* The open transactions that do not conflict with f would decide the same.
Spares(f) ==
  \A r \in Request :
    /\ r.op \in SerializableOps /\ Allowed(r) /\ ~ Conflict(Footprint(r), f)
    => Allowed(r)'

LEMMA SoundKept ==
  ASSUME IInv, RowsOK', RowsGrow, AdministratorsStay, NEW h \in HandlerState, Sound(h),
         h.phase = "open" /\ h.doomed = FALSE => Allowed(h.request)'
  PROVE  Sound(h)'
<1>1. h.phase \in {"read", "known"} => Named(h.request)'
  <2> SUFFICES ASSUME h.phase \in {"read", "known"} PROVE Named(h.request)'
    OBVIOUS
  <2>1. Named(h.request) /\ h.request \in Request
    BY HandlerFields DEF Sound
  <2> QED
    BY <2>1, RequestFields DEF Named, RowsGrow
<1>2. h.phase = "known" => /\ h.request.op = "refresh"
                           /\ h.generation <= GenerationOf(h.request.session)'
  <2> SUFFICES ASSUME h.phase = "known"
               PROVE  /\ h.request.op = "refresh"
                      /\ h.generation <= GenerationOf(h.request.session)'
    OBVIOUS
  <2> DEFINE s == h.request.session
  <2>1. h.request \in Request /\ h.generation \in 0 .. MaxGeneration
    BY HandlerFields
  <2>2. h.request.op = "refresh" /\ h.generation <= GenerationOf(s) /\ session[s] # NoRow
    BY DEF Sound, Named
  <2>3. s \in Sessions
    BY <2>1, <2>2, RequestFields
  <2>4. /\ session'[s].user = session[s].user /\ session[s].user \in Users
        /\ user[session[s].user] \in UserRow /\ GenerationOf(s) \in 0 .. MaxGeneration
    BY <2>2, <2>3, SessionUser DEF IInv, RowsOK, RowsGrow
  <2>5. user'[session[s].user] \in UserRow
    BY <2>4, UserFields DEF RowsGrow, IsUser, RowsOK, RowsTyped
  <2>6. GenerationOf(s) <= user'[session[s].user].generation
    BY <2>4, UserFields DEF RowsGrow, IsUser, GenerationOf
  <2>7. GenerationOf(s)' = user'[session[s].user].generation
    BY <2>4 DEF GenerationOf
  <2>8. user'[session[s].user].generation \in 0 .. MaxGeneration
    BY <2>5, UserFields
  <2> HIDE DEF s
  <2>9. h.generation <= user'[session[s].user].generation
    BY <2>1, <2>2, <2>4, <2>6, <2>8
  <2> QED
    BY <2>2, <2>7, <2>9 DEF s
<1>3. h.phase # "idle" /\ AskedByAdministrator(h.request) => ActiveAdministrators' # {}
  BY DEF Sound, AdministratorsStay
<1> QED
  BY <1>1, <1>2, <1>3 DEF Sound, AskedByAdministrator

LEMMA CondemnedSound ==
  ASSUME IInv, RowsOK', RowsGrow, AdministratorsStay, NEW f, Spares(f),
         NEW p \in Requests, NEW h \in HandlerState, h = Idle \/ h = Condemned(f)[p]
  PROVE  Sound(h)'
<1>1. CASE h = Idle
  <2>1. h.phase = "idle"
    BY <1>1, IdleHandler
  <2> QED
    BY <2>1 DEF Sound
<1>2. CASE h = Condemned(f)[p]
  <2>1. PICK k \in HandlerState : k = tx[p]
    BY DEF IInv, TypeOK
  <2>2. Sound(k)
    BY <2>1 DEF IInv, HandlersSound
  <2>3. CASE k.phase = "open" /\ Conflict(Footprint(k.request), f)
    <3>1. h = Handler("open", k.request, k.attempt, 0, TRUE)
      BY <1>2, <2>1, <2>3 DEF Condemned
    <3>2. h.phase = "open" /\ h.doomed = TRUE /\ h.request = k.request
      BY <3>1 DEF Handler
    <3>3. AskedByAdministrator(h.request) => ActiveAdministrators' # {}
      BY <2>2, <2>3, <3>2 DEF Sound, AdministratorsStay
    <3> QED
      BY <3>2, <3>3 DEF Sound, AskedByAdministrator
  <2>4. CASE ~ (k.phase = "open" /\ Conflict(Footprint(k.request), f))
    <3>1. h = k
      BY <1>2, <2>1, <2>4 DEF Condemned
    <3>2. h.phase = "open" /\ h.doomed = FALSE => Allowed(h.request)'
      BY <2>2, <2>4, <3>1, HandlerFields DEF Sound, Spares
    <3> QED
      BY <2>2, <3>1, <3>2, SoundKept
  <2> QED
    BY <2>3, <2>4
<1> QED
  BY <1>1, <1>2

LEMMA CondemnedTyped ==
  ASSUME IInv, NEW f
  PROVE  Condemned(f) \in [Requests -> HandlerState]
<1> SUFFICES ASSUME NEW p \in Requests PROVE Condemned(f)[p] \in HandlerState
  BY DEF Condemned
<1>1. PICK k \in HandlerState : k = tx[p]
  BY DEF IInv, TypeOK
<1>2. CASE k.phase = "open"
  BY <1>1, <1>2, HandlerFields, OtherHandlers DEF Condemned
<1>3. CASE k.phase # "open"
  BY <1>1, <1>3 DEF Condemned
<1> QED
  BY <1>2, <1>3

\* A commit of footprint f, by a handler or by a request of one statement.
LEMMA CommitKeeps ==
  ASSUME IInv, RowsOK', RowsGrow, AdministratorsStay, NEW f, Spares(f),
         \/ \E q \in Requests : Committed(q, f)
         \/ tx' = Condemned(f)
  PROVE  IInv'
<1>1. tx' \in [Requests -> HandlerState]
      /\ \A p \in Requests : tx'[p] = Idle \/ tx'[p] = Condemned(f)[p]
  BY CondemnedTyped, IdleHandler DEF Committed
<1>2. TypeOK'
  BY <1>1 DEF TypeOK, RowsOK, RowsTyped
<1>3. HandlersSound'
  <2> SUFFICES ASSUME NEW p \in Requests, NEW h \in HandlerState, tx'[p] = h
               PROVE  Sound(h)'
    BY DEF HandlersSound
  <2> QED
    BY <1>1, CondemnedSound
<1> QED
  BY <1>2, <1>3 DEF IInv

Nothing == [reads |-> {}, rows |-> {}, marks |-> {}]

LEMMA NothingCondemned ==
  ASSUME IInv
  PROVE  Condemned(Nothing) = tx
BY DEF Condemned, Nothing, Conflict, Writes, IInv, TypeOK

LEMMA UserKeeps ==
  ASSUME user' = user
  PROVE  AdministratorsStay /\ \A f : Spares(f)
<1>1. Administrators' = Administrators
  BY DEF Administrators, IsUser
<1>2. ActiveAdministrators' = ActiveAdministrators
  BY <1>1 DEF ActiveAdministrators, IsActive, IsUser
<1>3. ASSUME NEW f PROVE Spares(f)
  <2> SUFFICES ASSUME NEW r \in Request, r.op \in SerializableOps, Allowed(r)
               PROVE  Allowed(r)'
    BY DEF Spares
  <2> QED
    BY <1>1, <1>2 DEF Allowed, RegisterAllowed, DeactivateAllowed, ChangeRoleAllowed,
         Continuity, Countable, IsActive, IsUser, SerializableOps
<1> QED
  BY <1>2, <1>3 DEF AdministratorsStay

\* A handler moves on and nothing is written.
LEMMA QuietKeeps ==
  ASSUME IInv, NEW q \in Requests, NEW h \in HandlerState, Sound(h),
         tx' = [tx EXCEPT ![q] = h], UNCHANGED <<user, session, resetToken, issued>>
  PROVE  IInv'
<1>1. RowsOK'
  BY DEF IInv, RowsOK, RowsTyped, SessionsOwned, IssuedSound, TokenSound, GenerationOf,
     LiveSessionsAreOfActive, ExchangedOnce, OneResetToken, Live, LiveToken, IsActive, IsUser
<1>2. TypeOK'
  BY DEF IInv, TypeOK
<1>3. ASSUME NEW k \in HandlerState, Sound(k) PROVE Sound(k)'
  BY <1>3 DEF Sound, Named, GenerationOf, IsUser, Allowed, RegisterAllowed, DeactivateAllowed,
     ChangeRoleAllowed, RefreshAllowed, Continuity, Countable, Live, LiveToken, IsActive,
     ActiveAdministrators, Administrators, AskedByAdministrator
<1>4. HandlersSound'
  <2> SUFFICES ASSUME NEW p \in Requests, NEW k \in HandlerState, tx'[p] = k
               PROVE  Sound(k)'
    BY DEF HandlersSound
  <2>1. k = h \/ k = tx[p]
    BY DEF IInv, TypeOK
  <2>2. Sound(k)
    BY <2>1 DEF IInv, HandlersSound
  <2> QED
    BY <1>3, <2>2
<1> QED
  BY <1>1, <1>2, <1>4 DEF IInv

\* One user's row is written.
LEMMA UserWrite ==
  ASSUME RowsTyped, NEW u \in Users, NEW row \in UserRow, user' = [user EXCEPT ![u] = row],
         NEW f, ~ IsUser(u) \/ u \in f.rows,
         u \in ActiveAdministrators /\ ~ (row.role = "ADMIN" /\ row.status = "ACTIVE")
           => /\ "admins" \in f.reads /\ "admins" \in f.marks
              /\ ActiveAdministrators \ {u} # {},
         row.role = "ADMIN" /\ Administrators = {}
           => "admins" \in f.reads /\ "admins" \in f.marks
  PROVE  AdministratorsStay /\ Spares(f)
<1>0. /\ user'[u] = row /\ row # NoRow
      /\ \A x \in Users \ {u} : user'[x] = user[x]
  BY UserFields DEF RowsTyped
<1>1. \A x \in Users \ {u} : /\ x \in Administrators <=> x \in Administrators'
                             /\ x \in ActiveAdministrators <=> x \in ActiveAdministrators'
                             /\ IsUser(x) <=> IsUser(x)'
                             /\ IsActive(x) <=> IsActive(x)'
  BY <1>0 DEF Administrators, ActiveAdministrators, IsActive, IsUser
<1>2. row.role = "ADMIN" /\ row.status = "ACTIVE" => u \in ActiveAdministrators'
  BY <1>0 DEF Administrators, ActiveAdministrators, IsActive, IsUser
<1>3. u \in Administrators' => row.role = "ADMIN"
  BY <1>0 DEF Administrators
<1>4. AdministratorsStay
  BY <1>1, <1>2, AdministratorsAreUsers DEF AdministratorsStay
<1>5. ASSUME NEW r \in Request, r.op \in SerializableOps, Allowed(r),
             ~ Conflict(Footprint(r), f)
      PROVE  Allowed(r)'
  <2>1. CASE r.op = "register"
    <3> SUFFICES ASSUME Administrators' # {} PROVE r.actor
      BY <2>1 DEF Allowed, RegisterAllowed
    <3>1. CASE Administrators # {}
      BY <1>5, <2>1, <3>1 DEF Allowed, RegisterAllowed
    <3>2. CASE Administrators = {}
      <4>0. Administrators' \subseteq Users
        BY DEF Administrators
      <4>1. row.role = "ADMIN"
        BY <1>1, <1>3, <3>2, <4>0
      <4>2. "admins" \in Footprint(r).reads /\ "admins" \in Footprint(r).marks
        BY <2>1 DEF Footprint, ReadsAdministrators, WritesAdministrators
      <4> QED
        BY <1>5, <3>2, <4>1, <4>2 DEF Conflict, Writes
    <3> QED
      BY <3>1, <3>2
  <2>2. CASE r.op \in {"deactivate", "changeRole"}
    <3>1. r.user \in Users /\ r.user \in Footprint(r).rows /\ IsUser(r.user)
      BY <1>5, <2>2, RequestFields
         DEF Footprint, UserOf, Allowed, DeactivateAllowed, ChangeRoleAllowed, IsActive
    <3>2. r.user # u
      BY <1>5, <3>1 DEF Conflict
    <3>3. user'[r.user] = user[r.user]
      BY <1>0, <3>1, <3>2
    <3>4. ASSUME NEW role, Continuity(r.user, role),
                 r.op = "deactivate" \/ (r.op = "changeRole" /\ role = r.role)
          PROVE  Continuity(r.user, role)'
      <4> SUFFICES ASSUME r.user \in ActiveAdministrators', role # "ADMIN"
                   PROVE  ActiveAdministrators' \ {r.user} # {}
        BY DEF Continuity
      <4>1. r.user \in ActiveAdministrators /\ ActiveAdministrators \ {r.user} # {}
        BY <1>1, <3>1, <3>2, <3>4 DEF Continuity
      <4>2. "admins" \in Footprint(r).reads /\ "admins" \in Footprint(r).marks
        BY <3>4, <4>1, AdministratorsAreUsers
           DEF Footprint, ReadsAdministrators, WritesAdministrators
      <4>3. ~ ("admins" \in f.reads /\ "admins" \in f.marks)
        BY <1>5, <4>2 DEF Conflict, Writes
      <4>4. u \in ActiveAdministrators => u \in ActiveAdministrators'
        BY <1>2, <4>3
      <4> QED
        BY <1>1, <4>1, <4>4, AdministratorsAreUsers
    <3>5. CASE r.op = "deactivate"
      <4>1. DeactivateAllowed(r)
        BY <1>5, <3>5 DEF Allowed
      <4>2. Continuity(r.user, "none")'
        BY <3>4, <3>5, <4>1 DEF DeactivateAllowed
      <4>3. IsActive(r.user)' /\ Countable(r.user)'
        BY <3>3, <4>1 DEF DeactivateAllowed, Countable, IsActive, IsUser
      <4> QED
        BY <3>5, <4>2, <4>3 DEF Allowed, DeactivateAllowed
    <3>6. CASE r.op = "changeRole"
      <4>1. ChangeRoleAllowed(r)
        BY <1>5, <3>6 DEF Allowed
      <4>2. ChangeRoleAllowed(r)'
        BY <3>3, <3>4, <3>6, <4>1 DEF ChangeRoleAllowed, Countable, IsUser
      <4> QED
        BY <3>6, <4>2 DEF Allowed
    <3> QED
      BY <2>2, <3>5, <3>6
  <2> QED
    BY <1>5, <2>1, <2>2 DEF SerializableOps
<1> QED
  BY <1>4, <1>5 DEF Spares

-----------------------------------------------------------------------------
(* What a step does to the rows.                                              *)

\* The sessions while user u gets the row: none comes or changes hands, and one
\* is barred only as the generation grows.
SessionsFollow(u, row) ==
  \A s \in Sessions :
    /\ session[s] = NoRow => session'[s] = NoRow
    /\ session[s] # NoRow =>
         /\ session'[s] # NoRow
         /\ session'[s].user = session[s].user /\ session'[s].hash = session[s].hash
         /\ session'[s].revoked = "no" => session[s].revoked = "no"
         /\ session'[s].revoked = "no" /\ session[s].user = u => row.status = "ACTIVE"
         /\ session'[s].revoked = "barred" /\ session[s].revoked # "barred" =>
              session[s].user = u /\ user[u].generation < row.generation

ResetTokensFollow(u, row) ==
  \A t \in ResetTokens :
    /\ resetToken[t] = NoRow => resetToken'[t] = NoRow
    /\ resetToken[t] # NoRow =>
         /\ resetToken'[t] # NoRow /\ resetToken'[t].user = resetToken[t].user
         /\ resetToken'[t].state = "live" => resetToken[t].state = "live"
         /\ resetToken'[t].state = "live" /\ resetToken[t].user = u => row.status = "ACTIVE"

LEMMA UserRows ==
  ASSUME RowsOK, RowsTyped', NEW u \in Users, NEW row \in UserRow,
         user' = [user EXCEPT ![u] = row], issued' = issued,
         IsUser(u) => user[u].generation <= row.generation,
         SessionsFollow(u, row), ResetTokensFollow(u, row)
  PROVE  RowsOK' /\ RowsGrow
<1>0. /\ RowsTyped /\ SessionsOwned /\ IssuedSound /\ LiveSessionsAreOfActive
      /\ ExchangedOnce /\ OneResetToken
  BY DEF RowsOK
<1>1. /\ user'[u] = row /\ row # NoRow
      /\ \A x \in Users \ {u} : user'[x] = user[x]
  BY <1>0, UserFields DEF RowsTyped
<1>2. ASSUME NEW x \in Users, IsUser(x)
      PROVE  IsUser(x)' /\ user[x].generation <= user'[x].generation
  <2>1. user[x] \in UserRow
    BY <1>0, <1>2 DEF RowsTyped, IsUser
  <2>2. user[x].generation \in Nat
    BY <2>1, UserFields, AccountsAssumption
  <2>3. CASE x = u
    BY <1>1, <1>2, <2>3 DEF IsUser
  <2>4. CASE x # u
    BY <1>1, <1>2, <2>2, <2>4 DEF IsUser
  <2> QED
    BY <2>3, <2>4
<1>3. RowsGrow
  BY <1>2 DEF RowsGrow, SessionsFollow, ResetTokensFollow
<1>4. SessionsOwned'
  <2> SUFFICES ASSUME NEW s \in Sessions, session'[s] # NoRow PROVE IsUser(session[s].user)'
    BY DEF SessionsOwned, SessionsFollow, IsUser
  <2>1. session[s] # NoRow
    BY DEF SessionsFollow
  <2> QED
    BY <1>0, <1>1, <2>1, SessionUser DEF IsUser, SessionsOwned, SessionsFollow
<1>5. IssuedSound'
  <2> SUFFICES ASSUME NEW t \in issued PROVE TokenSound(t)'
    BY DEF IssuedSound
  <2>1. t \in AccessToken /\ TokenSound(t)
    BY <1>0 DEF RowsTyped, IssuedSound
  <2>2. PICK s \in Sessions : s = t.session
    BY <2>1, TokenFields
  <2>3. /\ session[s] # NoRow /\ session[s].user \in Users
        /\ GenerationOf(s) \in Nat /\ IsUser(session[s].user)
    BY <1>0, <2>1, <2>2, SessionUser, AccountsAssumption DEF TokenSound, SessionsOwned
  <2>4. PICK x \in Users : x = session[s].user
    BY <2>3
  <2>5. session'[s] # NoRow /\ session'[s].user = x /\ session'[s].hash = session[s].hash
    BY <2>3, <2>4 DEF SessionsFollow
  <2>6. PICK g \in Nat : g = user[x].generation
    BY <2>3, <2>4 DEF GenerationOf
  <2>7. user'[x].generation \in Nat /\ g <= user'[x].generation
    <3>1. user'[x] # NoRow /\ g <= user'[x].generation
      BY <1>2, <2>3, <2>4, <2>6 DEF IsUser
    <3>2. user'[x] \in UserRow
      BY <3>1 DEF RowsTyped
    <3> QED
      BY <3>1, <3>2, UserFields, AccountsAssumption
  <2>8. PICK n \in Nat : n = user'[x].generation
    BY <2>7
  <2>9. t.generation \in Nat /\ t.generation <= g
    BY <2>1, <2>2, <2>4, <2>6, TokenFields, AccountsAssumption DEF TokenSound, GenerationOf
  <2>10. GenerationOf(s)' = n
    BY <2>5, <2>8 DEF GenerationOf
  <2>11. session'[s].revoked = "barred" => t.generation < n
    <3>1. CASE session[s].revoked = "barred"
      <4>1. t.generation < g
        BY <2>1, <2>2, <2>4, <2>6, <3>1 DEF TokenSound, GenerationOf
      <4> QED
        BY <2>7, <2>8, <2>9, <4>1
    <3>2. CASE session[s].revoked # "barred"
      <4> SUFFICES ASSUME session'[s].revoked = "barred" PROVE t.generation < n
        OBVIOUS
      <4>1. x = u /\ g < row.generation
        BY <2>3, <2>4, <2>6, <3>2 DEF SessionsFollow
      <4>2. n = row.generation
        BY <1>1, <2>8, <4>1
      <4> QED
        BY <2>9, <4>1, <4>2
    <3> QED
      BY <3>1, <3>2
  <2>12. t.generation <= n
    BY <2>7, <2>8, <2>9
  <2>13. t.exchanged # NoHash => t.exchanged < session'[s].hash
    BY <2>1, <2>2, <2>5 DEF TokenSound
  <2> QED
    BY <2>2, <2>5, <2>10, <2>11, <2>12, <2>13 DEF TokenSound
<1>6. LiveSessionsAreOfActive'
  <2> SUFFICES ASSUME NEW s \in Sessions, Live(s)' PROVE IsActive(session[s].user)'
    BY DEF LiveSessionsAreOfActive
  <2>1. /\ session[s] # NoRow /\ session[s].revoked = "no"
        /\ session'[s].user = session[s].user
        /\ session[s].user = u => row.status = "ACTIVE"
    BY DEF SessionsFollow, Live
  <2>2. session[s].user \in Users /\ IsActive(session[s].user)
    BY <1>0, <2>1, SessionUser DEF LiveSessionsAreOfActive, Live
  <2> QED
    BY <1>1, <2>1, <2>2 DEF IsActive, IsUser
<1>7. ExchangedOnce'
  BY <1>0 DEF ExchangedOnce
<1>8. OneResetToken'
  <2>1. ASSUME NEW t \in ResetTokens, LiveToken(t)'
        PROVE  /\ LiveToken(t) /\ resetToken'[t].user = resetToken[t].user
               /\ resetToken[t].user = u => row.status = "ACTIVE"
    BY <2>1 DEF ResetTokensFollow, LiveToken
  <2>2. ASSUME NEW t \in ResetTokens, LiveToken(t)'
        PROVE  IsActive(resetToken[t].user)'
    <3>1. resetToken[t] \in ResetTokenRow
      BY <1>0, <2>1, <2>2 DEF RowsTyped, LiveToken
    <3>2. resetToken[t].user \in Users /\ IsActive(resetToken[t].user)
      BY <1>0, <2>1, <2>2, <3>1, ResetTokenFields DEF OneResetToken
    <3> QED
      BY <1>1, <2>1, <2>2, <3>2 DEF IsActive, IsUser
  <2> QED
    BY <1>0, <2>1, <2>2 DEF OneResetToken
<1> QED
  BY <1>3, <1>4, <1>5, <1>6, <1>7, <1>8 DEF RowsOK

\* Nothing but the users.
LEMMA UserRowOnly ==
  ASSUME RowsOK, NEW u \in Users, NEW row \in UserRow, user' = [user EXCEPT ![u] = row],
         UNCHANGED <<session, resetToken, issued>>,
         IsUser(u) => /\ user[u].generation <= row.generation
                      /\ IsActive(u) => row.status = "ACTIVE"
  PROVE  RowsOK' /\ RowsGrow
<1>1. RowsTyped'
  BY DEF RowsOK, RowsTyped
<1>2. SessionsFollow(u, row)
  <2> SUFFICES ASSUME NEW s \in Sessions, session[s] # NoRow, session[s].revoked = "no",
                      session[s].user = u
               PROVE  row.status = "ACTIVE"
    BY DEF SessionsFollow
  <2> QED
    BY DEF RowsOK, LiveSessionsAreOfActive, Live, IsActive
<1>3. ResetTokensFollow(u, row)
  <2> SUFFICES ASSUME NEW t \in ResetTokens, LiveToken(t), resetToken[t].user = u
               PROVE  row.status = "ACTIVE"
    BY DEF ResetTokensFollow, LiveToken
  <2> QED
    BY DEF RowsOK, OneResetToken, IsActive
<1> QED
  BY <1>1, <1>2, <1>3, UserRows DEF RowsOK

\* Nothing but the sessions and the tokens of one active user.
LEMMA ActiveUserOnly ==
  ASSUME RowsOK, RowsTyped', NEW u \in Users, IsActive(u), UNCHANGED <<user, issued>>,
         \A row \in UserRow :
           row = user[u] => SessionsFollow(u, row) /\ ResetTokensFollow(u, row)
  PROVE  RowsOK' /\ RowsGrow
<1>1. PICK row \in UserRow : row = user[u] /\ user' = [user EXCEPT ![u] = row]
  BY DEF RowsOK, RowsTyped, IsActive, IsUser
<1>2. row.generation <= row.generation
  BY UserFields, AccountsAssumption
<1> QED
  BY <1>1, <1>2, UserRows

LEMMA RevokedSessions ==
  ASSUME RowsTyped, NEW u \in Users, NEW as \in {"ended", "barred"}, session' = Revoked(u, as)
  PROVE  /\ session' \in [Sessions -> SessionRow \cup {NoRow}]
         /\ \A s \in Sessions :
              /\ session[s] = NoRow => session'[s] = NoRow
              /\ session[s] # NoRow =>
                   /\ session'[s] # NoRow
                   /\ session'[s].user = session[s].user /\ session'[s].hash = session[s].hash
                   /\ session'[s].revoked =
                        IF session[s].revoked = "no" /\ session[s].user = u
                        THEN as ELSE session[s].revoked
<1> SUFFICES ASSUME NEW s \in Sessions
             PROVE  /\ session'[s] \in SessionRow \cup {NoRow}
                    /\ session[s] = NoRow => session'[s] = NoRow
                    /\ session[s] # NoRow =>
                         /\ session'[s] # NoRow
                         /\ session'[s].user = session[s].user
                         /\ session'[s].hash = session[s].hash
                         /\ session'[s].revoked =
                              IF session[s].revoked = "no" /\ session[s].user = u
                              THEN as ELSE session[s].revoked
  BY DEF Revoked
<1>1. CASE Live(s) /\ session[s].user = u
  <2>1. session'[s] = [user |-> u, hash |-> session[s].hash, revoked |-> as]
    BY <1>1 DEF Revoked
  <2>2. session[s] \in SessionRow
    BY <1>1 DEF RowsTyped, Live
  <2>3. session'[s] \in SessionRow
    BY <2>1, <2>2, SessionFields DEF SessionRow
  <2>4. session'[s].user = u /\ session'[s].hash = session[s].hash /\ session'[s].revoked = as
    BY <2>1
  <2>5. session'[s] # NoRow
    BY <2>3, SessionFields
  <2> QED
    BY <1>1, <2>3, <2>4, <2>5 DEF Live
<1>2. CASE ~ (Live(s) /\ session[s].user = u)
  <2>1. session'[s] = session[s]
    BY <1>2 DEF Revoked
  <2> QED
    BY <1>2, <2>1 DEF Live, RowsTyped
<1> QED
  BY <1>1, <1>2

-----------------------------------------------------------------------------
(* The steps of the handlers that write nothing.                              *)

LEMMA HandlerOf ==
  ASSUME IInv, NEW q \in Requests
  PROVE  \E k \in HandlerState : k = tx[q] /\ Sound(k)
BY DEF IInv, TypeOK, HandlersSound

LEMMA StartKeeps ==
  ASSUME IInv, NEW q \in Requests, NEW r \in Request, Start(q, r)
  PROVE  IInv'
<1>1. 1 \in 1 .. MaxAttempts /\ 0 \in 0 .. MaxGeneration
  BY AttemptsAssumption, AccountsAssumption
<1>2. Named(r) /\ Allowed(r) /\ (AskedByAdministrator(r) => ActiveAdministrators # {})
  BY DEF Start, Named, Allowed, RefreshAllowed, IsActive, Live, LiveToken
<1>3. CASE r.op \in SerializableOps
  <2> DEFINE h == Handler("open", r, 1, 0, FALSE)
  <2>1. h \in HandlerState
    BY <1>1, <1>3, OtherHandlers
  <2>2. Sound(h)
    BY <1>2 DEF Sound, Handler
  <2>3. tx' = [tx EXCEPT ![q] = h] /\ UNCHANGED <<user, session, resetToken, issued>>
    BY <1>3 DEF Start
  <2> HIDE DEF h
  <2> QED
    BY <2>1, <2>2, <2>3, QuietKeeps
<1>4. CASE r.op \notin SerializableOps
  <2> DEFINE h == Handler("read", r, 1, 0, FALSE)
  <2>1. h \in HandlerState
    BY <1>1, ReadHandlers
  <2>2. Sound(h)
    BY <1>2 DEF Sound, Handler
  <2>3. tx' = [tx EXCEPT ![q] = h] /\ UNCHANGED <<user, session, resetToken, issued>>
    BY <1>4 DEF Start
  <2> HIDE DEF h
  <2> QED
    BY <2>1, <2>2, <2>3, QuietKeeps
<1> QED
  BY <1>3, <1>4

LEMMA SerializationFailureKeeps ==
  ASSUME IInv, NEW q \in Requests, SerializationFailure(q)
  PROVE  IInv'
<1>1. PICK k \in HandlerState : k = tx[q] /\ Sound(k)
  BY HandlerOf
<1>2. /\ k.phase = "open" /\ k.request.op = "register" /\ k.attempt < MaxAttempts
      /\ k.request \in Request /\ k.attempt \in 1 .. MaxAttempts
  BY <1>1, HandlerFields DEF SerializationFailure, MayRetry
<1>3. k.attempt + 1 \in 1 .. MaxAttempts
  BY <1>2, AttemptsAssumption
<1> DEFINE h == Handler("waiting", k.request, k.attempt + 1, 0, FALSE)
<1>4. h \in HandlerState
  BY <1>2, <1>3, OtherHandlers
<1>5. h.phase = "waiting" /\ h.request = k.request
  BY DEF Handler
<1>6. tx' = [tx EXCEPT ![q] = h] /\ UNCHANGED <<user, session, resetToken, issued>>
  BY <1>1 DEF SerializationFailure
<1> HIDE DEF h
<1>7. Sound(h)
  BY <1>1, <1>2, <1>5 DEF Sound
<1> QED
  BY <1>4, <1>6, <1>7, QuietKeeps

LEMMA RestartKeeps ==
  ASSUME IInv, NEW q \in Requests, Restart(q)
  PROVE  IInv'
<1>1. PICK k \in HandlerState : k = tx[q] /\ Sound(k)
  BY HandlerOf
<1>2. /\ k.phase = "waiting" /\ k.request.op = "register" /\ Allowed(k.request)
      /\ k.request \in Request /\ k.attempt \in 1 .. MaxAttempts
  BY <1>1, HandlerFields DEF Restart
<1> DEFINE h == Handler("open", k.request, k.attempt, 0, FALSE)
<1>4. h \in HandlerState
  BY <1>2, OtherHandlers DEF SerializableOps
<1>5. h.phase = "open" /\ h.request = k.request
  BY DEF Handler
<1>6. tx' = [tx EXCEPT ![q] = h] /\ UNCHANGED <<user, session, resetToken, issued>>
  BY <1>1 DEF Restart
<1> HIDE DEF h
<1>7. Sound(h)
  BY <1>1, <1>2, <1>5 DEF Sound
<1> QED
  BY <1>4, <1>6, <1>7, QuietKeeps

LEMMA FailKeeps ==
  ASSUME IInv, NEW q \in Requests, Fail(q)
  PROVE  IInv'
<1>1. Sound(Idle)
  BY IdleHandler DEF Sound
<1> QED
  BY <1>1, IdleHandler, QuietKeeps DEF Fail

LEMMA KnowUserKeeps ==
  ASSUME IInv, NEW q \in Requests, KnowUser(q)
  PROVE  IInv'
<1>1. PICK k \in HandlerState : k = tx[q] /\ Sound(k)
  BY HandlerOf
<1>2. /\ k.phase = "read" /\ k.request.op = "refresh" /\ k.request \in Request
      /\ k.request.session \in Sessions /\ session[k.request.session] # NoRow
  BY <1>1, HandlerFields, RequestFields DEF KnowUser, Read, Sound, Named
<1>3. PICK g \in 0 .. MaxGeneration : g = GenerationOf(k.request.session)
  BY <1>2, SessionUser DEF IInv, RowsOK
<1>3a. g <= g
  BY <1>3, AccountsAssumption
<1> DEFINE h == Handler("known", k.request, 1, g, FALSE)
<1>4. h \in HandlerState
  BY <1>2, ReadHandlers
<1>5. h.phase = "known" /\ h.request = k.request /\ h.generation = g
  BY DEF Handler
<1>6. tx' = [tx EXCEPT ![q] = h] /\ UNCHANGED <<user, session, resetToken, issued>>
  BY <1>1, <1>3 DEF KnowUser, GenerationOf
<1> HIDE DEF h
<1>7. Sound(h)
  BY <1>1, <1>2, <1>3, <1>3a, <1>5 DEF Sound, Named
<1> QED
  BY <1>4, <1>6, <1>7, QuietKeeps

-----------------------------------------------------------------------------
(* The commits that write a user.                                             *)

LEMMA JoinKeeps ==
  ASSUME IInv, NEW u \in Users, Join(u)
  PROVE  IInv' /\ AdministratorsStay
<1>1. PICK row \in UserRow : row = Row("ACTIVE", "MEMBER", 0)
  <2>1. 0 \in 0 .. MaxGeneration
    BY AccountsAssumption
  <2> QED
    BY <2>1, MadeUser DEF Roles
<1>2. row.role = "MEMBER" /\ row.status = "ACTIVE"
  BY <1>1 DEF Row
<1>3. /\ ~ IsUser(u) /\ user' = [user EXCEPT ![u] = row]
      /\ UNCHANGED <<session, resetToken, issued, tx>>
  BY <1>1 DEF Join
<1>4. RowsOK' /\ RowsGrow
  BY <1>3, UserRowOnly DEF IInv
<1>5. u \notin ActiveAdministrators
  BY <1>3, AdministratorSets DEF IsUser
<1>6. AdministratorsStay /\ Spares(Nothing)
  BY <1>2, <1>3, <1>5, UserWrite DEF IInv, RowsOK
<1>7. tx' = Condemned(Nothing)
  BY <1>3, NothingCondemned
<1> QED
  BY <1>4, <1>6, <1>7, CommitKeeps

LEMMA CommitRegisterKeeps ==
  ASSUME IInv, NEW q \in Requests, CommitRegister(q)
  PROVE  IInv' /\ AdministratorsStay
<1>1. PICK k \in HandlerState : k = tx[q] /\ Sound(k)
  BY HandlerOf
<1>2. PICK row \in UserRow : row = Row("ACTIVE", "ADMIN", 0)
  <2>1. 0 \in 0 .. MaxGeneration
    BY AccountsAssumption
  <2> QED
    BY <2>1, MadeUser DEF Roles
<1>3. row.role = "ADMIN" /\ row.status = "ACTIVE"
  BY <1>2 DEF Row
<1>4. PICK u \in Users : ~ IsUser(u) /\ user' = [user EXCEPT ![u] = row]
  BY <1>2 DEF CommitRegister
<1>5. RowsOK' /\ RowsGrow
  BY <1>4, UserRowOnly DEF IInv, CommitRegister
<1>6. PICK f : f = Footprint(k.request)
  OBVIOUS
<1>7. k.request.op = "register" /\ Committed(q, f)
  BY <1>1, <1>6 DEF CommitRegister, Open
<1>8. "admins" \in f.reads /\ "admins" \in f.marks
  BY <1>6, <1>7 DEF Footprint, ReadsAdministrators, WritesAdministrators
<1>9. AdministratorsStay /\ Spares(f)
  BY <1>3, <1>4, <1>8, UserWrite DEF IInv, RowsOK
<1> QED
  BY <1>5, <1>7, <1>9, CommitKeeps

LEMMA CommitDeactivateKeeps ==
  ASSUME IInv, NEW q \in Requests, CommitDeactivate(q)
  PROVE  IInv' /\ AdministratorsStay
<1>1. PICK k \in HandlerState : k = tx[q] /\ Sound(k)
  BY HandlerOf
<1>2. /\ k.request.op = "deactivate" /\ k.request \in Request
      /\ DeactivateAllowed(k.request) /\ k.request.user \in Users
  BY <1>1, HandlerFields, RequestFields DEF CommitDeactivate, Open, Sound, Allowed
<1>3. PICK u \in Users : u = k.request.user
  BY <1>2
<1>4. user[u] \in UserRow /\ user[u].generation < MaxGeneration
  BY <1>2, <1>3 DEF DeactivateAllowed, Countable, IsActive, IsUser, IInv, RowsOK, RowsTyped
<1>5. user[u].generation + 1 \in 0 .. MaxGeneration /\ user[u].generation < user[u].generation + 1
  BY <1>4, UserFields, AccountsAssumption
<1>6. PICK row \in UserRow : row = Row("INACTIVE", user[u].role, user[u].generation + 1)
  BY <1>4, <1>5, UserFields, MadeUser
<1>7. /\ row.status = "INACTIVE" /\ row.role = user[u].role
      /\ user[u].generation < row.generation /\ user[u].generation <= row.generation
  BY <1>4, <1>5, <1>6, UserFields, AccountsAssumption DEF Row
<1>8. /\ user' = [user EXCEPT ![u] = row] /\ session' = Revoked(u, "barred") /\ issued' = issued
      /\ resetToken' = [t \in ResetTokens |->
                          IF resetToken[t] # NoRow /\ resetToken[t].user = u
                          THEN [user |-> u, state |-> "used"] ELSE resetToken[t]]
  BY <1>1, <1>3, <1>6 DEF CommitDeactivate
<1>9. ASSUME NEW t \in ResetTokens
      PROVE  /\ resetToken'[t] \in ResetTokenRow \cup {NoRow}
             /\ resetToken[t] = NoRow => resetToken'[t] = NoRow
             /\ resetToken[t] # NoRow =>
                  /\ resetToken'[t] # NoRow /\ resetToken'[t].user = resetToken[t].user
                  /\ resetToken[t].user = u => resetToken'[t].state = "used"
                  /\ resetToken[t].user # u => resetToken'[t] = resetToken[t]
  <2>1. CASE resetToken[t] # NoRow /\ resetToken[t].user = u
    <3>1. resetToken'[t] = [user |-> u, state |-> "used"]
      BY <1>8, <2>1
    <3>2. resetToken'[t] \in ResetTokenRow
      BY <3>1 DEF ResetTokenRow
    <3> QED
      BY <2>1, <3>1, <3>2, ResetTokenFields
  <2>2. CASE ~ (resetToken[t] # NoRow /\ resetToken[t].user = u)
    <3>1. resetToken'[t] = resetToken[t]
      BY <1>8, <2>2
    <3> QED
      BY <2>2, <3>1 DEF IInv, RowsOK, RowsTyped
  <2> QED
    BY <2>1, <2>2
<1>10. SessionsFollow(u, row)
  BY <1>7, <1>8, RevokedSessions DEF SessionsFollow, IInv, RowsOK
<1>11. ResetTokensFollow(u, row)
  BY <1>9 DEF ResetTokensFollow
<1>12. resetToken' \in [ResetTokens -> ResetTokenRow \cup {NoRow}]
  <2>1. resetToken' = [t \in ResetTokens |-> resetToken'[t]]
    BY <1>8
  <2> QED
    BY <1>9, <2>1
<1>13. RowsTyped'
  BY <1>8, <1>12, RevokedSessions DEF RowsTyped, IInv, RowsOK
<1>14. RowsOK' /\ RowsGrow
  BY <1>7, <1>8, <1>10, <1>11, <1>13, UserRows DEF IInv
<1>15. PICK f : f = Footprint(k.request)
  OBVIOUS
<1>16. Committed(q, f) /\ u \in f.rows
  BY <1>1, <1>2, <1>3, <1>15 DEF CommitDeactivate, Footprint, UserOf
<1>17. u \in ActiveAdministrators =>
         "admins" \in f.reads /\ "admins" \in f.marks /\ ActiveAdministrators \ {u} # {}
  BY <1>2, <1>3, <1>15, AdministratorsAreUsers
     DEF Footprint, ReadsAdministrators, WritesAdministrators, DeactivateAllowed, Continuity
<1>18. Administrators # {}
  BY <1>1, <1>2, HandlerFields, AdministratorsAreUsers
     DEF Sound, AskedByAdministrator, CommitDeactivate, Open
<1>19. AdministratorsStay /\ Spares(f)
  BY <1>7, <1>8, <1>16, <1>17, <1>18, UserWrite DEF IInv, RowsOK
<1> QED
  BY <1>14, <1>16, <1>19, CommitKeeps

LEMMA CommitChangeRoleKeeps ==
  ASSUME IInv, NEW q \in Requests, CommitChangeRole(q)
  PROVE  IInv' /\ AdministratorsStay
<1>1. PICK k \in HandlerState : k = tx[q] /\ Sound(k)
  BY HandlerOf
<1>2. /\ k.request.op = "changeRole" /\ k.request \in Request
      /\ ChangeRoleAllowed(k.request) /\ k.request.user \in Users /\ k.request.role \in Roles
  BY <1>1, HandlerFields, RequestFields DEF CommitChangeRole, Open, Sound, Allowed
<1>3. PICK u \in Users : u = k.request.user
  BY <1>2
<1>4. user[u] \in UserRow /\ user[u].generation < MaxGeneration
  BY <1>2, <1>3 DEF ChangeRoleAllowed, Countable, IsUser, IInv, RowsOK, RowsTyped
<1>5. user[u].generation + 1 \in 0 .. MaxGeneration /\ user[u].generation < user[u].generation + 1
  BY <1>4, UserFields, AccountsAssumption
<1>6. PICK row \in UserRow : row = Row(user[u].status, k.request.role, user[u].generation + 1)
  BY <1>2, <1>4, <1>5, UserFields, MadeUser
<1>7. /\ row.status = user[u].status /\ row.role = k.request.role
      /\ user[u].generation < row.generation /\ user[u].generation <= row.generation
  BY <1>4, <1>5, <1>6, UserFields, AccountsAssumption DEF Row
<1>8. /\ user' = [user EXCEPT ![u] = row] /\ session' = Revoked(u, "barred")
      /\ UNCHANGED <<resetToken, issued>>
  BY <1>1, <1>3, <1>6 DEF CommitChangeRole
<1>9. SessionsFollow(u, row)
  BY <1>7, <1>8, RevokedSessions DEF SessionsFollow, IInv, RowsOK
<1>10. ResetTokensFollow(u, row)
  <2> SUFFICES ASSUME NEW t \in ResetTokens, LiveToken(t), resetToken[t].user = u
               PROVE  row.status = "ACTIVE"
    BY <1>8 DEF ResetTokensFollow, LiveToken
  <2> QED
    BY <1>7 DEF IInv, RowsOK, OneResetToken, IsActive
<1>11. RowsTyped'
  BY <1>8, RevokedSessions DEF RowsTyped, IInv, RowsOK
<1>12. RowsOK' /\ RowsGrow
  BY <1>7, <1>8, <1>9, <1>10, <1>11, UserRows DEF IInv
<1>13. PICK f : f = Footprint(k.request)
  OBVIOUS
<1>14. Committed(q, f) /\ u \in f.rows
  BY <1>1, <1>2, <1>3, <1>13 DEF CommitChangeRole, Footprint, UserOf
<1>15. u \in ActiveAdministrators /\ ~ (row.role = "ADMIN" /\ row.status = "ACTIVE") =>
         "admins" \in f.reads /\ "admins" \in f.marks /\ ActiveAdministrators \ {u} # {}
  <2> SUFFICES ASSUME u \in ActiveAdministrators, k.request.role # "ADMIN"
               PROVE  /\ "admins" \in f.reads /\ "admins" \in f.marks
                      /\ ActiveAdministrators \ {u} # {}
    BY <1>7, AdministratorSets
  <2> QED
    BY <1>2, <1>3, <1>13, AdministratorsAreUsers
       DEF Footprint, ReadsAdministrators, WritesAdministrators, ChangeRoleAllowed, Continuity
<1>16. Administrators # {}
  BY <1>1, <1>2, HandlerFields, AdministratorsAreUsers
     DEF Sound, AskedByAdministrator, CommitChangeRole, Open
<1>17. AdministratorsStay /\ Spares(f)
  BY <1>7, <1>8, <1>14, <1>15, <1>16, UserWrite DEF IInv, RowsOK
<1> QED
  BY <1>12, <1>14, <1>17, CommitKeeps

LEMMA CommitActivateKeeps ==
  ASSUME IInv, NEW q \in Requests, CommitActivate(q)
  PROVE  IInv' /\ AdministratorsStay
<1>1. PICK k \in HandlerState : k = tx[q] /\ Sound(k)
  BY HandlerOf
<1>2. /\ k.request.op = "activate" /\ k.request \in Request /\ k.request.user \in Users
      /\ IsUser(k.request.user) /\ ActiveAdministrators # {}
  BY <1>1, HandlerFields, RequestFields
     DEF CommitActivate, Read, Sound, Named, AskedByAdministrator
<1>3. PICK u \in Users : u = k.request.user
  BY <1>2
<1>4. user[u] \in UserRow
  BY <1>2, <1>3 DEF IsUser, IInv, RowsOK, RowsTyped
<1>5. PICK row \in UserRow : row = Row("ACTIVE", user[u].role, user[u].generation)
  BY <1>4, UserFields, MadeUser
<1>6. /\ row.status = "ACTIVE" /\ row.role = user[u].role
      /\ user[u].generation <= row.generation
  BY <1>4, <1>5, UserFields, AccountsAssumption DEF Row
<1>7. user' = [user EXCEPT ![u] = row] /\ UNCHANGED <<session, resetToken, issued>>
  BY <1>1, <1>3, <1>5 DEF CommitActivate
<1>8. RowsOK' /\ RowsGrow
  BY <1>6, <1>7, UserRowOnly DEF IInv
<1>9. PICK f : f = RowOnly(u)
  OBVIOUS
<1>10. Committed(q, f) /\ u \in f.rows
  BY <1>1, <1>3, <1>9 DEF CommitActivate, RowOnly
<1>11. u \in ActiveAdministrators => row.role = "ADMIN"
  BY <1>6, AdministratorSets
<1>12. Administrators # {}
  BY <1>2, AdministratorsAreUsers
<1>13. AdministratorsStay /\ Spares(f)
  BY <1>6, <1>7, <1>10, <1>11, <1>12, UserWrite DEF IInv, RowsOK
<1> QED
  BY <1>8, <1>10, <1>13, CommitKeeps

-----------------------------------------------------------------------------
(* The commits that write a session or a reset token.                         *)

\* A session is made or its hash moves on, and a token is signed for it.
LEMMA SignedRows ==
  ASSUME RowsOK, UNCHANGED <<user, resetToken>>, NEW s \in Sessions, NEW row \in SessionRow,
         session' = [session EXCEPT ![s] = row], row.revoked = "no", IsActive(row.user),
         session[s] # NoRow => row.user = session[s].user /\ session[s].hash <= row.hash,
         NEW new \in AccessToken, issued' = issued \cup {new}, new.session = s,
         new.generation <= user[row.user].generation,
         new.exchanged # NoHash => new.exchanged < row.hash,
         \A t \in issued : t.session = s => t.exchanged # new.exchanged
  PROVE  RowsOK' /\ RowsGrow
<1>0. /\ RowsTyped /\ SessionsOwned /\ IssuedSound /\ LiveSessionsAreOfActive
      /\ ExchangedOnce /\ OneResetToken
  BY DEF RowsOK
<1>1. /\ session'[s] = row /\ row # NoRow /\ row.user \in Users /\ row.hash \in Nat
      /\ \A x \in Sessions \ {s} : session'[x] = session[x]
  BY <1>0, SessionFields, AccountsAssumption DEF RowsTyped, Hashes
<1>2. RowsTyped'
  BY <1>0 DEF RowsTyped
<1>3. RowsGrow
  <2>1. \A u \in Users : IsUser(u) => IsUser(u)' /\ user[u].generation <= user'[u].generation
    <3> SUFFICES ASSUME NEW u \in Users, IsUser(u)
                 PROVE  IsUser(u)' /\ user[u].generation <= user'[u].generation
      OBVIOUS
    <3>1. user[u] \in UserRow
      BY <1>0 DEF RowsTyped, IsUser
    <3> QED
      BY <3>1, UserFields, AccountsAssumption DEF IsUser
  <2> QED
    BY <1>1, <2>1 DEF RowsGrow
<1>4. SessionsOwned'
  BY <1>0, <1>1 DEF SessionsOwned, IsUser, IsActive
<1>5. LiveSessionsAreOfActive'
  BY <1>0, <1>1 DEF LiveSessionsAreOfActive, Live, IsActive, IsUser
<1>6. IssuedSound'
  <2>1. ASSUME NEW t \in issued PROVE TokenSound(t)'
    <3>1. t \in AccessToken /\ t.session \in Sessions /\ TokenSound(t)
      BY <1>0, TokenFields DEF RowsTyped, IssuedSound
    <3>2. CASE t.session # s
      BY <1>1, <3>1, <3>2 DEF TokenSound, GenerationOf
    <3>3. CASE t.session = s
      <4>1. session[s] # NoRow /\ row.user = session[s].user
        BY <3>1, <3>3 DEF TokenSound
      <4>2. session[s].hash \in Nat /\ session[s].hash <= row.hash
        BY <1>0, <4>1, SessionFields, AccountsAssumption DEF RowsTyped, Hashes
      <4>3. t.exchanged # NoHash => t.exchanged < session[s].hash /\ t.exchanged \in Nat
        BY <3>1, <3>3, TokenFields, AccountsAssumption DEF TokenSound, Hashes
      <4>4. t.exchanged # NoHash => t.exchanged < row.hash
        BY <1>1, <4>2, <4>3
      <4>5. t.generation <= GenerationOf(s)'
        BY <1>1, <3>1, <3>3, <4>1 DEF TokenSound, GenerationOf
      <4> QED
        BY <1>1, <3>3, <4>4, <4>5 DEF TokenSound
    <3> QED
      BY <3>2, <3>3
  <2>2. TokenSound(new)'
    BY <1>1 DEF TokenSound, GenerationOf
  <2> QED
    BY <2>1, <2>2 DEF IssuedSound
<1>7. ExchangedOnce'
  BY <1>0 DEF ExchangedOnce
<1>8. OneResetToken'
  BY <1>0 DEF OneResetToken, LiveToken, IsActive, IsUser
<1> QED
  BY <1>2, <1>3, <1>4, <1>5, <1>6, <1>7, <1>8 DEF RowsOK

LEMMA CommitLoginKeeps ==
  ASSUME IInv, NEW q \in Requests, CommitLogin(q)
  PROVE  IInv' /\ AdministratorsStay
<1>1. PICK k \in HandlerState : k = tx[q] /\ Sound(k)
  BY HandlerOf
<1>2. /\ k.request.op = "login" /\ k.request \in Request /\ k.request.user \in Users
      /\ IsActive(k.request.user)
  BY <1>1, HandlerFields, RequestFields DEF CommitLogin, Read, LoginStillActive
<1>3. PICK u \in Users : u = k.request.user
  BY <1>2
<1>4. PICK s \in Sessions :
        /\ session[s] = NoRow
        /\ session' = [session EXCEPT ![s] = [user |-> u, hash |-> 0, revoked |-> "no"]]
        /\ issued' = issued \cup {Signed(s, user[u].generation, NoHash, 0)}
  BY <1>1, <1>3 DEF CommitLogin
<1>5. user[u] \in UserRow
  BY <1>2, <1>3 DEF IsActive, IsUser, IInv, RowsOK, RowsTyped
<1>6. PICK g \in 0 .. MaxGeneration : g = user[u].generation
  BY <1>5, UserFields
<1>7. 0 \in Hashes /\ g <= g
  BY <1>6, AccountsAssumption DEF Hashes
<1>8a. PICK row \in SessionRow : row = [user |-> u, hash |-> 0, revoked |-> "no"]
  BY <1>7 DEF SessionRow
<1>8. row.user = u /\ row.revoked = "no"
  BY <1>8a
<1>9a. PICK new \in AccessToken : new = Signed(s, g, NoHash, 0)
  BY <1>7 DEF Signed, AccessToken
<1>9. new.session = s /\ new.generation = g /\ new.exchanged = NoHash
  BY <1>9a DEF Signed
<1>10. session' = [session EXCEPT ![s] = row] /\ issued' = issued \cup {new}
  BY <1>4, <1>6, <1>8a, <1>9a
<1>11. UNCHANGED <<user, resetToken>> /\ Committed(q, OnUser(u))
  BY <1>1, <1>3 DEF CommitLogin
<1>12. \A t \in issued : t.session # s
  BY <1>4 DEF IInv, RowsOK, IssuedSound, TokenSound
<1>13. RowsOK' /\ RowsGrow
  <2>1. RowsOK /\ UNCHANGED <<user, resetToken>>
    BY <1>11 DEF IInv
  <2>2. IsActive(row.user) /\ new.generation <= user[row.user].generation
    BY <1>2, <1>3, <1>6, <1>7, <1>8, <1>9
  <2>3. session[s] # NoRow => row.user = session[s].user /\ session[s].hash <= row.hash
    BY <1>4
  <2>4. new.exchanged # NoHash => new.exchanged < row.hash
    BY <1>9
  <2>5. \A t \in issued : t.session = s => t.exchanged # new.exchanged
    BY <1>12
  <2> QED
    BY <1>8, <1>9, <1>10, <2>1, <2>2, <2>3, <2>4, <2>5, SignedRows
<1>14. PICK f : f = OnUser(u)
  OBVIOUS
<1> QED
  BY <1>11, <1>13, <1>14, UserKeeps, CommitKeeps

LEMMA CommitRotateKeeps ==
  ASSUME IInv, NEW q \in Requests, CommitRotate(q)
  PROVE  IInv' /\ AdministratorsStay
<1>1. PICK k \in HandlerState : k = tx[q] /\ Sound(k)
  BY HandlerOf
<1>2. /\ k.phase = "known" /\ k.request.op = "refresh" /\ k.request \in Request
      /\ k.request.session \in Sessions /\ k.request.hash \in Hashes
      /\ k.generation \in 0 .. MaxGeneration
      /\ k.generation <= GenerationOf(k.request.session)
  BY <1>1, HandlerFields, RequestFields DEF CommitRotate, Sound
<1>3. PICK s \in Sessions : s = k.request.session
  BY <1>2
<1>4. Live(s) /\ session[s].hash = k.request.hash /\ session[s].hash < MaxRotations
  BY <1>1, <1>3 DEF CommitRotate, RotateAllowed
<1>5. session[s] \in SessionRow /\ session[s].user \in Users /\ IsActive(session[s].user)
  BY <1>4, SessionUser DEF IInv, RowsOK, LiveSessionsAreOfActive, Live
<1>6. PICK u \in Users, n \in Nat : u = session[s].user /\ n = session[s].hash
  BY <1>5, SessionFields, AccountsAssumption DEF Hashes
<1>7. n \in Hashes /\ n + 1 \in Hashes /\ n < n + 1 /\ n <= n + 1
  BY <1>4, <1>6, AccountsAssumption DEF Hashes
<1>8a. PICK row \in SessionRow : row = [user |-> u, hash |-> n + 1, revoked |-> "no"]
  BY <1>7 DEF SessionRow
<1>8. row.user = u /\ row.revoked = "no" /\ row.hash = n + 1
  BY <1>8a
<1>9a. PICK new \in AccessToken : new = Signed(s, k.generation, n, n + 1)
  BY <1>2, <1>7 DEF Signed, AccessToken
<1>9. new.session = s /\ new.generation = k.generation /\ new.exchanged = n
  BY <1>9a DEF Signed
<1>10. session' = [session EXCEPT ![s] = row] /\ issued' = issued \cup {new}
  BY <1>1, <1>3, <1>4, <1>6, <1>8a, <1>9a DEF CommitRotate, Live
<1>11. UNCHANGED <<user, resetToken>> /\ tx' = [tx EXCEPT ![q] = Idle]
  BY <1>1, <1>3 DEF CommitRotate
<1>12. ASSUME NEW t \in issued, t.session = s PROVE t.exchanged # n
  <2>1. t.exchanged # NoHash => t.exchanged < n /\ t.exchanged \in Nat
    BY <1>6, <1>12, TokenFields, AccountsAssumption
       DEF IInv, RowsOK, IssuedSound, TokenSound, RowsTyped, Hashes
  <2> QED
    BY <2>1, AccountsAssumption
<1>13. k.generation <= user[u].generation
  BY <1>2, <1>3, <1>6 DEF GenerationOf
<1>14. RowsOK' /\ RowsGrow
  <2>1. RowsOK /\ UNCHANGED <<user, resetToken>>
    BY <1>11 DEF IInv
  <2>2. IsActive(row.user) /\ new.generation <= user[row.user].generation
    BY <1>5, <1>6, <1>8, <1>9, <1>13
  <2>3. session[s] # NoRow => row.user = session[s].user /\ session[s].hash <= row.hash
    BY <1>6, <1>7, <1>8
  <2>4. new.exchanged # NoHash => new.exchanged < row.hash
    BY <1>7, <1>8, <1>9
  <2>5. \A t \in issued : t.session = s => t.exchanged # new.exchanged
    BY <1>9, <1>12
  <2> QED
    BY <1>8, <1>9, <1>10, <2>1, <2>2, <2>3, <2>4, <2>5, SignedRows
<1>15. Committed(q, Nothing)
  BY <1>11, NothingCondemned DEF Committed
<1> QED
  BY <1>11, <1>14, <1>15, UserKeeps, CommitKeeps

LEMMA LogoutKeeps ==
  ASSUME IInv, NEW s \in Sessions, Logout(s)
  PROVE  IInv' /\ AdministratorsStay
<1>1. /\ session[s] \in SessionRow /\ session[s].user \in Users
      /\ IsActive(session[s].user)
  BY SessionUser DEF IInv, RowsOK, LiveSessionsAreOfActive, Live, Logout
<1>2. PICK u \in Users : u = session[s].user
  BY <1>1
<1>3. /\ session'[s] = [user |-> u, hash |-> session[s].hash, revoked |-> "ended"]
      /\ \A x \in Sessions \ {s} : session'[x] = session[x]
      /\ session' = [session EXCEPT ![s] = session'[s]]
      /\ UNCHANGED <<user, resetToken, issued, tx>> /\ session[s].revoked = "no"
  BY <1>2 DEF Logout, IInv, RowsOK, RowsTyped, Live
<1>4. session'[s] \in SessionRow
  BY <1>1, <1>3, SessionFields DEF SessionRow
<1>5. RowsTyped'
  BY <1>3, <1>4 DEF RowsTyped, IInv, RowsOK
<1>6. /\ session'[s] # NoRow /\ session'[s].user = u /\ session'[s].hash = session[s].hash
      /\ session'[s].revoked = "ended"
  BY <1>3, <1>4, SessionFields
<1>7. ASSUME NEW row \in UserRow, row = user[u]
      PROVE  SessionsFollow(u, row) /\ ResetTokensFollow(u, row)
  <2>1. row.status = "ACTIVE"
    BY <1>1, <1>2, <1>7 DEF IsActive
  <2>2. ResetTokensFollow(u, row)
    BY <1>3, <2>1 DEF ResetTokensFollow
  <2>3. ASSUME NEW x \in Sessions, x # s PROVE session'[x] = session[x]
    BY <1>3, <2>3
  <2>4. SessionsFollow(u, row)
    BY <1>1, <1>2, <1>3, <1>6, <2>1, <2>3, SessionFields DEF SessionsFollow
  <2> QED
    BY <2>2, <2>4
<1>8. RowsOK' /\ RowsGrow
  BY <1>1, <1>2, <1>3, <1>5, <1>7, ActiveUserOnly DEF IInv
<1>9. tx' = Condemned(Nothing)
  BY <1>3, NothingCondemned
<1> QED
  BY <1>3, <1>8, <1>9, UserKeeps, CommitKeeps

LEMMA ChangePasswordKeeps ==
  ASSUME IInv, NEW u \in Users, ChangePassword(u)
  PROVE  IInv' /\ AdministratorsStay
<1>1. IsActive(u)
  BY DEF ChangePassword, Accepted
<1>2. /\ session' = Revoked(u, "ended") /\ UNCHANGED <<user, resetToken, issued>>
      /\ tx' = Condemned(OnUser(u))
  BY DEF ChangePassword
<1>3. RowsTyped'
  BY <1>2, RevokedSessions DEF RowsTyped, IInv, RowsOK
<1>4. ASSUME NEW row \in UserRow, row = user[u]
      PROVE  SessionsFollow(u, row) /\ ResetTokensFollow(u, row)
  <2>1. row.status = "ACTIVE"
    BY <1>1, <1>4 DEF IsActive
  <2> QED
    BY <1>2, <2>1, RevokedSessions DEF SessionsFollow, ResetTokensFollow, IInv, RowsOK
<1>5. RowsOK' /\ RowsGrow
  BY <1>1, <1>2, <1>3, <1>4, ActiveUserOnly DEF IInv
<1>6. PICK f : f = OnUser(u)
  OBVIOUS
<1> QED
  BY <1>2, <1>5, <1>6, UserKeeps, CommitKeeps

\* A reset token of an active user is used or expires.
LEMMA TokenSpent ==
  ASSUME RowsOK, NEW t \in ResetTokens, resetToken[t] # NoRow, IsActive(resetToken[t].user),
         NEW state \in {"expired", "used"},
         resetToken' = [resetToken EXCEPT ![t] = [user |-> resetToken[t].user, state |-> state]],
         UNCHANGED <<user, issued>>,
         session' = session \/ session' = Revoked(resetToken[t].user, "ended")
  PROVE  RowsOK' /\ RowsGrow
<1>1. resetToken[t] \in ResetTokenRow /\ resetToken[t].user \in Users
  BY ResetTokenFields DEF RowsOK, RowsTyped
<1>2. PICK u \in Users : u = resetToken[t].user
  BY <1>1
<1>3. PICK new \in ResetTokenRow : new = [user |-> u, state |-> state]
  BY DEF ResetTokenRow
<1>4. /\ resetToken'[t] = new /\ new # NoRow /\ new.user = u /\ new.state # "live"
      /\ \A x \in ResetTokens \ {t} : resetToken'[x] = resetToken[x]
      /\ resetToken' \in [ResetTokens -> ResetTokenRow \cup {NoRow}]
  BY <1>2, <1>3, ResetTokenFields DEF RowsOK, RowsTyped
<1>5. RowsTyped'
  BY <1>2, <1>4, RevokedSessions DEF RowsTyped, RowsOK
<1>6. ASSUME NEW row \in UserRow, row = user[u]
      PROVE  SessionsFollow(u, row) /\ ResetTokensFollow(u, row)
  <2>1. row.status = "ACTIVE"
    BY <1>2, <1>6 DEF IsActive
  <2>2. ResetTokensFollow(u, row)
    BY <1>2, <1>4, <2>1 DEF ResetTokensFollow
  <2>3. CASE session' = session
    BY <2>1, <2>2, <2>3 DEF SessionsFollow
  <2>4. CASE session' = Revoked(u, "ended")
    BY <2>1, <2>2, <2>4, RevokedSessions DEF SessionsFollow, RowsOK
  <2> QED
    BY <1>2, <2>3, <2>4
<1> QED
  BY <1>2, <1>5, <1>6, ActiveUserOnly

LEMMA ExpireTokenKeeps ==
  ASSUME IInv, NEW t \in ResetTokens, ExpireToken(t)
  PROVE  IInv' /\ AdministratorsStay
<1>1. resetToken[t] # NoRow /\ IsActive(resetToken[t].user)
  BY DEF ExpireToken, LiveToken, IInv, RowsOK, OneResetToken
<1>2. /\ UNCHANGED <<user, session, issued, tx>>
      /\ resetToken' = [resetToken EXCEPT ![t] = [user |-> resetToken[t].user, state |-> "expired"]]
  BY DEF ExpireToken, IInv, RowsOK, RowsTyped
<1>3. RowsOK' /\ RowsGrow
  BY <1>1, <1>2, TokenSpent DEF IInv
<1>4. tx' = Condemned(Nothing)
  BY <1>2, NothingCondemned
<1> QED
  BY <1>2, <1>3, <1>4, UserKeeps, CommitKeeps

LEMMA CommitResetKeeps ==
  ASSUME IInv, NEW q \in Requests, CommitReset(q)
  PROVE  IInv' /\ AdministratorsStay
<1>1. PICK k \in HandlerState : k = tx[q] /\ Sound(k)
  BY HandlerOf
<1>2. /\ k.request.op = "reset" /\ k.request \in Request /\ k.request.token \in ResetTokens
      /\ resetToken[k.request.token] # NoRow
  BY <1>1, HandlerFields, RequestFields DEF CommitReset, Read, Sound, Named
<1>3. PICK t \in ResetTokens : t = k.request.token
  BY <1>2
<1>4. resetToken[t] \in ResetTokenRow
  BY <1>2, <1>3 DEF IInv, RowsOK, RowsTyped
<1>5. PICK u \in Users : u = resetToken[t].user
  BY <1>4, ResetTokenFields
<1>6. /\ IsActive(u) /\ UNCHANGED <<user, issued>> /\ Committed(q, OnUser(u))
      /\ resetToken' = [resetToken EXCEPT ![t] = [user |-> u, state |-> "used"]]
      /\ session' = Revoked(u, "ended")
  BY <1>1, <1>3, <1>5 DEF CommitReset
<1>7. RowsOK' /\ RowsGrow
  BY <1>2, <1>3, <1>5, <1>6, TokenSpent DEF IInv
<1>8. PICK f : f = OnUser(u)
  OBVIOUS
<1> QED
  BY <1>6, <1>7, <1>8, UserKeeps, CommitKeeps

LEMMA RequestResetKeeps ==
  ASSUME IInv, NEW u \in Users, RequestReset(u)
  PROVE  IInv' /\ AdministratorsStay
<1>0. /\ RowsTyped /\ SessionsOwned /\ IssuedSound /\ LiveSessionsAreOfActive
      /\ ExchangedOnce /\ OneResetToken
  BY DEF IInv, RowsOK
<1>1. /\ IsActive(u) /\ UNCHANGED <<user, session, issued>> /\ tx' = Condemned(OnUser(u))
  BY DEF RequestReset
<1>2. PICK t \in ResetTokens :
        /\ resetToken[t] = NoRow
        /\ resetToken' = [InvalidatedTokens(u) EXCEPT ![t] = [user |-> u, state |-> "live"]]
  BY DEF RequestReset
<1>3. resetToken'[t] = [user |-> u, state |-> "live"]
  BY <1>2 DEF InvalidatedTokens
<1>4. resetToken'[t] \in ResetTokenRow /\ resetToken'[t].user = u /\ resetToken'[t] # NoRow
  BY <1>3, ResetTokenFields DEF ResetTokenRow
<1>5. ASSUME NEW x \in ResetTokens \ {t}
      PROVE  /\ resetToken'[x] \in ResetTokenRow \cup {NoRow}
             /\ resetToken[x] # NoRow => resetToken'[x] # NoRow
             /\ LiveToken(x)' => resetToken'[x] = resetToken[x] /\ LiveToken(x)
                                 /\ resetToken[x].user # u
  <2>1. CASE LiveToken(x) /\ resetToken[x].user = u
    <3>1. resetToken'[x] = [user |-> u, state |-> "used"]
      BY <1>2, <2>1 DEF InvalidatedTokens
    <3>2. resetToken'[x] \in ResetTokenRow /\ resetToken'[x].state = "used"
      BY <3>1 DEF ResetTokenRow
    <3> QED
      BY <3>2, ResetTokenFields DEF LiveToken
  <2>2. CASE ~ (LiveToken(x) /\ resetToken[x].user = u)
    <3>1. resetToken'[x] = resetToken[x]
      BY <1>2, <2>2 DEF InvalidatedTokens
    <3> QED
      BY <1>0, <2>2, <3>1 DEF RowsTyped, LiveToken
  <2> QED
    BY <2>1, <2>2
<1>6. RowsTyped'
  <2>1. resetToken' = [x \in ResetTokens |-> resetToken'[x]]
    BY <1>2 DEF InvalidatedTokens
  <2>2. resetToken' \in [ResetTokens -> ResetTokenRow \cup {NoRow}]
    BY <1>4, <1>5, <2>1
  <2> QED
    BY <1>0, <1>1, <2>2 DEF RowsTyped
<1>7. RowsGrow
  <2>1. \A x \in Users : IsUser(x) => IsUser(x)' /\ user[x].generation <= user'[x].generation
    <3> SUFFICES ASSUME NEW x \in Users, IsUser(x)
                 PROVE  IsUser(x)' /\ user[x].generation <= user'[x].generation
      OBVIOUS
    <3>1. user[x] \in UserRow
      BY <1>0 DEF RowsTyped, IsUser
    <3> QED
      BY <1>1, <3>1, UserFields, AccountsAssumption DEF IsUser
  <2> QED
    BY <1>1, <1>4, <1>5, <2>1 DEF RowsGrow
<1>8. OneResetToken'
  <2>1. ASSUME NEW x \in ResetTokens, LiveToken(x)'
        PROVE  user'[resetToken'[x].user] # NoRow /\ user'[resetToken'[x].user].status = "ACTIVE"
    BY <1>0, <1>1, <1>4, <1>5, <2>1 DEF OneResetToken, IsActive, IsUser
  <2>2. ASSUME NEW x \in ResetTokens, LiveToken(x)', NEW y \in ResetTokens \ {x}, LiveToken(y)'
        PROVE  resetToken'[y].user # resetToken'[x].user
    BY <1>0, <1>4, <1>5, <2>2 DEF OneResetToken
  <2> QED
    BY <2>1, <2>2 DEF OneResetToken, IsActive, IsUser
<1>9. SessionsOwned' /\ LiveSessionsAreOfActive' /\ ExchangedOnce'
  BY <1>0, <1>1 DEF SessionsOwned, LiveSessionsAreOfActive, ExchangedOnce, Live, IsActive, IsUser
<1>10. IssuedSound'
  BY <1>0, <1>1 DEF IssuedSound, TokenSound, GenerationOf
<1>11. RowsOK'
  BY <1>6, <1>8, <1>9, <1>10 DEF RowsOK
<1>12. PICK f : f = OnUser(u)
  OBVIOUS
<1> QED
  BY <1>1, <1>7, <1>11, <1>12, UserKeeps, CommitKeeps

-----------------------------------------------------------------------------
LEMMA InitSound == Init => IInv
<1> SUFFICES ASSUME Init PROVE IInv
  OBVIOUS
<1>1. TypeOK /\ RowsTyped
  BY IdleHandler DEF Init, TypeOK, RowsTyped
<1>2. RowsOK
  BY <1>1 DEF Init, RowsOK, SessionsOwned, IssuedSound, LiveSessionsAreOfActive, ExchangedOnce,
     OneResetToken, Live, LiveToken
<1>3. HandlersSound
  BY IdleHandler DEF Init, HandlersSound, Sound
<1> QED
  BY <1>1, <1>2, <1>3 DEF IInv

LEMMA StepSound == IInv /\ [Next]_vars => IInv' /\ AdministratorsStay
<1> SUFFICES ASSUME IInv, [Next]_vars PROVE IInv' /\ AdministratorsStay
  OBVIOUS
<1>0. ASSUME user' = user, IInv' PROVE IInv' /\ AdministratorsStay
  BY <1>0, UserKeeps
<1>1. ASSUME NEW q \in Requests, NEW r \in Request, Start(q, r)
      PROVE  IInv' /\ AdministratorsStay
  BY <1>0, <1>1, StartKeeps DEF Start
<1>2. ASSUME NEW q \in Requests,
             \/ SerializationFailure(q) \/ Restart(q) \/ Fail(q)
             \/ CommitRegister(q) \/ CommitDeactivate(q) \/ CommitChangeRole(q)
             \/ CommitActivate(q)
             \/ CommitLogin(q) \/ KnowUser(q) \/ CommitRotate(q) \/ CommitReset(q)
      PROVE  IInv' /\ AdministratorsStay
  <2>1. CASE SerializationFailure(q)
    BY <1>0, <2>1, SerializationFailureKeeps DEF SerializationFailure
  <2>2. CASE Restart(q)
    BY <1>0, <2>2, RestartKeeps DEF Restart
  <2>3. CASE Fail(q)
    BY <1>0, <2>3, FailKeeps DEF Fail
  <2>4. CASE KnowUser(q)
    BY <1>0, <2>4, KnowUserKeeps DEF KnowUser
  <2>5. CASE CommitRegister(q) \/ CommitDeactivate(q) \/ CommitChangeRole(q) \/ CommitActivate(q)
    BY <2>5, CommitRegisterKeeps, CommitDeactivateKeeps, CommitChangeRoleKeeps,
       CommitActivateKeeps
  <2>6. CASE CommitLogin(q) \/ CommitRotate(q) \/ CommitReset(q)
    BY <2>6, CommitLoginKeeps, CommitRotateKeeps, CommitResetKeeps
  <2> QED
    BY <1>2, <2>1, <2>2, <2>3, <2>4, <2>5, <2>6
<1>3. ASSUME NEW u \in Users, Join(u) \/ ChangePassword(u) \/ RequestReset(u)
      PROVE  IInv' /\ AdministratorsStay
  BY <1>3, JoinKeeps, ChangePasswordKeeps, RequestResetKeeps
<1>4. ASSUME NEW s \in Sessions, Logout(s) PROVE IInv' /\ AdministratorsStay
  BY <1>4, LogoutKeeps
<1>5. ASSUME NEW t \in ResetTokens, ExpireToken(t) PROVE IInv' /\ AdministratorsStay
  BY <1>5, ExpireTokenKeeps
<1>6. CASE UNCHANGED vars
  <2>1. RowsOK'
    BY <1>6 DEF vars, IInv, RowsOK, RowsTyped, SessionsOwned, IssuedSound, TokenSound,
       GenerationOf, LiveSessionsAreOfActive, ExchangedOnce, OneResetToken, Live, LiveToken,
       IsActive, IsUser
  <2>2. RowsGrow
    BY UserFields, AccountsAssumption, <1>6
       DEF vars, RowsGrow, IsUser, IInv, TypeOK
  <2>3. user' = user /\ tx' = Condemned(Nothing)
    BY <1>6, NothingCondemned DEF vars
  <2> QED
    BY <2>1, <2>2, <2>3, UserKeeps, CommitKeeps
<1> QED
  BY <1>1, <1>2, <1>3, <1>4, <1>5, <1>6 DEF Next

LEMMA Inductive == Spec => []IInv
<1>1. IInv /\ [Next]_vars => IInv'
  BY StepSound
<1> QED
  BY <1>1, InitSound, PTL DEF Spec

\* The rows and the handlers keep their types.
THEOREM TypeCorrect == Spec => []TypeOK
<1>1. IInv => TypeOK
  BY DEF IInv
<1> QED
  BY <1>1, Inductive, PTL

\* Whatever raced with a deactivation, a live session is of an active user.
THEOREM SessionsEndWithTheAccount == Spec => []LiveSessionsAreOfActive
<1>1. IInv => LiveSessionsAreOfActive
  BY DEF IInv, RowsOK
<1> QED
  BY <1>1, Inductive, PTL

\* A deactivation or a change of role reaches the tokens already signed: their
\* generation is behind the user's.
THEOREM BarredStayOut == Spec => []BarredTokensAreRefused
<1>1. IInv => BarredTokensAreRefused
  <2> SUFFICES ASSUME IInv, NEW t \in issued, session[t.session].revoked = "barred", Accepted(t)
               PROVE  FALSE
    BY DEF BarredTokensAreRefused
  <2>1. t.generation < t.generation /\ t.generation \in 0 .. MaxGeneration
    BY TokenFields
       DEF IInv, RowsOK, IssuedSound, TokenSound, GenerationOf, Accepted, RowsTyped
  <2> QED
    BY <2>1, AccountsAssumption
<1> QED
  BY <1>1, Inductive, PTL

\* A refresh token is exchanged once: the tokens of a session stay behind its
\* hash.
THEOREM RotationIsOne == Spec => []ExchangedOnce
<1>1. IInv => ExchangedOnce
  BY DEF IInv, RowsOK
<1> QED
  BY <1>1, Inductive, PTL

\* Whatever raced, a user has one reset token to use at most.
THEOREM ResetTokenIsOne == Spec => []OneResetToken
<1>1. IInv => OneResetToken
  BY DEF IInv, RowsOK
<1> QED
  BY <1>1, Inductive, PTL

\* The last active administrator stays, with any number of deactivations and
\* changes of role at once: those that would leave none conflict.
THEOREM AdministratorRemains == Spec => AdministratorsContinue
<1>1. IInv /\ [Next]_vars => (ActiveAdministrators # {} => ActiveAdministrators' # {})
  BY StepSound DEF AdministratorsStay
<1>2. Spec => [][ActiveAdministrators # {} => ActiveAdministrators' # {}]_vars
  BY <1>1, Inductive, PTL DEF Spec
<1> QED
  BY <1>2 DEF AdministratorsContinue

\* Two first registrations conflict: the one that commits second is refused.
THEOREM FirstIsOne == Spec => FirstAdministratorOnly
<1> DEFINE Only ==
      \A q \in Requests :
        /\ Open(q, "register") /\ tx'[q] = Idle /\ user' # user
        /\ ~ tx[q].request.actor
        => Administrators = {}
<1>1. IInv /\ [Next]_vars => Only
  <2> SUFFICES ASSUME IInv, NEW q \in Requests, Open(q, "register"), ~ tx[q].request.actor
               PROVE  Administrators = {}
    OBVIOUS
  <2>1. PICK k \in HandlerState : k = tx[q] /\ Sound(k)
    BY HandlerOf
  <2> QED
    BY <2>1, HandlerFields DEF Open, Sound, Allowed, RegisterAllowed
<1>2. Spec => [][Only]_vars
  BY <1>1, Inductive, PTL DEF Spec
<1> QED
  BY <1>2 DEF FirstAdministratorOnly
=============================================================================
