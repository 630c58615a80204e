------------------------------ MODULE Enrolment ------------------------------
(* How an account comes to be: requests for an account, decided by an       *)
(* administrator (user-requests.service.ts), community accounts opened by   *)
(* the public and verified by e-mail (community-accounts.service.ts), and   *)
(* the activation of an approved account (auth).  The community operations  *)
(* are Serializable and not retried; the requests are at Read Committed.    *)
(* Verification and activation claim the token and write the user, so each  *)
(* takes effect at once.  STAFF stands for every role but the community's.  *)
(* The resends of an hour are the tokens the model has.  Names, passwords,  *)
(* review of identities, audit rows and mail failures are left out.         *)
EXTENDS Naturals, FiniteSets, SerializableTx

CONSTANTS Requests,     \* handlers in flight at once
          Users,        \* ids of User rows
          UserRequests, \* ids of UserRequest rows
          Tokens,       \* ids of AccountActivationToken rows
          Emails, Identities,
          ResendLimit,  \* RESEND_LIMIT (3)
          NoRow

VARIABLES user, userRequest, token, tx

vars == <<user, userRequest, token, tx>>

Kinds == {"COMMUNITY", "STAFF"}

UserRow == [status : {"PENDING", "INACTIVE", "ACTIVE"}, kind : Kinds,
            email : Emails, identity : Identities]

UserRequestRow == [status : {"PENDING", "APPROVED", "REJECTED"},
                   email : Emails, identity : Identities]

\* sentTo and from are history: the address the link is mailed to, and the
\* request whose approval issued the token.
TokenRow == [user : Users, purpose : {"COMMUNITY", "LEGACY"},
             state : {"live", "expired", "used"},
             sentTo : Emails, from : UserRequests \cup {NoRow}]

Request ==
  [op : {"submit", "register"}, email : Emails, identity : Identities]
    \cup [op : {"approve"}, id : UserRequests, kind : Kinds]
    \cup [op : {"reject"}, id : UserRequests]
    \cup [op : {"correct"}, user : Users, email : Emails]
    \cup [op : {"reverify"}, user : Users]
    \cup [op : {"resend"}, email : Emails]
    \cup [op : {"verify", "activate"}, token : Tokens]

SerializableOps == {"register", "correct", "reverify", "resend"}

Account == [user : Users, email : Emails]

ASSUME EnrolmentAssumption ==
  /\ ResendLimit \in Nat
  /\ NoRow \notin UserRow \cup UserRequestRow \cup TokenRow \cup Request
  /\ NoRow \notin UserRequests \cup Account

\* account: what a community operation read of the account it works on.
Handler(phase, request, account, doomed) ==
  [phase |-> phase, request |-> request, account |-> account, doomed |-> doomed]

Idle == Handler("idle", NoRow, NoRow, FALSE)

HandlerState ==
  {Idle}
    \cup [phase : {"read"}, request : Request, account : {NoRow}, doomed : {FALSE}]
    \cup [phase : {"open"}, request : Request, account : Account \cup {NoRow},
          doomed : BOOLEAN]

-----------------------------------------------------------------------------
(* What the handlers ask of the rows they read.                            *)

UserIn(u, status, kind) ==
  user[u] # NoRow /\ user[u].status = status /\ user[u].kind = kind

EmailTaken(e) == \E u \in Users : user[u] # NoRow /\ user[u].email = e

IdentityTaken(i) == \E u \in Users : user[u] # NoRow /\ user[u].identity = i

PendingRequest(r) == userRequest[r] # NoRow /\ userRequest[r].status = "PENDING"

TokensOf(u) == {t \in Tokens : token[t] # NoRow /\ token[t].user = u}

CommunityTokens(u) == {t \in TokensOf(u) : token[t].purpose = "COMMUNITY"}

WithEmail(e) == {u \in Users : user[u] # NoRow /\ user[u].email = e}

ResendAllowed(u) ==
  /\ user[u].status = "PENDING"
  /\ Cardinality(CommunityTokens(u)) < ResendLimit

\* assertNoUserDuplicates and assertNoPendingDuplicates.
SubmitAllowed(r) ==
  /\ ~ EmailTaken(r.email) /\ ~ IdentityTaken(r.identity)
  /\ \A x \in UserRequests :
       PendingRequest(x) => /\ userRequest[x].email # r.email
                            /\ userRequest[x].identity # r.identity

ApproveAllowed(r) ==
  /\ PendingRequest(r.id)
  /\ ~ EmailTaken(userRequest[r.id].email)
  /\ ~ IdentityTaken(userRequest[r.id].identity)

CorrectAllowed(r) ==
  UserIn(r.user, "PENDING", "COMMUNITY") /\ ~ EmailTaken(r.email)

\* findValidToken.
VerifyAllowed(t) ==
  /\ token[t] # NoRow /\ token[t].purpose = "COMMUNITY" /\ token[t].state = "live"
  /\ user[token[t].user].status = "PENDING"

ActivateAllowed(t) ==
  /\ token[t] # NoRow /\ token[t].purpose = "LEGACY" /\ token[t].state = "live"
  /\ UserIn(token[t].user, "INACTIVE", "STAFF")

Allowed(r) ==
  \/ r.op = "submit" /\ SubmitAllowed(r)
  \/ r.op = "approve" /\ ApproveAllowed(r)
  \/ r.op = "reject" /\ PendingRequest(r.id)
  \/ r.op = "register" /\ ~ EmailTaken(r.email) /\ ~ IdentityTaken(r.identity)
  \/ r.op = "correct" /\ CorrectAllowed(r)
  \/ r.op = "reverify" /\ UserIn(r.user, "INACTIVE", "COMMUNITY")
  \/ r.op = "resend" /\ \E u \in WithEmail(r.email) : ResendAllowed(u)
  \/ r.op = "verify" /\ VerifyAllowed(r.token)
  \/ r.op = "activate" /\ ActivateAllowed(r.token)

-----------------------------------------------------------------------------
(* Transactions.                                                           *)

Unused(u) == {t \in CommunityTokens(u) : token[t].state # "used"}

LiveOf(u) == {t \in CommunityTokens(u) : token[t].state = "live"}

\* Rows are known by their ids; <<"tokens", u>>, <<"email", e>> and
\* <<"identity", i>> are the predicates the inserts and updates fall under.
RegisterFootprint(r) ==
  LET keys == {<<"email", r.email>>, <<"identity", r.identity>>} IN
  [reads |-> keys, rows |-> {}, marks |-> keys]

CorrectFootprint(r) ==
  [reads |-> {r.user, <<"email", r.email>>, <<"tokens", r.user>>} \cup TokensOf(r.user),
   rows |-> {r.user} \cup Unused(r.user),
   marks |-> {<<"email", r.email>>, <<"email", user[r.user].email>>,
              <<"tokens", r.user>>}]

ReverifyFootprint(r) ==
  [reads |-> {r.user, <<"tokens", r.user>>} \cup TokensOf(r.user),
   rows |-> {r.user} \cup Unused(r.user),
   marks |-> {<<"tokens", r.user>>}]

ResendFootprint(r) ==
  LET us == WithEmail(r.email) IN
  [reads |-> us \cup {<<"email", r.email>>} \cup {<<"tokens", u>> : u \in us}
                \cup UNION {TokensOf(u) : u \in us},
   rows |-> UNION {LiveOf(u) : u \in us},
   marks |-> {<<"tokens", u>> : u \in us}]

\* Footprint of an open transaction; while nothing it conflicts with has
\* committed, it is the same now as when the transaction read.
Footprint(r) ==
  CASE r.op = "register" -> RegisterFootprint(r)
    [] r.op = "correct"  -> CorrectFootprint(r)
    [] r.op = "reverify" -> ReverifyFootprint(r)
    [] r.op = "resend"   -> ResendFootprint(r)

\* Of verification and activation.
ClaimFootprint(t) ==
  LET both == {t, token[t].user} IN [reads |-> both, rows |-> both, marks |-> {}]

\* Condemns the open transactions that a commit of footprint f conflicts with.
Condemned(f) ==
  [p \in Requests |->
     IF tx[p].phase = "open" /\ Conflict(Footprint(tx[p].request), f)
     THEN Handler("open", tx[p].request, tx[p].account, TRUE)
     ELSE tx[p]]

Committed(q, f) == tx' = [Condemned(f) EXCEPT ![q] = Idle]

\* At Read Committed: no part in the database's conflict detection, and the
\* rows written here are none a Serializable transaction updates.
Done(q) == tx' = [tx EXCEPT ![q] = Idle]

\* The account a transaction reads before it writes.
AccountsRead(r) ==
  LET us == CASE r.op = "resend" -> WithEmail(r.email)
              [] r.op \in {"correct", "reverify"} -> {r.user}
              [] OTHER -> {} IN
  IF us = {} THEN {NoRow} ELSE {[user |-> u, email |-> user[u].email] : u \in us}

\* The reads of a handler; a refusal answers at once and leaves nothing.
Start(q, r) ==
  /\ tx[q] = Idle
  /\ Allowed(r)
  /\ \E account \in AccountsRead(r) :
       tx' = [tx EXCEPT ![q] =
                Handler(IF r.op \in SerializableOps THEN "open" ELSE "read",
                        r, account, FALSE)]
  /\ UNCHANGED <<user, userRequest, token>>

\* The handler ends and nothing of it stays: a guarded update that finds no
\* row, a unique index, P2034, an identity to review, a lost connection.
Fail(q) ==
  /\ tx[q] # Idle
  /\ Done(q)
  /\ UNCHANGED <<user, userRequest, token>>

Open(q, op) == tx[q].phase = "open" /\ ~ tx[q].doomed /\ tx[q].request.op = op

Read(q, op) == tx[q].phase = "read" /\ tx[q].request.op = op

-----------------------------------------------------------------------------
(* Tokens and users.                                                       *)

Row(status, kind, email, identity) ==
  [status |-> status, kind |-> kind, email |-> email, identity |-> identity]

WithStatus(u, status) == Row(status, user[u].kind, user[u].email, user[u].identity)

Issued(u, purpose, sentTo, from) ==
  [user |-> u, purpose |-> purpose, state |-> "live", sentTo |-> sentTo,
   from |-> from]

Marked(t, state) ==
  [user |-> token[t].user, purpose |-> token[t].purpose, state |-> state,
   sentTo |-> token[t].sentTo, from |-> token[t].from]

\* The tokens in ts are used up and a new one is issued.
Replaces(ts, u, purpose, sentTo, from) ==
  \E n \in Tokens :
    /\ token[n] = NoRow
    /\ token' = [t \in Tokens |->
                   IF t = n THEN Issued(u, purpose, sentTo, from)
                   ELSE IF t \in ts THEN Marked(t, "used") ELSE token[t]]

\* The unique indexes on a user's email and identification.
Inserts(email, identity, status, kind, u) ==
  /\ user[u] = NoRow
  /\ ~ EmailTaken(email) /\ ~ IdentityTaken(identity)
  /\ user' = [user EXCEPT ![u] = Row(status, kind, email, identity)]

\* A token expires; a handler that checked it before may still claim it.
Expire(t) ==
  /\ token[t] # NoRow /\ token[t].state = "live"
  /\ token' = [token EXCEPT ![t] = Marked(t, "expired")]
  /\ UNCHANGED <<user, userRequest, tx>>

-----------------------------------------------------------------------------
(* UserRequestsService.                                                    *)

\* create: the duplicates were looked for before the transaction.
CommitSubmit(q) ==
  LET r == tx[q].request IN
  /\ Read(q, "submit")
  /\ \E id \in UserRequests :
       /\ userRequest[id] = NoRow
       /\ userRequest' = [userRequest EXCEPT ![id] =
            [status |-> "PENDING", email |-> r.email, identity |-> r.identity]]
  /\ Done(q)
  /\ UNCHANGED <<user, token>>

Decided(id, status) ==
  userRequest' = [userRequest EXCEPT ![id] =
    [status |-> status, email |-> @.email, identity |-> @.identity]]

\* approveWithinTransaction: the claim, the user and its activation token.
CommitApprove(q) ==
  LET r == tx[q].request
      row == userRequest[r.id] IN
  /\ Read(q, "approve")
  /\ PendingRequest(r.id)
  /\ Decided(r.id, "APPROVED")
  /\ \E u \in Users :
       /\ Inserts(row.email, row.identity, "INACTIVE", r.kind, u)
       /\ Replaces({}, u, "LEGACY", row.email, r.id)
  /\ Done(q)

\* Mutant: the rejection is written by id.
RejectById(id) == TRUE

\* updateMany where status = PENDING.
RejectPending(id) == PendingRequest(id)

CommitReject(q) ==
  /\ Read(q, "reject")
  /\ RejectPending(tx[q].request.id)
  /\ Decided(tx[q].request.id, "REJECTED")
  /\ Done(q)
  /\ UNCHANGED <<user, token>>

\* ActivateAccountUseCase: claimActivationToken and activateUser.
CommitActivate(q) ==
  LET t == tx[q].request.token
      u == token[t].user IN
  /\ Read(q, "activate")
  /\ token[t].state # "used" /\ UserIn(u, "INACTIVE", "STAFF")
  /\ token' = [token EXCEPT ![t] = Marked(t, "used")]
  /\ user' = [user EXCEPT ![u] = WithStatus(u, "ACTIVE")]
  /\ Committed(q, ClaimFootprint(t))
  /\ UNCHANGED userRequest

-----------------------------------------------------------------------------
(* CommunityAccountsService.                                               *)

CommitRegister(q) ==
  LET r == tx[q].request IN
  /\ Open(q, "register")
  /\ \E u \in Users :
       /\ Inserts(r.email, r.identity, "PENDING", "COMMUNITY", u)
       /\ Replaces({}, u, "COMMUNITY", r.email, NoRow)
  /\ Committed(q, Footprint(r))
  /\ UNCHANGED userRequest

CommitCorrect(q) ==
  LET r == tx[q].request IN
  /\ Open(q, "correct")
  /\ UserIn(r.user, "PENDING", "COMMUNITY")
  /\ user[r.user].email = tx[q].account.email
  /\ ~ EmailTaken(r.email)
  /\ user' = [user EXCEPT ![r.user] = Row(@.status, @.kind, r.email, @.identity)]
  /\ Replaces(Unused(r.user), r.user, "COMMUNITY", r.email, NoRow)
  /\ Committed(q, Footprint(r))
  /\ UNCHANGED userRequest

\* reverifyHistorical: an account that was never verified must be.
CommitReverify(q) ==
  LET u == tx[q].request.user IN
  /\ Open(q, "reverify")
  /\ UserIn(u, "INACTIVE", "COMMUNITY")
  /\ user' = [user EXCEPT ![u] = WithStatus(u, "PENDING")]
  /\ Replaces(Unused(u), u, "COMMUNITY", tx[q].account.email, NoRow)
  /\ Committed(q, Footprint(tx[q].request))
  /\ UNCHANGED userRequest

\* resend: a new link for the account found by its address.
CommitResend(q) ==
  LET account == tx[q].account IN
  /\ Open(q, "resend")
  /\ Replaces(LiveOf(account.user), account.user, "COMMUNITY", account.email, NoRow)
  /\ Committed(q, Footprint(tx[q].request))
  /\ UNCHANGED <<user, userRequest>>

\* Mutant: the token is claimed by id.
ClaimById(t) == TRUE

\* updateMany where usedAt is null.
ClaimUnused(t) == token[t].state # "used"

CommitVerify(q) ==
  LET t == tx[q].request.token
      u == token[t].user IN
  /\ Read(q, "verify")
  /\ ClaimUnused(t) /\ UserIn(u, "PENDING", "COMMUNITY")
  /\ token' = [token EXCEPT ![t] = Marked(t, "used")]
  /\ user' = [user EXCEPT ![u] = WithStatus(u, "ACTIVE")]
  /\ Committed(q, ClaimFootprint(t))
  /\ UNCHANGED userRequest

-----------------------------------------------------------------------------
Init ==
  /\ user = [u \in Users |-> NoRow]
  /\ userRequest = [r \in UserRequests |-> NoRow]
  /\ token = [t \in Tokens |-> NoRow]
  /\ tx = [q \in Requests |-> Idle]

Next ==
  \/ \E q \in Requests, r \in Request : Start(q, r)
  \/ \E q \in Requests :
       \/ Fail(q)
       \/ CommitSubmit(q) \/ CommitApprove(q) \/ CommitReject(q) \/ CommitActivate(q)
       \/ CommitRegister(q) \/ CommitCorrect(q) \/ CommitReverify(q) \/ CommitResend(q)
       \/ CommitVerify(q)
  \/ \E t \in Tokens : Expire(t)

Spec == Init /\ [][Next]_vars

-----------------------------------------------------------------------------
(* Properties.                                                             *)

TypeOK ==
  /\ user \in [Users -> UserRow \cup {NoRow}]
  /\ userRequest \in [UserRequests -> UserRequestRow \cup {NoRow}]
  /\ token \in [Tokens -> TokenRow \cup {NoRow}]
  /\ tx \in [Requests -> HandlerState]

\* Corrections of the address, resends and reverifications racing: an account
\* waiting for its verification has at most one link that works, and it was
\* mailed to the address the account has now.
LiveTokenFollowsEmail ==
  \A u \in Users :
    UserIn(u, "PENDING", "COMMUNITY") =>
      /\ Cardinality(LiveOf(u)) <= 1
      /\ \A t \in LiveOf(u) : token[t].sentTo = user[u].email

Verifies(u) == UserIn(u, "PENDING", "COMMUNITY") /\ user'[u].status = "ACTIVE"

\* A verification that checked its link before the address was corrected, or
\* just before the link expired, never activates the account for the old
\* address: the link that does was mailed to the account's own.
VerifiedAtItsAddress ==
  [][\A u \in Users :
       Verifies(u) =>
         \E t \in CommunityTokens(u) :
           /\ token[t].state # "used" /\ token'[t].state = "used"
           /\ token[t].sentTo = user[u].email]_vars

\* Approvals and rejections racing, of one request or of two for one person: a
\* request is APPROVED exactly when it has its account, one token of which
\* came from it.
RequestAndAccountAgree ==
  \A r \in UserRequests :
    LET ts == {t \in Tokens : token[t] # NoRow /\ token[t].from = r} IN
    /\ Cardinality(ts) <= 1
    /\ ts # {} <=> userRequest[r] # NoRow /\ userRequest[r].status = "APPROVED"
    /\ \A t \in ts : user[token[t].user].identity = userRequest[r].identity

\* Two resends that both counted the links of the last hour never pass the
\* limit together.
ResendsAreLimited ==
  [][\A q \in Requests :
       CommitResend(q) =>
         Cardinality(CommunityTokens(tx[q].account.user)) < ResendLimit]_vars
=============================================================================
