--------------------------- MODULE EnrolmentProofs ---------------------------
(* Links follow the address of their account, and approvals their request,  *)
(* for any number of handlers, users, requests, links and addresses.        *)
EXTENDS Enrolment, FiniteSetTheorems, TLAPS

RowsTyped ==
  /\ user \in [Users -> UserRow \cup {NoRow}]
  /\ userRequest \in [UserRequests -> UserRequestRow \cup {NoRow}]
  /\ token \in [Tokens -> TokenRow \cup {NoRow}]

\* Foreign key: the account of a link.
TokensHaveUsers == \A t \in Tokens : token[t] # NoRow => user[token[t].user] # NoRow

\* The unique index on the address.
OneAccountPerEmail ==
  \A u, v \in Users :
    user[u] # NoRow /\ user[v] # NoRow /\ user[u].email = user[v].email => u = v

\* Every link of a waiting account that may still be claimed, the expired ones
\* too, was mailed to the address the account has now.
UnusedFollowEmail ==
  \A u \in Users :
    UserIn(u, "PENDING", "COMMUNITY") => \A t \in Unused(u) : token[t].sentTo = user[u].email

OneLiveLink ==
  \A u \in Users :
    UserIn(u, "PENDING", "COMMUNITY") => \A s, t \in LiveOf(u) : s = t

IssuedBy(t, r) == token[t] # NoRow /\ token[t].from = r

\* RequestAndAccountAgree, without cardinalities.
RequestAgrees(r) ==
  /\ \A s, t \in Tokens : IssuedBy(s, r) /\ IssuedBy(t, r) => s = t
  /\ (\E t \in Tokens : IssuedBy(t, r))
       <=> userRequest[r] # NoRow /\ userRequest[r].status = "APPROVED"
  /\ \A t \in Tokens :
       IssuedBy(t, r) => user[token[t].user].identity = userRequest[r].identity

RequestsAgree == \A r \in UserRequests : RequestAgrees(r)

RowsOK ==
  /\ RowsTyped /\ TokensHaveUsers /\ OneAccountPerEmail
  /\ UnusedFollowEmail /\ OneLiveLink /\ RequestsAgree

\* What a handler read and nobody can take from it: the link it is to claim,
\* the address of an account that is still to be verified again.
ReaderKnows(r, a) ==
  /\ r.op \in {"verify", "activate"} => token[r.token] # NoRow
  /\ r.op = "verify" => token[r.token].purpose = "COMMUNITY"
  /\ r.op = "reverify" =>
       /\ a \in Account /\ user[r.user] # NoRow
       /\ user[r.user].status = "INACTIVE" => a.email = user[r.user].email

\* What an open resend read: a rival that takes it dooms the transaction.
ResenderKnows(r, a) ==
  /\ a \in Account /\ a.email = r.email
  /\ user[a.user] # NoRow /\ user[a.user].email = a.email
  /\ Cardinality(CommunityTokens(a.user)) < ResendLimit

Knows(q) ==
  /\ tx[q].phase # "idle" => ReaderKnows(tx[q].request, tx[q].account)
  /\ Open(q, "resend") => ResenderKnows(tx[q].request, tx[q].account)

IInv == RowsOK /\ tx \in [Requests -> HandlerState] /\ \A q \in Requests : Knows(q)

-----------------------------------------------------------------------------
(* The shapes of the records.                                               *)

LEMMA UserFields ==
  ASSUME NEW row \in UserRow
  PROVE  /\ row.status \in {"PENDING", "INACTIVE", "ACTIVE"} /\ row.kind \in Kinds
         /\ row.email \in Emails /\ row.identity \in Identities /\ row # NoRow
BY EnrolmentAssumption DEF UserRow

LEMMA RequestRowFields ==
  ASSUME NEW row \in UserRequestRow
  PROVE  /\ row.status \in {"PENDING", "APPROVED", "REJECTED"}
         /\ row.email \in Emails /\ row.identity \in Identities /\ row # NoRow
BY EnrolmentAssumption DEF UserRequestRow

LEMMA TokenFields ==
  ASSUME NEW row \in TokenRow
  PROVE  /\ row.user \in Users /\ row.purpose \in {"COMMUNITY", "LEGACY"}
         /\ row.state \in {"live", "expired", "used"} /\ row.sentTo \in Emails
         /\ row.from \in UserRequests \cup {NoRow} /\ row # NoRow
BY EnrolmentAssumption DEF TokenRow

LEMMA MadeUser ==
  ASSUME NEW s \in {"PENDING", "INACTIVE", "ACTIVE"}, NEW k \in Kinds, NEW e \in Emails,
         NEW i \in Identities
  PROVE  /\ Row(s, k, e, i) \in UserRow
         /\ Row(s, k, e, i).status = s /\ Row(s, k, e, i).kind = k
         /\ Row(s, k, e, i).email = e /\ Row(s, k, e, i).identity = i
BY DEF Row, UserRow

LEMMA MadeToken ==
  ASSUME NEW u \in Users, NEW p \in {"COMMUNITY", "LEGACY"}, NEW e \in Emails,
         NEW r \in UserRequests \cup {NoRow}
  PROVE  /\ Issued(u, p, e, r) \in TokenRow
         /\ Issued(u, p, e, r).user = u /\ Issued(u, p, e, r).purpose = p
         /\ Issued(u, p, e, r).sentTo = e /\ Issued(u, p, e, r).from = r
         /\ Issued(u, p, e, r).state = "live"
BY DEF Issued, TokenRow

LEMMA RequestFields ==
  ASSUME NEW r \in Request
  PROVE  /\ r.op \in {"submit", "register"} => r.email \in Emails /\ r.identity \in Identities
         /\ r.op = "approve" => r.id \in UserRequests /\ r.kind \in Kinds
         /\ r.op = "reject" => r.id \in UserRequests
         /\ r.op = "correct" => r.user \in Users /\ r.email \in Emails
         /\ r.op = "reverify" => r.user \in Users
         /\ r.op = "resend" => r.email \in Emails
         /\ r.op \in {"verify", "activate"} => r.token \in Tokens
         /\ r # NoRow
BY EnrolmentAssumption DEF Request

LEMMA AccountFields ==
  ASSUME NEW a \in Account
  PROVE  a.user \in Users /\ a.email \in Emails /\ a # NoRow
BY EnrolmentAssumption DEF Account

LEMMA IdleHandler ==
  /\ Idle \in HandlerState /\ Idle.phase = "idle"
  /\ Idle.request = NoRow
BY DEF HandlerState, Idle, Handler

LEMMA HandlerFields ==
  ASSUME NEW h \in HandlerState
  PROVE  /\ h.phase \in {"idle", "read", "open"}
         /\ h = Idle <=> h.phase = "idle"
         /\ h.phase # "idle" => h.request \in Request
         /\ h.phase = "open" => h.account \in Account \cup {NoRow}
<1>1. CASE h = Idle
  BY <1>1, IdleHandler
<1>2. CASE h \in [phase : {"read"}, request : Request, account : {NoRow}, doomed : {FALSE}]
  <2>1. h.phase = "read" /\ h.request \in Request
    BY <1>2
  <2> QED
    BY <2>1, IdleHandler
<1>3. CASE h \in [phase : {"open"}, request : Request, account : Account \cup {NoRow},
                  doomed : BOOLEAN]
  <2>1. h.phase = "open" /\ h.request \in Request /\ h.account \in Account \cup {NoRow}
    BY <1>3
  <2> QED
    BY <2>1, IdleHandler
<1> QED
  BY <1>1, <1>2, <1>3 DEF HandlerState

LEMMA MadeHandler ==
  ASSUME NEW r \in Request
  PROVE  /\ Handler("read", r, NoRow, FALSE) \in HandlerState
         /\ \A a \in Account \cup {NoRow}, d \in BOOLEAN :
              /\ Handler("open", r, a, d) \in HandlerState
              /\ Handler("open", r, a, d).phase = "open"
              /\ Handler("open", r, a, d).request = r
              /\ Handler("open", r, a, d).account = a
              /\ Handler("open", r, a, d).doomed = d
BY DEF HandlerState, Handler

-----------------------------------------------------------------------------
(* What a step does to the links.                                           *)

SameToken(t) ==
  /\ token'[t] # NoRow
  /\ token'[t].user = token[t].user /\ token'[t].purpose = token[t].purpose
  /\ token'[t].sentTo = token[t].sentTo /\ token'[t].from = token[t].from

\* Links only age, and those in ts are used up.
TokensAge(ts) ==
  /\ token' \in [Tokens -> TokenRow \cup {NoRow}]
  /\ \A t \in Tokens :
       token[t] # NoRow =>
         /\ SameToken(t)
         /\ token'[t].state = "live" => token[t].state = "live"
         /\ token[t].state = "used" \/ t \in ts => token'[t].state = "used"

NoneIssued == \A t \in Tokens : token[t] = NoRow => token'[t] = NoRow

Issues(n, new) ==
  /\ token[n] = NoRow /\ token'[n] = new
  /\ \A t \in Tokens \ {n} : token[t] = NoRow => token'[t] = NoRow

LEMMA MarkedToken ==
  ASSUME RowsTyped, NEW t \in Tokens, token[t] # NoRow, NEW s \in {"live", "expired", "used"}
  PROVE  /\ Marked(t, s) \in TokenRow
         /\ Marked(t, s).user = token[t].user /\ Marked(t, s).purpose = token[t].purpose
         /\ Marked(t, s).sentTo = token[t].sentTo /\ Marked(t, s).from = token[t].from
         /\ Marked(t, s).state = s
<1>1. token[t] \in TokenRow
  BY DEF RowsTyped
<1> QED
  BY <1>1, TokenFields DEF Marked, TokenRow

LEMMA TokenExpired ==
  ASSUME RowsTyped, NEW t \in Tokens, Expire(t)
  PROVE  TokensAge({}) /\ NoneIssued
<1> DEFINE x == Marked(t, "expired")
<1>1. \A y \in Tokens : token'[y] = IF y = t THEN x ELSE token[y]
  BY DEF RowsTyped, Expire
<1>2. /\ x \in TokenRow /\ x.user = token[t].user /\ x.purpose = token[t].purpose
      /\ x.sentTo = token[t].sentTo /\ x.from = token[t].from /\ x.state = "expired"
  BY MarkedToken DEF Expire
<1>3. token[t] # NoRow /\ token[t].state = "live" /\ x # NoRow
  BY <1>2, TokenFields DEF Expire
<1>4. token' \in [Tokens -> TokenRow \cup {NoRow}]
  BY <1>2 DEF RowsTyped, Expire
<1> HIDE DEF x
<1> QED
  BY <1>1, <1>2, <1>3, <1>4 DEF TokensAge, SameToken, NoneIssued

LEMMA TokenClaimed ==
  ASSUME RowsTyped, NEW t \in Tokens, token[t] # NoRow,
         token' = [token EXCEPT ![t] = Marked(t, "used")]
  PROVE  TokensAge({t}) /\ NoneIssued
<1> DEFINE x == Marked(t, "used")
<1>1. \A y \in Tokens : token'[y] = IF y = t THEN x ELSE token[y]
  BY DEF RowsTyped
<1>2. /\ x \in TokenRow /\ x.user = token[t].user /\ x.purpose = token[t].purpose
      /\ x.sentTo = token[t].sentTo /\ x.from = token[t].from /\ x.state = "used"
  BY MarkedToken
<1>3. x # NoRow
  BY <1>2, TokenFields
<1>4. token' \in [Tokens -> TokenRow \cup {NoRow}]
  BY <1>2 DEF RowsTyped
<1> HIDE DEF x
<1> QED
  BY <1>1, <1>2, <1>3, <1>4 DEF TokensAge, SameToken, NoneIssued

LEMMA TokensReplaced ==
  ASSUME RowsTyped, NEW ts, ts \subseteq {t \in Tokens : token[t] # NoRow},
         NEW u \in Users, NEW p \in {"COMMUNITY", "LEGACY"}, NEW e \in Emails,
         NEW r \in UserRequests \cup {NoRow}, Replaces(ts, u, p, e, r)
  PROVE  TokensAge(ts) /\ \E n \in Tokens : Issues(n, Issued(u, p, e, r))
<1>1. PICK n \in Tokens :
        /\ token[n] = NoRow
        /\ token' = [t \in Tokens |->
                       IF t = n THEN Issued(u, p, e, r)
                       ELSE IF t \in ts THEN Marked(t, "used") ELSE token[t]]
  BY DEF Replaces
<1> DEFINE new == Issued(u, p, e, r)
<1>2. new \in TokenRow
  BY MadeToken
<1>3. \A t \in ts : /\ Marked(t, "used") \in TokenRow
                    /\ Marked(t, "used").user = token[t].user
                    /\ Marked(t, "used").purpose = token[t].purpose
                    /\ Marked(t, "used").sentTo = token[t].sentTo
                    /\ Marked(t, "used").from = token[t].from
                    /\ Marked(t, "used").state = "used"
                    /\ Marked(t, "used") # NoRow
  BY MarkedToken, TokenFields
<1> HIDE DEF new
<1>4. token' \in [Tokens -> TokenRow \cup {NoRow}]
  BY <1>1, <1>2, <1>3 DEF RowsTyped, new
<1>5. \A t \in Tokens : token'[t] = IF t = n THEN new
                                    ELSE IF t \in ts THEN Marked(t, "used") ELSE token[t]
  BY <1>1 DEF new
<1>6. TokensAge(ts)
  BY <1>1, <1>3, <1>4, <1>5 DEF TokensAge, SameToken
<1>7. Issues(n, new)
  BY <1>1, <1>5 DEF Issues
<1> QED
  BY <1>6, <1>7 DEF new

LEMMA TokensIdle ==
  ASSUME RowsTyped, UNCHANGED token
  PROVE  TokensAge({}) /\ NoneIssued
BY DEF TokensAge, SameToken, NoneIssued, RowsTyped

-----------------------------------------------------------------------------
(* The rows after a step.                                                   *)

\* What nobody does to an account that exists.
UsersStay ==
  \A u \in Users :
    user[u] # NoRow =>
      /\ user'[u] # NoRow /\ user'[u].identity = user[u].identity
      /\ user'[u].status = "INACTIVE" => user[u].status = "INACTIVE"
                                         /\ user'[u].email = user[u].email

\* Accounts only leave the states they wait in.
UsersOnlySettle ==
  /\ user' \in [Users -> UserRow \cup {NoRow}]
  /\ \A u \in Users :
       /\ user[u] = NoRow => user'[u] = NoRow
       /\ user[u] # NoRow =>
            /\ user'[u] # NoRow /\ user'[u].identity = user[u].identity
            /\ user'[u].email = user[u].email /\ user'[u].kind = user[u].kind
            /\ user'[u].status = user[u].status \/ user'[u].status = "ACTIVE"

NoApproval == \A t \in Tokens : token[t] = NoRow => token'[t] = NoRow \/ token'[t].from = NoRow

LEMMA AgreementKept ==
  ASSUME RowsOK, UsersStay, NEW ts, TokensAge(ts), NoApproval, UNCHANGED userRequest
  PROVE  RequestsAgree'
<1>1. \A t \in Tokens, r \in UserRequests : IssuedBy(t, r)' <=> IssuedBy(t, r)
  BY EnrolmentAssumption DEF IssuedBy, TokensAge, SameToken, NoApproval
<1>2. \A t \in Tokens, r \in UserRequests :
        IssuedBy(t, r) =>
          /\ token[t].user \in Users /\ user[token[t].user] # NoRow
          /\ token'[t].user = token[t].user
  BY TokenFields DEF IssuedBy, TokensAge, SameToken, RowsOK, RowsTyped, TokensHaveUsers
<1> QED
  BY <1>1, <1>2 DEF RequestsAgree, RequestAgrees, RowsOK, UsersStay, IssuedBy

LEMMA AgreementApproved ==
  ASSUME RowsOK, UsersStay, TokensAge({}), NEW n \in Tokens, NEW new \in TokenRow,
         Issues(n, new), NEW id \in UserRequests, new.from = id, PendingRequest(id),
         user'[new.user].identity = userRequest[id].identity, Decided(id, "APPROVED")
  PROVE  RequestsAgree' /\ userRequest' \in [UserRequests -> UserRequestRow \cup {NoRow}]
<1>1. userRequest[id] \in UserRequestRow
  BY DEF RowsOK, RowsTyped, PendingRequest
<1>2. /\ \A r \in UserRequests \ {id} : userRequest'[r] = userRequest[r]
      /\ userRequest'[id] \in UserRequestRow /\ userRequest'[id] # NoRow
      /\ userRequest'[id].status = "APPROVED"
      /\ userRequest'[id].identity = userRequest[id].identity
  <2>1. userRequest'[id] = [status |-> "APPROVED", email |-> userRequest[id].email,
                            identity |-> userRequest[id].identity]
    BY DEF Decided, RowsOK, RowsTyped
  <2>2. userRequest'[id] \in UserRequestRow
    BY <1>1, <2>1, RequestRowFields DEF UserRequestRow
  <2> QED
    BY <2>1, <2>2, RequestRowFields DEF Decided, RowsOK, RowsTyped
<1>3. userRequest' \in [UserRequests -> UserRequestRow \cup {NoRow}]
  BY <1>2 DEF Decided, RowsOK, RowsTyped
<1>4. \A t \in Tokens : ~ IssuedBy(t, id)
  BY RequestRowFields DEF RowsOK, RequestsAgree, RequestAgrees, PendingRequest
<1>5. new # NoRow
  BY TokenFields
<1>6. \A t \in Tokens, r \in UserRequests :
        IssuedBy(t, r)' <=> IssuedBy(t, r) \/ (t = n /\ r = id)
  BY <1>5, EnrolmentAssumption DEF IssuedBy, TokensAge, SameToken, Issues
<1>7. \A t \in Tokens, r \in UserRequests :
        IssuedBy(t, r) =>
          /\ token[t].user \in Users /\ user[token[t].user] # NoRow
          /\ token'[t].user = token[t].user
  BY TokenFields DEF IssuedBy, TokensAge, SameToken, RowsOK, RowsTyped, TokensHaveUsers
<1>8. token'[n].user = new.user
  BY DEF Issues
<1>9. ASSUME NEW r \in UserRequests \ {id}
      PROVE  RequestAgrees(r)'
  BY <1>2, <1>6, <1>7 DEF RequestsAgree, RequestAgrees, RowsOK, UsersStay
<1>10. RequestAgrees(id)'
  BY <1>2, <1>4, <1>6, <1>8 DEF RequestAgrees
<1>11. RequestsAgree'
  BY <1>9, <1>10 DEF RequestsAgree
<1> QED
  BY <1>3, <1>11

\* A request that comes in or is turned down has no account.
LEMMA AgreementOfRequest ==
  ASSUME RowsOK, NEW id \in UserRequests, NEW row \in UserRequestRow,
         row.status # "APPROVED",
         userRequest[id] = NoRow \/ userRequest[id].status # "APPROVED",
         userRequest' = [userRequest EXCEPT ![id] = row], UNCHANGED <<user, token>>
  PROVE  RowsOK'
<1>1. /\ \A r \in UserRequests \ {id} : userRequest'[r] = userRequest[r]
      /\ userRequest'[id] = row /\ row # NoRow
  BY RequestRowFields DEF RowsOK, RowsTyped
<1>2. RowsTyped'
  BY DEF RowsOK, RowsTyped
<1>3. \A t \in Tokens : ~ IssuedBy(t, id)
  BY DEF RowsOK, RequestsAgree, RequestAgrees
<1>4. \A t \in Tokens, r \in UserRequests : IssuedBy(t, r)' <=> IssuedBy(t, r)
  BY DEF IssuedBy
<1>5. RequestsAgree'
  BY <1>1, <1>3, <1>4 DEF RequestsAgree, RequestAgrees, RowsOK
<1>6. TokensHaveUsers' /\ OneAccountPerEmail' /\ UnusedFollowEmail' /\ OneLiveLink'
  BY DEF RowsOK, TokensHaveUsers, OneAccountPerEmail, UnusedFollowEmail, OneLiveLink, UserIn,
         Unused, LiveOf, CommunityTokens, TokensOf
<1> QED
  BY <1>2, <1>5, <1>6 DEF RowsOK

LEMMA RowsAged ==
  ASSUME RowsOK, UsersOnlySettle, NEW ts, TokensAge(ts), NoneIssued, UNCHANGED userRequest
  PROVE  RowsOK'
<1>1. RowsTyped'
  BY DEF RowsOK, RowsTyped, UsersOnlySettle, TokensAge
<1>2. \A t \in Tokens :
        token'[t] # NoRow =>
          /\ token[t] # NoRow /\ SameToken(t) /\ token[t].user \in Users
          /\ token'[t].state = "live" => token[t].state = "live"
          /\ token[t].state = "used" => token'[t].state = "used"
  BY TokenFields DEF RowsOK, RowsTyped, NoneIssued, TokensAge
<1>3. \A u \in Users :
        /\ user'[u] # NoRow =>
             user[u] # NoRow /\ user'[u].email = user[u].email
        /\ UserIn(u, "PENDING", "COMMUNITY")' =>
             /\ UserIn(u, "PENDING", "COMMUNITY")
             /\ Unused(u)' \subseteq Unused(u) /\ LiveOf(u)' \subseteq LiveOf(u)
  BY <1>2 DEF UsersOnlySettle, UserIn, Unused, LiveOf, CommunityTokens, TokensOf, SameToken
<1>4. TokensHaveUsers'
  BY <1>2 DEF RowsOK, TokensHaveUsers, UsersOnlySettle, SameToken
<1>5. OneAccountPerEmail'
  BY <1>3 DEF RowsOK, OneAccountPerEmail
<1>6. UnusedFollowEmail'
  <2>1. ASSUME NEW u \in Users, UserIn(u, "PENDING", "COMMUNITY")', NEW t \in Unused(u)'
        PROVE  token'[t].sentTo = user'[u].email
    <3>1. t \in Tokens /\ token'[t] # NoRow /\ t \in Unused(u) /\ user'[u] # NoRow
      BY <1>3, <2>1 DEF Unused, CommunityTokens, TokensOf, UserIn
    <3> QED
      BY <1>2, <1>3, <2>1, <3>1 DEF RowsOK, UnusedFollowEmail, SameToken
  <2> QED
    BY <2>1 DEF UnusedFollowEmail
<1>7. OneLiveLink'
  BY <1>3 DEF RowsOK, OneLiveLink
<1>8. UsersStay /\ NoApproval
  BY DEF UsersOnlySettle, UsersStay, NoneIssued, NoApproval, RowsOK, RowsTyped
<1>9. RequestsAgree'
  BY <1>8, AgreementKept
<1> QED
  BY <1>1, <1>4, <1>5, <1>6, <1>7, <1>9 DEF RowsOK

\* A new link is the only one that works, and everything not used up follows
\* the address.
Relinks(u, new, ts) ==
  UserIn(u, "PENDING", "COMMUNITY")' =>
    /\ new.sentTo = user'[u].email
    /\ LiveOf(u) \subseteq ts
    /\ \A t \in Unused(u) : t \in ts \/ token[t].sentTo = user'[u].email

LEMMA RowsIssued ==
  ASSUME RowsOK, NEW u \in Users, NEW n \in Tokens, NEW new \in TokenRow, NEW ts,
         TokensAge(ts), Issues(n, new), new.user = u,
         user' \in [Users -> UserRow \cup {NoRow}],
         userRequest' \in [UserRequests -> UserRequestRow \cup {NoRow}],
         user'[u] # NoRow, \A v \in Users \ {u} : user'[v] = user[v],
         OneAccountPerEmail', Relinks(u, new, ts), RequestsAgree'
  PROVE  RowsOK'
<1>1. RowsTyped'
  BY DEF RowsTyped, TokensAge
<1>2. \A t \in Tokens :
        token'[t] # NoRow /\ t # n =>
          /\ token[t] # NoRow /\ SameToken(t) /\ token[t].user \in Users
          /\ token'[t].state = "live" => token[t].state = "live" /\ t \notin ts
          /\ token[t].state = "used" \/ t \in ts => token'[t].state = "used"
  BY TokenFields DEF RowsOK, RowsTyped, Issues, TokensAge
<1>3. token'[n] = new /\ new # NoRow
  BY TokenFields DEF Issues
<1>4. TokensHaveUsers'
  BY <1>2, <1>3 DEF RowsOK, TokensHaveUsers, SameToken
<1>5. ASSUME NEW v \in Users, UserIn(v, "PENDING", "COMMUNITY")', v # u
      PROVE  /\ UserIn(v, "PENDING", "COMMUNITY") /\ user'[v] = user[v]
             /\ Unused(v)' \subseteq Unused(v) /\ LiveOf(v)' \subseteq LiveOf(v)
  BY <1>2, <1>3, <1>5 DEF UserIn, Unused, LiveOf, CommunityTokens, TokensOf, SameToken
<1>6. /\ Unused(u)' \subseteq (Unused(u) \ ts) \cup {n}
      /\ LiveOf(u)' \subseteq (LiveOf(u) \ ts) \cup {n}
  BY <1>2, <1>3 DEF Unused, LiveOf, CommunityTokens, TokensOf, SameToken
<1>7. ASSUME NEW v \in Users, UserIn(v, "PENDING", "COMMUNITY")', NEW t \in Unused(v)'
      PROVE  token'[t].sentTo = user'[v].email
  <2>1. t \in Tokens /\ token'[t] # NoRow
    BY DEF Unused, CommunityTokens, TokensOf
  <2>2. CASE v # u
    <3>1. t \in Unused(v) /\ t # n /\ UserIn(v, "PENDING", "COMMUNITY")
      BY <1>5, <1>7, <2>2 DEF Unused, CommunityTokens, TokensOf, Issues
    <3> QED
      BY <1>2, <1>5, <1>7, <2>1, <2>2, <3>1 DEF RowsOK, UnusedFollowEmail, SameToken
  <2>3. CASE v = u /\ t = n
    BY <1>3, <1>7, <2>3 DEF Relinks
  <2>4. CASE v = u /\ t # n
    BY <1>2, <1>6, <1>7, <2>1, <2>4 DEF Relinks, SameToken
  <2> QED
    BY <2>2, <2>3, <2>4
<1>8. UnusedFollowEmail'
  BY <1>7 DEF UnusedFollowEmail
<1>9. OneLiveLink'
  BY <1>5, <1>6 DEF RowsOK, OneLiveLink, Relinks
<1> QED
  BY <1>1, <1>4, <1>8, <1>9 DEF RowsOK

-----------------------------------------------------------------------------
(* What the handlers know after a step.                                     *)

\* The address and the links of an account are as they were.
Steady(u) ==
  user[u] # NoRow =>
    /\ user'[u] # NoRow /\ user'[u].email = user[u].email
    /\ CommunityTokens(u)' = CommunityTokens(u)

\* A handler in flight is still the same; an open resend was missed.
SameHandler(p) ==
  /\ tx'[p].phase = tx[p].phase
  /\ tx'[p].request = tx[p].request /\ tx'[p].account = tx[p].account
  /\ Open(p, "resend")' =>
       Open(p, "resend") /\ \A u \in Users : u = tx[p].account.user => Steady(u)

LEMMA SameHandlerKnows ==
  ASSUME RowsOK, tx \in [Requests -> HandlerState], UsersStay, NEW ts, TokensAge(ts),
         NEW p \in Requests, Knows(p), SameHandler(p)
  PROVE  Knows(p)'
<1> DEFINE r == tx[p].request  a == tx[p].account
<1>1. ASSUME tx[p].phase # "idle", ReaderKnows(r, a) PROVE ReaderKnows(r, a)'
  <2>1. r \in Request
    BY <1>1, HandlerFields
  <2>2. ASSUME r.op \in {"verify", "activate"}
        PROVE  token'[r.token] # NoRow /\ (r.op = "verify" => token'[r.token].purpose = "COMMUNITY")
    BY <1>1, <2>1, <2>2, RequestFields DEF ReaderKnows, TokensAge, SameToken
  <2>3. ASSUME r.op = "reverify"
        PROVE  /\ a \in Account /\ user'[r.user] # NoRow
               /\ user'[r.user].status = "INACTIVE" => a.email = user'[r.user].email
    BY <1>1, <2>1, <2>3, RequestFields DEF ReaderKnows, UsersStay
  <2>4. tx'[p].request = r /\ tx'[p].account = a
    BY DEF SameHandler
  <2> QED
    BY <2>2, <2>3, <2>4 DEF ReaderKnows
<1>2. ASSUME Open(p, "resend")' PROVE ResenderKnows(r, a)'
  <2>1. Open(p, "resend") /\ ResenderKnows(r, a)
    BY <1>2 DEF SameHandler, Knows
  <2>2. PICK u \in Users : u = a.user
    BY <2>1, AccountFields DEF ResenderKnows
  <2>3. Steady(u)
    BY <1>2, <2>2 DEF SameHandler
  <2>4. /\ a \in Account /\ a.email = r.email
        /\ user'[u] # NoRow /\ user'[u].email = a.email
        /\ Cardinality(CommunityTokens(u)') < ResendLimit
    BY <2>1, <2>2, <2>3 DEF ResenderKnows, Steady
  <2>5. tx'[p].request = r /\ tx'[p].account = a
    BY DEF SameHandler
  <2> QED
    BY <2>2, <2>4, <2>5 DEF ResenderKnows, CommunityTokens, TokensOf
<1>3. tx'[p].phase = tx[p].phase
  BY DEF SameHandler
<1> QED
  BY <1>1, <1>2, <1>3 DEF Knows

LEMMA IdleKnows ==
  ASSUME NEW q \in Requests, tx'[q] = Idle
  PROVE  Knows(q)'
BY IdleHandler DEF Knows, Open

\* Done and Committed: the handler ends, and the others stay.
LEMMA HandlerEnds ==
  ASSUME tx \in [Requests -> HandlerState], NEW q \in Requests, Done(q)
  PROVE  /\ tx' \in [Requests -> HandlerState] /\ tx'[q] = Idle
         /\ \A p \in Requests \ {q} : tx'[p] = tx[p]
BY IdleHandler DEF Done

LEMMA HandlerCommits ==
  ASSUME tx \in [Requests -> HandlerState], NEW q \in Requests, NEW f, Committed(q, f)
  PROVE  /\ tx' \in [Requests -> HandlerState] /\ tx'[q] = Idle
         /\ \A p \in Requests \ {q} :
              /\ tx'[p].phase = tx[p].phase
              /\ tx'[p].request = tx[p].request /\ tx'[p].account = tx[p].account
              /\ Open(p, "resend")' =>
                   Open(p, "resend") /\ ~ Conflict(Footprint(tx[p].request), f)
<1> DEFINE hit(p) == tx[p].phase = "open" /\ Conflict(Footprint(tx[p].request), f)
           doomed(p) == Handler("open", tx[p].request, tx[p].account, TRUE)
<1>1. tx' = [p \in Requests |-> IF p = q THEN Idle ELSE IF hit(p) THEN doomed(p) ELSE tx[p]]
  BY DEF Committed, Condemned
<1>2. ASSUME NEW p \in Requests, hit(p)
      PROVE  /\ doomed(p) \in HandlerState /\ doomed(p).phase = "open"
             /\ doomed(p).request = tx[p].request /\ doomed(p).account = tx[p].account
             /\ doomed(p).doomed
  <2>1. tx[p] \in HandlerState /\ tx[p].phase = "open"
    BY <1>2
  <2>2. tx[p].request \in Request /\ tx[p].account \in Account \cup {NoRow}
    BY <2>1, HandlerFields
  <2>3. PICK r \in Request, a \in Account \cup {NoRow} :
          r = tx[p].request /\ a = tx[p].account
    BY <2>2
  <2>4. doomed(p) = Handler("open", r, a, TRUE)
    BY <2>3
  <2>5. LET h == Handler("open", r, a, TRUE) IN
        /\ h \in HandlerState /\ h.phase = "open" /\ h.request = r /\ h.account = a
        /\ h.doomed
    BY MadeHandler
  <2> HIDE DEF doomed
  <2> QED
    BY <2>3, <2>4, <2>5
<1> HIDE DEF hit, doomed
<1>3. tx' \in [Requests -> HandlerState] /\ tx'[q] = Idle
  BY <1>1, <1>2, IdleHandler
<1>4. ASSUME NEW p \in Requests \ {q}
      PROVE  /\ tx'[p].phase = tx[p].phase
             /\ tx'[p].request = tx[p].request /\ tx'[p].account = tx[p].account
             /\ Open(p, "resend")' =>
                  Open(p, "resend") /\ ~ Conflict(Footprint(tx[p].request), f)
  <2>1. CASE hit(p)
    <3>1. tx'[p] = doomed(p) /\ tx[p].phase = "open"
      BY <1>1, <2>1 DEF hit
    <3> QED
      BY <1>2, <2>1, <3>1 DEF Open
  <2>2. CASE ~ hit(p)
    <3>1. tx'[p] = tx[p]
      BY <1>1, <2>2
    <3> QED
      BY <2>2, <3>1 DEF Open, hit
  <2> QED
    BY <2>1, <2>2
<1> QED
  BY <1>3, <1>4

LEMMA FootprintOf ==
  ASSUME NEW r
  PROVE  /\ r.op = "resend" => Footprint(r) = ResendFootprint(r)
         /\ r.op = "correct" => Footprint(r) = CorrectFootprint(r)
         /\ r.op = "reverify" => Footprint(r) = ReverifyFootprint(r)
BY DEF Footprint

\* What issues a link to u read the links of u and wrote one.
Counts(f, u) == <<"tokens", u>> \in f.reads /\ <<"tokens", u>> \in f.marks

LEMMA ResendCounts ==
  ASSUME NEW r, r.op = "resend", NEW u \in WithEmail(r.email)
  PROVE  Counts(Footprint(r), u)
<1>1. Footprint(r) = ResendFootprint(r)
  BY FootprintOf
<1>2. <<"tokens", u>> \in {<<"tokens", v>> : v \in WithEmail(r.email)}
  OBVIOUS
<1> QED
  BY <1>1, <1>2 DEF ResendFootprint, Counts

LEMMA ResendMissed ==
  ASSUME NEW p \in Requests, tx \in [Requests -> HandlerState], Knows(p), Open(p, "resend"),
         NEW f, NEW u, Counts(f, u), ~ Conflict(Footprint(tx[p].request), f)
  PROVE  tx[p].account.user # u
<1> DEFINE r == tx[p].request  a == tx[p].account
<1>1. ResenderKnows(r, a) /\ r.op = "resend"
  BY DEF Knows, Open
<1>2. a.user \in WithEmail(r.email)
  BY <1>1, AccountFields DEF ResenderKnows, WithEmail
<1>3. Counts(Footprint(r), a.user)
  BY <1>1, <1>2, ResendCounts
<1>4. ~ (Counts(Footprint(r), u) /\ Counts(f, u))
  BY DEF Conflict, Writes, Counts
<1> QED
  BY <1>3, <1>4

LEMMA KnowsAfterDone ==
  ASSUME RowsOK, tx \in [Requests -> HandlerState], \A p \in Requests : Knows(p),
         UsersStay, NEW ts, TokensAge(ts), \A u \in Users : Steady(u),
         NEW q \in Requests, Done(q)
  PROVE  tx' \in [Requests -> HandlerState] /\ \A p \in Requests : Knows(p)'
<1>1. /\ tx' \in [Requests -> HandlerState] /\ tx'[q] = Idle
      /\ \A p \in Requests \ {q} : tx'[p] = tx[p]
  BY HandlerEnds
<1>2. ASSUME NEW p \in Requests \ {q} PROVE Knows(p)'
  <2>1. SameHandler(p)
    BY <1>1 DEF SameHandler, Open
  <2> QED
    BY <2>1, SameHandlerKnows
<1> QED
  BY <1>1, <1>2, IdleKnows

\* A commit that issues a link to u, or to none.
LEMMA KnowsAfterCommit ==
  ASSUME RowsOK, tx \in [Requests -> HandlerState], \A p \in Requests : Knows(p),
         UsersStay, NEW ts, TokensAge(ts), NEW f,
         \A u \in Users : Steady(u) \/ Counts(f, u),
         NEW q \in Requests, Committed(q, f)
  PROVE  tx' \in [Requests -> HandlerState] /\ \A p \in Requests : Knows(p)'
<1>1. /\ tx' \in [Requests -> HandlerState] /\ tx'[q] = Idle
      /\ \A p \in Requests \ {q} :
           /\ tx'[p].phase = tx[p].phase
           /\ tx'[p].request = tx[p].request /\ tx'[p].account = tx[p].account
           /\ Open(p, "resend")' =>
                Open(p, "resend") /\ ~ Conflict(Footprint(tx[p].request), f)
  BY HandlerCommits
<1>2. ASSUME NEW p \in Requests \ {q} PROVE Knows(p)'
  <2>1. ASSUME Open(p, "resend")', NEW u \in Users, u = tx[p].account.user
        PROVE  Steady(u)
    <3>1. Open(p, "resend") /\ ~ Conflict(Footprint(tx[p].request), f)
      BY <1>1, <2>1
    <3>2. ~ Counts(f, u)
      BY <2>1, <3>1, ResendMissed
    <3> QED
      BY <3>2
  <2>2. SameHandler(p)
    BY <1>1, <2>1 DEF SameHandler
  <2> QED
    BY <2>2, SameHandlerKnows
<1> QED
  BY <1>1, <1>2, IdleKnows

-----------------------------------------------------------------------------
(* The steps.                                                               *)

LEMMA SteadyWhenAged ==
  ASSUME RowsOK, UsersOnlySettle, NEW ts, TokensAge(ts), NoneIssued
  PROVE  UsersStay /\ \A u \in Users : Steady(u)
<1>1. UsersStay
  BY DEF UsersOnlySettle, UsersStay, RowsOK, RowsTyped
<1>2. ASSUME NEW u \in Users, user[u] # NoRow
      PROVE  CommunityTokens(u)' = CommunityTokens(u)
  BY DEF CommunityTokens, TokensOf, TokensAge, SameToken, NoneIssued
<1> QED
  BY <1>1, <1>2 DEF Steady, UsersOnlySettle

LEMMA SteadyWhenIssued ==
  ASSUME RowsOK, NEW ts, TokensAge(ts), NEW n \in Tokens, NEW new \in TokenRow, Issues(n, new),
         NEW u, new.user = u, \A v \in Users \ {u} : user'[v] = user[v]
  PROVE  \A v \in Users \ {u} : Steady(v)
<1>1. ASSUME NEW v \in Users \ {u}
      PROVE  CommunityTokens(v)' = CommunityTokens(v)
  BY TokenFields DEF CommunityTokens, TokensOf, TokensAge, SameToken, Issues
<1> QED
  BY <1>1 DEF Steady

\* The unique indexes, and the account no link has yet.
LEMMA UserInserted ==
  ASSUME RowsOK, NEW e \in Emails, NEW i \in Identities,
         NEW s \in {"PENDING", "INACTIVE"}, NEW k \in Kinds, NEW u \in Users,
         Inserts(e, i, s, k, u)
  PROVE  /\ user' \in [Users -> UserRow \cup {NoRow}]
         /\ user[u] = NoRow /\ user'[u] # NoRow /\ user'[u] = Row(s, k, e, i)
         /\ user'[u].status = s /\ user'[u].email = e /\ user'[u].identity = i
         /\ \A v \in Users \ {u} : user'[v] = user[v]
         /\ OneAccountPerEmail' /\ UsersStay /\ TokensOf(u) = {}
<1>1. /\ Row(s, k, e, i) \in UserRow /\ Row(s, k, e, i) # NoRow
      /\ Row(s, k, e, i).status = s /\ Row(s, k, e, i).email = e
      /\ Row(s, k, e, i).identity = i
  BY MadeUser, UserFields
<1>2. /\ user' \in [Users -> UserRow \cup {NoRow}]
      /\ user[u] = NoRow /\ user'[u] = Row(s, k, e, i)
      /\ \A v \in Users \ {u} : user'[v] = user[v]
  BY <1>1 DEF Inserts, RowsOK, RowsTyped
<1>3. \A v \in Users : user[v] # NoRow => user[v].email # e
  BY DEF Inserts, EmailTaken
<1>4. OneAccountPerEmail'
  BY <1>1, <1>2, <1>3 DEF RowsOK, OneAccountPerEmail
<1>5. UsersStay
  BY <1>2 DEF UsersStay
<1>6. TokensOf(u) = {}
  BY <1>2 DEF RowsOK, TokensHaveUsers, TokensOf
<1> QED
  BY <1>1, <1>2, <1>4, <1>5, <1>6

LEMMA StepFail ==
  ASSUME IInv, NEW q \in Requests, Fail(q)
  PROVE  IInv'
<1>1. TokensAge({}) /\ NoneIssued /\ UsersOnlySettle /\ Done(q) /\ UNCHANGED userRequest
  BY TokensIdle DEF IInv, RowsOK, Fail, RowsTyped, UsersOnlySettle
<1>2. RowsOK'
  BY <1>1, RowsAged DEF IInv
<1>3. UsersStay /\ \A u \in Users : Steady(u)
  BY <1>1, SteadyWhenAged DEF IInv
<1> QED
  BY <1>1, <1>2, <1>3, KnowsAfterDone DEF IInv

LEMMA StepExpire ==
  ASSUME IInv, NEW t \in Tokens, Expire(t)
  PROVE  IInv'
<1>1. /\ TokensAge({}) /\ NoneIssued /\ UsersOnlySettle
      /\ UNCHANGED <<userRequest, tx>>
  BY TokenExpired DEF IInv, RowsOK, Expire, RowsTyped, UsersOnlySettle
<1>2. RowsOK'
  BY <1>1, RowsAged DEF IInv
<1>3. UsersStay /\ \A u \in Users : Steady(u)
  BY <1>1, SteadyWhenAged DEF IInv
<1>4. ASSUME NEW p \in Requests PROVE Knows(p)'
  <2>1. SameHandler(p)
    BY <1>1, <1>3 DEF SameHandler, Open
  <2> QED
    BY <1>1, <1>3, <2>1, SameHandlerKnows DEF IInv
<1> QED
  BY <1>1, <1>2, <1>4 DEF IInv

LEMMA StepSubmit ==
  ASSUME IInv, NEW q \in Requests, CommitSubmit(q)
  PROVE  IInv'
<1> DEFINE r == tx[q].request
           row == [status |-> "PENDING", email |-> r.email, identity |-> r.identity]
<1>1. PICK id \in UserRequests :
        userRequest[id] = NoRow /\ userRequest' = [userRequest EXCEPT ![id] = row]
  BY DEF CommitSubmit
<1>2. r \in Request /\ r.op = "submit"
  BY HandlerFields DEF IInv, CommitSubmit, Read
<1>3. row \in UserRequestRow /\ row.status # "APPROVED"
  BY <1>2, RequestFields DEF UserRequestRow
<1>4. UNCHANGED <<user, token>> /\ Done(q)
  BY DEF CommitSubmit
<1> HIDE DEF row
<1>5. RowsOK'
  BY <1>1, <1>3, <1>4, AgreementOfRequest DEF IInv
<1>6. TokensAge({}) /\ NoneIssued /\ UsersOnlySettle
  BY <1>4, TokensIdle DEF IInv, RowsOK, RowsTyped, UsersOnlySettle
<1>7. UsersStay /\ \A u \in Users : Steady(u)
  BY <1>6, SteadyWhenAged DEF IInv
<1> QED
  BY <1>4, <1>5, <1>6, <1>7, KnowsAfterDone DEF IInv

LEMMA StepReject ==
  ASSUME IInv, NEW q \in Requests, CommitReject(q)
  PROVE  IInv'
<1> DEFINE id == tx[q].request.id
           row == [status |-> "REJECTED", email |-> userRequest[id].email,
                   identity |-> userRequest[id].identity]
<1>1. id \in UserRequests
  BY HandlerFields, RequestFields DEF IInv, CommitReject, Read
<1>2. PendingRequest(id) /\ Decided(id, "REJECTED") /\ UNCHANGED <<user, token>> /\ Done(q)
  BY DEF CommitReject, RejectPending
<1>3. userRequest[id] \in UserRequestRow /\ userRequest[id].status = "PENDING"
  BY <1>1, <1>2 DEF PendingRequest, IInv, RowsOK, RowsTyped
<1>4. row \in UserRequestRow /\ row.status # "APPROVED"
  BY <1>3, RequestRowFields DEF UserRequestRow
<1>5. userRequest' = [userRequest EXCEPT ![id] = row]
  BY <1>1, <1>2 DEF Decided, IInv, RowsOK, RowsTyped
<1> HIDE DEF row, id
<1>6. RowsOK'
  BY <1>1, <1>2, <1>3, <1>4, <1>5, AgreementOfRequest DEF IInv
<1>7. TokensAge({}) /\ NoneIssued /\ UsersOnlySettle
  BY <1>2, TokensIdle DEF IInv, RowsOK, RowsTyped, UsersOnlySettle
<1>8. UsersStay /\ \A u \in Users : Steady(u)
  BY <1>7, SteadyWhenAged DEF IInv
<1> QED
  BY <1>2, <1>6, <1>7, <1>8, KnowsAfterDone DEF IInv

LEMMA StepApprove ==
  ASSUME IInv, NEW q \in Requests, CommitApprove(q)
  PROVE  IInv'
<1> DEFINE r == tx[q].request
           row == userRequest[r.id]
<1>1. r \in Request /\ r.op = "approve" /\ r.id \in UserRequests /\ r.kind \in Kinds
  BY HandlerFields, RequestFields DEF IInv, CommitApprove, Read
<1>2. PendingRequest(r.id) /\ Decided(r.id, "APPROVED") /\ Done(q)
  BY DEF CommitApprove
<1>3. row.email \in Emails /\ row.identity \in Identities
  BY <1>1, <1>2, RequestRowFields DEF PendingRequest, IInv, RowsOK, RowsTyped
<1>4. PICK u \in Users :
        /\ Inserts(row.email, row.identity, "INACTIVE", r.kind, u)
        /\ Replaces({}, u, "LEGACY", row.email, r.id)
  BY DEF CommitApprove
<1>5. /\ user' \in [Users -> UserRow \cup {NoRow}]
      /\ user[u] = NoRow /\ user'[u] # NoRow
      /\ user'[u].status = "INACTIVE" /\ user'[u].identity = row.identity
      /\ \A v \in Users \ {u} : user'[v] = user[v]
      /\ OneAccountPerEmail' /\ UsersStay
  BY <1>1, <1>3, <1>4, UserInserted DEF IInv
<1> DEFINE new == Issued(u, "LEGACY", row.email, r.id)
<1>6. new \in TokenRow /\ new.user = u /\ new.from = r.id
  BY <1>1, <1>3, MadeToken
<1>7. TokensAge({}) /\ \E n \in Tokens : Issues(n, new)
  BY <1>1, <1>3, <1>4, TokensReplaced DEF IInv, RowsOK
<1> HIDE DEF new
<1>8. PICK n \in Tokens : Issues(n, new)
  BY <1>7
<1>9. RequestsAgree' /\ userRequest' \in [UserRequests -> UserRequestRow \cup {NoRow}]
  BY <1>1, <1>2, <1>5, <1>6, <1>7, <1>8, AgreementApproved DEF IInv
<1>10. Relinks(u, new, {})
  BY <1>5 DEF Relinks, UserIn
<1>11. RowsOK'
  BY <1>5, <1>6, <1>7, <1>8, <1>9, <1>10, RowsIssued DEF IInv
<1>12. \A v \in Users : Steady(v)
  BY <1>5, <1>6, <1>7, <1>8, SteadyWhenIssued DEF IInv, Steady
<1> QED
  BY <1>2, <1>5, <1>7, <1>11, <1>12, KnowsAfterDone DEF IInv

\* A link that comes from no approval.
LEMMA NothingApproved ==
  ASSUME NEW n \in Tokens, NEW new, Issues(n, new), new.from = NoRow
  PROVE  NoApproval
BY DEF Issues, NoApproval

LEMMA UserUpdated ==
  ASSUME RowsOK, NEW u \in Users, user[u] # NoRow, NEW row \in UserRow,
         user' = [user EXCEPT ![u] = row], row.identity = user[u].identity,
         row.status # "INACTIVE", row.email = user[u].email \/ ~ EmailTaken(row.email)
  PROVE  /\ user' \in [Users -> UserRow \cup {NoRow}]
         /\ user'[u] = row /\ row # NoRow
         /\ \A v \in Users \ {u} : user'[v] = user[v]
         /\ OneAccountPerEmail' /\ UsersStay
<1>1. /\ user' \in [Users -> UserRow \cup {NoRow}]
      /\ user'[u] = row /\ row # NoRow
      /\ \A v \in Users \ {u} : user'[v] = user[v]
  BY UserFields DEF RowsOK, RowsTyped
<1>2. \A v \in Users \ {u} : user[v] # NoRow => user[v].email # row.email
  BY DEF EmailTaken, RowsOK, OneAccountPerEmail
<1>3. OneAccountPerEmail'
  BY <1>1, <1>2 DEF RowsOK, OneAccountPerEmail
<1>4. UsersStay
  BY <1>1 DEF UsersStay
<1> QED
  BY <1>1, <1>3, <1>4

LEMMA StatusRow ==
  ASSUME RowsOK, NEW u \in Users, user[u] # NoRow, NEW s \in {"PENDING", "INACTIVE", "ACTIVE"}
  PROVE  /\ WithStatus(u, s) \in UserRow /\ WithStatus(u, s).status = s
         /\ WithStatus(u, s).kind = user[u].kind /\ WithStatus(u, s).email = user[u].email
         /\ WithStatus(u, s).identity = user[u].identity
<1>1. user[u] \in UserRow
  BY DEF RowsOK, RowsTyped
<1> QED
  BY <1>1, UserFields, MadeUser DEF WithStatus

LEMMA StepRegister ==
  ASSUME IInv, NEW q \in Requests, CommitRegister(q)
  PROVE  IInv'
<1> DEFINE r == tx[q].request
<1>1. r.email \in Emails /\ r.identity \in Identities
  BY HandlerFields, RequestFields DEF IInv, CommitRegister, Open
<1>2. Committed(q, Footprint(r)) /\ UNCHANGED userRequest
  BY DEF CommitRegister
<1>3. PICK u \in Users :
        /\ Inserts(r.email, r.identity, "PENDING", "COMMUNITY", u)
        /\ Replaces({}, u, "COMMUNITY", r.email, NoRow)
  BY DEF CommitRegister
<1>4. /\ user' \in [Users -> UserRow \cup {NoRow}]
      /\ user[u] = NoRow /\ user'[u] # NoRow /\ user'[u].email = r.email
      /\ \A v \in Users \ {u} : user'[v] = user[v]
      /\ OneAccountPerEmail' /\ UsersStay /\ TokensOf(u) = {}
  BY <1>1, <1>3, UserInserted DEF IInv, Kinds
<1> DEFINE new == Issued(u, "COMMUNITY", r.email, NoRow)
<1>5. new \in TokenRow /\ new.user = u /\ new.from = NoRow /\ new.sentTo = r.email
  BY <1>1, MadeToken
<1>6. TokensAge({}) /\ \E n \in Tokens : Issues(n, new)
  BY <1>1, <1>3, TokensReplaced DEF IInv, RowsOK
<1> HIDE DEF new
<1>7. PICK n \in Tokens : Issues(n, new)
  BY <1>6
<1>8. RequestsAgree'
  BY <1>2, <1>4, <1>5, <1>6, <1>7, NothingApproved, AgreementKept DEF IInv
<1>9. Relinks(u, new, {})
  BY <1>4, <1>5 DEF Relinks, LiveOf, Unused, CommunityTokens
<1>10. userRequest' \in [UserRequests -> UserRequestRow \cup {NoRow}]
  BY <1>2 DEF IInv, RowsOK, RowsTyped
<1>11. RowsOK'
  BY <1>4, <1>5, <1>6, <1>7, <1>8, <1>9, <1>10, RowsIssued DEF IInv
<1>12. \A v \in Users : Steady(v)
  BY <1>4, <1>5, <1>6, <1>7, SteadyWhenIssued DEF IInv, Steady
<1> QED
  BY <1>2, <1>4, <1>6, <1>11, <1>12, KnowsAfterCommit DEF IInv

\* A transaction that counts the links of u, writes its row and issues a link.
LEMMA StepIssue ==
  ASSUME IInv, NEW q \in Requests, NEW u \in Users, NEW e \in Emails,
         NEW ts, ts \subseteq CommunityTokens(u), Replaces(ts, u, "COMMUNITY", e, NoRow),
         user' \in [Users -> UserRow \cup {NoRow}], user'[u] # NoRow,
         \A v \in Users \ {u} : user'[v] = user[v],
         OneAccountPerEmail', UsersStay,
         Relinks(u, Issued(u, "COMMUNITY", e, NoRow), ts),
         Counts(Footprint(tx[q].request), u), Committed(q, Footprint(tx[q].request)),
         UNCHANGED userRequest
  PROVE  IInv'
<1> DEFINE new == Issued(u, "COMMUNITY", e, NoRow)
<1>1. new \in TokenRow /\ new.user = u /\ new.from = NoRow
  BY MadeToken
<1>2. ts \subseteq {t \in Tokens : token[t] # NoRow}
  BY DEF CommunityTokens, TokensOf
<1>3. TokensAge(ts) /\ \E n \in Tokens : Issues(n, new)
  BY <1>2, TokensReplaced DEF IInv, RowsOK
<1>4. Relinks(u, new, ts)
  OBVIOUS
<1> HIDE DEF new
<1>5. PICK n \in Tokens : Issues(n, new)
  BY <1>3
<1>6. RequestsAgree'
  BY <1>1, <1>3, <1>5, NothingApproved, AgreementKept DEF IInv
<1>7. userRequest' \in [UserRequests -> UserRequestRow \cup {NoRow}]
  BY DEF IInv, RowsOK, RowsTyped
<1>8. RowsOK'
  BY <1>1, <1>3, <1>4, <1>5, <1>6, <1>7, RowsIssued DEF IInv
<1>9. \A v \in Users : Steady(v) \/ Counts(Footprint(tx[q].request), v)
  BY <1>1, <1>3, <1>5, SteadyWhenIssued DEF IInv
<1> QED
  BY <1>3, <1>8, <1>9, KnowsAfterCommit DEF IInv

LEMMA StepCorrect ==
  ASSUME IInv, NEW q \in Requests, CommitCorrect(q)
  PROVE  IInv'
<1> DEFINE r == tx[q].request
<1>1. r.op = "correct" /\ r.user \in Users /\ r.email \in Emails
  BY HandlerFields, RequestFields DEF IInv, CommitCorrect, Open
<1>2. PICK u \in Users, e \in Emails : u = r.user /\ e = r.email
  BY <1>1
<1>3. /\ UserIn(u, "PENDING", "COMMUNITY") /\ ~ EmailTaken(e)
      /\ user' = [user EXCEPT ![u] = Row(@.status, @.kind, e, @.identity)]
      /\ Replaces(Unused(u), u, "COMMUNITY", e, NoRow)
      /\ Committed(q, Footprint(r)) /\ UNCHANGED userRequest
  BY <1>2 DEF CommitCorrect
<1>4. user[u] # NoRow /\ user[u] \in UserRow /\ user[u].status = "PENDING"
  BY <1>3 DEF UserIn, IInv, RowsOK, RowsTyped
<1> DEFINE row == Row(user[u].status, user[u].kind, e, user[u].identity)
<1>5. user' = [user EXCEPT ![u] = row]
  BY <1>3 DEF IInv, RowsOK, RowsTyped
<1>6. /\ row \in UserRow /\ row.email = e /\ row.identity = user[u].identity
      /\ row.status # "INACTIVE"
  BY <1>4, UserFields, MadeUser
<1> HIDE DEF row
<1>7. /\ user' \in [Users -> UserRow \cup {NoRow}]
      /\ user'[u] = row /\ row # NoRow
      /\ \A v \in Users \ {u} : user'[v] = user[v]
      /\ OneAccountPerEmail' /\ UsersStay
  BY <1>3, <1>4, <1>5, <1>6, UserUpdated DEF IInv
<1>8. Issued(u, "COMMUNITY", e, NoRow).sentTo = e
  BY MadeToken
<1>9. Unused(u) \subseteq CommunityTokens(u) /\ LiveOf(u) \subseteq Unused(u)
  BY DEF Unused, LiveOf
<1>10. Relinks(u, Issued(u, "COMMUNITY", e, NoRow), Unused(u))
  BY <1>6, <1>7, <1>8, <1>9 DEF Relinks
<1>11. Counts(Footprint(r), u)
  BY <1>1, <1>2, FootprintOf DEF CorrectFootprint, Counts
<1> QED
  BY <1>3, <1>7, <1>9, <1>10, <1>11, StepIssue

LEMMA StepReverify ==
  ASSUME IInv, NEW q \in Requests, CommitReverify(q)
  PROVE  IInv'
<1> DEFINE r == tx[q].request
           a == tx[q].account
<1>1. r.op = "reverify" /\ r.user \in Users
  BY HandlerFields, RequestFields DEF IInv, CommitReverify, Open
<1>2. ReaderKnows(r, a) /\ UserIn(r.user, "INACTIVE", "COMMUNITY")
  BY DEF IInv, Knows, CommitReverify, Open
<1>3. /\ a.email \in Emails /\ a.email = user[r.user].email
      /\ user[r.user] # NoRow
  BY <1>1, <1>2, AccountFields DEF ReaderKnows, UserIn
<1>4. PICK u \in Users, e \in Emails : u = r.user /\ e = a.email
  BY <1>1, <1>3
<1> DEFINE row == WithStatus(u, "PENDING")
<1>5. /\ user' = [user EXCEPT ![u] = row]
      /\ Replaces(Unused(u), u, "COMMUNITY", e, NoRow)
      /\ Committed(q, Footprint(r)) /\ UNCHANGED userRequest
  BY <1>4 DEF CommitReverify
<1>6. user[u] # NoRow /\ user[u].email = e
  BY <1>3, <1>4
<1>7. /\ row \in UserRow /\ row.email = e /\ row.identity = user[u].identity
      /\ row.status # "INACTIVE"
  BY <1>6, StatusRow DEF IInv
<1> HIDE DEF row
<1>8. /\ user' \in [Users -> UserRow \cup {NoRow}]
      /\ user'[u] = row /\ row # NoRow
      /\ \A v \in Users \ {u} : user'[v] = user[v]
      /\ OneAccountPerEmail' /\ UsersStay
  BY <1>5, <1>6, <1>7, UserUpdated DEF IInv
<1>9. Issued(u, "COMMUNITY", e, NoRow).sentTo = e
  BY MadeToken
<1>10. Unused(u) \subseteq CommunityTokens(u) /\ LiveOf(u) \subseteq Unused(u)
  BY DEF Unused, LiveOf
<1>11. Relinks(u, Issued(u, "COMMUNITY", e, NoRow), Unused(u))
  BY <1>7, <1>8, <1>9, <1>10 DEF Relinks
<1>12. Counts(Footprint(r), u)
  BY <1>1, <1>4, FootprintOf DEF ReverifyFootprint, Counts
<1> QED
  BY <1>5, <1>8, <1>10, <1>11, <1>12, StepIssue

LEMMA StepResend ==
  ASSUME IInv, NEW q \in Requests, CommitResend(q)
  PROVE  IInv'
<1> DEFINE r == tx[q].request
           a == tx[q].account
<1>1. r.op = "resend" /\ ResenderKnows(r, a)
  BY DEF IInv, Knows, CommitResend, Open
<1>2. PICK u \in Users, e \in Emails : u = a.user /\ e = a.email
  BY <1>1, AccountFields DEF ResenderKnows
<1>3. e = r.email /\ user[u] # NoRow /\ user[u].email = e
  BY <1>1, <1>2 DEF ResenderKnows
<1>4. /\ Replaces(LiveOf(u), u, "COMMUNITY", e, NoRow)
      /\ Committed(q, Footprint(r)) /\ UNCHANGED <<user, userRequest>>
  BY <1>2 DEF CommitResend
<1>5. user' \in [Users -> UserRow \cup {NoRow}] /\ OneAccountPerEmail' /\ UsersStay
  BY <1>4 DEF IInv, RowsOK, RowsTyped, OneAccountPerEmail, UsersStay
<1>6. Issued(u, "COMMUNITY", e, NoRow).sentTo = e
  BY MadeToken
<1>7. LiveOf(u) \subseteq CommunityTokens(u)
  BY DEF LiveOf
<1>8. UserIn(u, "PENDING", "COMMUNITY")' =>
        \A t \in Unused(u) : token[t].sentTo = user'[u].email
  BY <1>4 DEF IInv, RowsOK, UnusedFollowEmail, UserIn
<1>9. Relinks(u, Issued(u, "COMMUNITY", e, NoRow), LiveOf(u))
  BY <1>3, <1>4, <1>6, <1>8 DEF Relinks
<1>10. Counts(Footprint(r), u)
  BY <1>1, <1>3, ResendCounts DEF WithEmail
<1> QED
  BY <1>3, <1>4, <1>5, <1>7, <1>9, <1>10, StepIssue

\* Verification and activation: the link is used up, the account is ACTIVE.
LEMMA StepClaim ==
  ASSUME IInv, NEW q \in Requests, NEW t \in Tokens, token[t] # NoRow, NEW f,
         user[token[t].user] # NoRow,
         token' = [token EXCEPT ![t] = Marked(t, "used")],
         user' = [user EXCEPT ![token[t].user] = WithStatus(token[t].user, "ACTIVE")],
         Committed(q, f), UNCHANGED userRequest
  PROVE  IInv'
<1> DEFINE u == token[t].user  row == WithStatus(u, "ACTIVE")
<1>1. u \in Users
  BY TokenFields DEF IInv, RowsOK, RowsTyped
<1>2. /\ row \in UserRow /\ row.status = "ACTIVE" /\ row.kind = user[u].kind
      /\ row.email = user[u].email /\ row.identity = user[u].identity /\ row # NoRow
  BY <1>1, StatusRow, UserFields DEF IInv
<1> HIDE DEF row, u
<1>3. user' = [user EXCEPT ![u] = row]
  BY DEF row, u
<1>4. user[u] # NoRow
  BY DEF u
<1>5. UsersOnlySettle
  BY <1>1, <1>2, <1>3, <1>4 DEF UsersOnlySettle, IInv, RowsOK, RowsTyped
<1>6. TokensAge({t}) /\ NoneIssued
  BY TokenClaimed DEF IInv, RowsOK
<1>7. RowsOK'
  BY <1>5, <1>6, RowsAged DEF IInv
<1>8. UsersStay /\ \A v \in Users : Steady(v)
  BY <1>5, <1>6, SteadyWhenAged DEF IInv
<1> QED
  BY <1>6, <1>7, <1>8, KnowsAfterCommit DEF IInv

LEMMA StepVerify ==
  ASSUME IInv, NEW q \in Requests, CommitVerify(q)
  PROVE  IInv'
<1> DEFINE t == tx[q].request.token
<1>1. t \in Tokens /\ tx[q].request.op = "verify"
  BY HandlerFields, RequestFields DEF IInv, CommitVerify, Read
<1>2. token[t] # NoRow
  BY <1>1 DEF IInv, Knows, ReaderKnows, CommitVerify, Read
<1>3. /\ user[token[t].user] # NoRow
      /\ token' = [token EXCEPT ![t] = Marked(t, "used")]
      /\ user' = [user EXCEPT ![token[t].user] = WithStatus(token[t].user, "ACTIVE")]
      /\ Committed(q, ClaimFootprint(t)) /\ UNCHANGED userRequest
  BY DEF CommitVerify, UserIn
<1> QED
  BY <1>1, <1>2, <1>3, StepClaim

LEMMA StepActivate ==
  ASSUME IInv, NEW q \in Requests, CommitActivate(q)
  PROVE  IInv'
<1> DEFINE t == tx[q].request.token
<1>1. t \in Tokens /\ tx[q].request.op = "activate"
  BY HandlerFields, RequestFields DEF IInv, CommitActivate, Read
<1>2. token[t] # NoRow
  BY <1>1 DEF IInv, Knows, ReaderKnows, CommitActivate, Read
<1>3. /\ user[token[t].user] # NoRow
      /\ token' = [token EXCEPT ![t] = Marked(t, "used")]
      /\ user' = [user EXCEPT ![token[t].user] = WithStatus(token[t].user, "ACTIVE")]
      /\ Committed(q, ClaimFootprint(t)) /\ UNCHANGED userRequest
  BY DEF CommitActivate, UserIn
<1> QED
  BY <1>1, <1>2, <1>3, StepClaim

LEMMA AccountRead ==
  ASSUME IInv, NEW r \in Request, Allowed(r), NEW a \in AccountsRead(r)
  PROVE  /\ a \in Account \cup {NoRow}
         /\ r.op \notin {"resend", "correct", "reverify"} => a = NoRow
         /\ ReaderKnows(r, a)
         /\ r.op = "resend" => ResenderKnows(r, a)
<1>1. CASE r.op = "resend"
  <2>1. PICK v \in WithEmail(r.email) : ResendAllowed(v)
    BY <1>1 DEF Allowed
  <2>2. v \in Users /\ user[v] # NoRow /\ user[v].email = r.email /\ user[v] \in UserRow
    BY <2>1 DEF WithEmail, IInv, RowsOK, RowsTyped
  <2>3. AccountsRead(r) = {[user |-> u, email |-> user[u].email] : u \in WithEmail(r.email)}
    BY <1>1, <2>1 DEF AccountsRead
  <2>4. PICK u \in WithEmail(r.email) : a = [user |-> u, email |-> user[u].email]
    BY <2>3
  <2>5. u = v
    BY <2>2 DEF WithEmail, IInv, RowsOK, OneAccountPerEmail
  <2>6. a = [user |-> v, email |-> r.email]
    BY <2>2, <2>4, <2>5
  <2>7. a \in Account /\ a.user = v /\ a.email = r.email
    BY <2>2, <2>6, UserFields DEF Account
  <2>8. ResenderKnows(r, a)
    BY <2>1, <2>2, <2>7 DEF ResenderKnows, ResendAllowed
  <2> QED
    BY <1>1, <2>7, <2>8 DEF ReaderKnows
<1>2. CASE r.op \in {"correct", "reverify"}
  <2>1. AccountsRead(r) = {[user |-> u, email |-> user[u].email] : u \in {r.user}}
    BY <1>2 DEF AccountsRead
  <2>2. a = [user |-> r.user, email |-> user[r.user].email]
    BY <2>1
  <2>3. r.user \in Users /\ user[r.user] # NoRow
    BY <1>2, RequestFields DEF Allowed, CorrectAllowed, UserIn
  <2>4. user[r.user].email \in Emails
    BY <2>3, UserFields DEF IInv, RowsOK, RowsTyped
  <2>5. a \in Account /\ a.email = user[r.user].email
    BY <2>2, <2>3, <2>4 DEF Account
  <2> QED
    BY <1>2, <2>3, <2>5 DEF ReaderKnows
<1>3. CASE r.op \notin {"resend", "correct", "reverify"}
  <2>1. AccountsRead(r) = {NoRow}
    BY <1>3 DEF AccountsRead
  <2>2. r.op \in {"verify", "activate"} => token[r.token] # NoRow
    BY DEF Allowed, VerifyAllowed, ActivateAllowed
  <2>3. r.op = "verify" => token[r.token].purpose = "COMMUNITY"
    BY DEF Allowed, VerifyAllowed
  <2> QED
    BY <1>3, <2>1, <2>2, <2>3 DEF ReaderKnows
<1> QED
  BY <1>1, <1>2, <1>3

LEMMA StepStart ==
  ASSUME IInv, NEW q \in Requests, NEW r \in Request, Start(q, r)
  PROVE  IInv'
<1>1. PICK a \in AccountsRead(r) :
        tx' = [tx EXCEPT ![q] =
                 Handler(IF r.op \in SerializableOps THEN "open" ELSE "read", r, a, FALSE)]
  BY DEF Start
<1>2. /\ a \in Account \cup {NoRow}
      /\ r.op \notin {"resend", "correct", "reverify"} => a = NoRow
      /\ ReaderKnows(r, a)
      /\ r.op = "resend" => ResenderKnows(r, a)
  BY AccountRead DEF Start
<1> DEFINE h == Handler(IF r.op \in SerializableOps THEN "open" ELSE "read", r, a, FALSE)
<1>3. h \in HandlerState /\ h.request = r /\ h.account = a
  <2>1. CASE r.op \in SerializableOps
    BY <1>2, <2>1, MadeHandler
  <2>2. CASE r.op \notin SerializableOps
    <3>1. a = NoRow
      BY <1>2, <2>2 DEF SerializableOps
    <3>2. h = Handler("read", r, NoRow, FALSE)
      BY <2>2, <3>1
    <3> QED
      BY <3>1, <3>2, MadeHandler DEF Handler
  <2> QED
    BY <2>1, <2>2
<1> HIDE DEF h
<1>4. UNCHANGED <<user, userRequest, token>>
  BY DEF Start
<1>5. TokensAge({}) /\ NoneIssued /\ UsersOnlySettle
  BY <1>4, TokensIdle DEF IInv, RowsOK, RowsTyped, UsersOnlySettle
<1>6. RowsOK'
  BY <1>4, <1>5, RowsAged DEF IInv
<1>7. UsersStay /\ \A u \in Users : Steady(u)
  BY <1>5, SteadyWhenAged DEF IInv
<1>8. tx' \in [Requests -> HandlerState] /\ \A p \in Requests : tx'[p] = IF p = q THEN h ELSE tx[p]
  BY <1>1, <1>3 DEF IInv, h
<1>9. ASSUME NEW p \in Requests \ {q} PROVE Knows(p)'
  <2>1. SameHandler(p)
    BY <1>7, <1>8 DEF SameHandler, Open
  <2> QED
    BY <1>5, <1>7, <2>1, SameHandlerKnows DEF IInv
<1>10. Knows(q)'
  <2>1. tx'[q].request = r /\ tx'[q].account = a
    BY <1>3, <1>8
  <2>2. ReaderKnows(r, a)'
    BY <1>2, <1>4 DEF ReaderKnows
  <2>3. ResenderKnows(r, a) => ResenderKnows(r, a)'
    BY <1>4 DEF ResenderKnows, CommunityTokens, TokensOf
  <2> QED
    BY <1>2, <2>1, <2>2, <2>3 DEF Knows, Open
<1> QED
  BY <1>6, <1>8, <1>9, <1>10 DEF IInv

-----------------------------------------------------------------------------
(* The theorems.                                                            *)

LEMMA Initially == Init => IInv
<1> SUFFICES ASSUME Init PROVE IInv
  OBVIOUS
<1>1. /\ \A u \in Users : user[u] = NoRow
      /\ \A r \in UserRequests : userRequest[r] = NoRow
      /\ \A t \in Tokens : token[t] = NoRow
      /\ \A q \in Requests : tx[q] = Idle
  BY DEF Init
<1>2. RowsTyped
  BY DEF Init, RowsTyped
<1>3. TokensHaveUsers /\ OneAccountPerEmail /\ UnusedFollowEmail /\ OneLiveLink
  BY <1>1 DEF TokensHaveUsers, OneAccountPerEmail, UnusedFollowEmail, OneLiveLink, UserIn
<1>4. RequestsAgree
  BY <1>1 DEF RequestsAgree, RequestAgrees, IssuedBy
<1>5. tx \in [Requests -> HandlerState] /\ \A q \in Requests : Knows(q)
  BY <1>1, IdleHandler DEF Init, Knows, Open
<1> QED
  BY <1>2, <1>3, <1>4, <1>5 DEF IInv, RowsOK

LEMMA Inductive == IInv /\ [Next]_vars => IInv'
<1> SUFFICES ASSUME IInv, [Next]_vars PROVE IInv'
  OBVIOUS
<1>1. ASSUME NEW q \in Requests, NEW r \in Request, Start(q, r) PROVE IInv'
  BY <1>1, StepStart
<1>2. ASSUME NEW q \in Requests,
             \/ Fail(q)
             \/ CommitSubmit(q) \/ CommitApprove(q) \/ CommitReject(q) \/ CommitActivate(q)
             \/ CommitRegister(q) \/ CommitCorrect(q) \/ CommitReverify(q)
             \/ CommitResend(q) \/ CommitVerify(q)
      PROVE  IInv'
  BY <1>2, StepFail, StepSubmit, StepApprove, StepReject, StepActivate, StepRegister,
     StepCorrect, StepReverify, StepResend, StepVerify
<1>3. ASSUME NEW t \in Tokens, Expire(t) PROVE IInv'
  BY <1>3, StepExpire
<1>4. CASE UNCHANGED vars
  <2>1. RowsOK'
    BY <1>4 DEF vars, IInv, RowsOK, RowsTyped, TokensHaveUsers, OneAccountPerEmail,
       UnusedFollowEmail, OneLiveLink, RequestsAgree, RequestAgrees, IssuedBy, UserIn, Unused,
       LiveOf, CommunityTokens, TokensOf
  <2>2. \A q \in Requests : Knows(q)'
    BY <1>4 DEF vars, IInv, Knows, ReaderKnows, ResenderKnows, Open, CommunityTokens, TokensOf
  <2> QED
    BY <1>4, <2>1, <2>2 DEF vars, IInv
<1> QED
  BY <1>1, <1>2, <1>3, <1>4 DEF Next

LEMMA Invariance == Spec => []IInv
BY Initially, Inductive, PTL DEF Spec

\* Every row and every handler keeps its type.
THEOREM TypeCorrect == Spec => []TypeOK
<1>1. IInv => TypeOK
  BY DEF IInv, RowsOK, RowsTyped, TypeOK
<1> QED
  BY <1>1, Invariance, PTL

LEMMA AtMostOne ==
  ASSUME NEW S, \A s, t \in S : s = t
  PROVE  Cardinality(S) <= 1
<1>1. CASE S = {}
  BY <1>1, FS_EmptySet
<1>2. CASE S # {}
  <2>1. PICK s : S = {s}
    BY <1>2
  <2>2. Cardinality({s}) = 1
    BY FS_Singleton
  <2> QED
    BY <2>1, <2>2
<1> QED
  BY <1>1, <1>2

\* However corrections, resends, reverifications and expiries interleave, an
\* account waiting for its verification has one link that works at most, mailed
\* to the address the account has now.
THEOREM LinksFollowTheAddress == Spec => []LiveTokenFollowsEmail
<1>1. ASSUME IInv, NEW u \in Users, UserIn(u, "PENDING", "COMMUNITY")
      PROVE  /\ Cardinality(LiveOf(u)) <= 1
             /\ \A t \in LiveOf(u) : token[t].sentTo = user[u].email
  <2>1. Cardinality(LiveOf(u)) <= 1
    BY <1>1, AtMostOne DEF IInv, RowsOK, OneLiveLink
  <2>2. LiveOf(u) \subseteq Unused(u)
    BY DEF LiveOf, Unused
  <2> QED
    BY <1>1, <2>1, <2>2 DEF IInv, RowsOK, UnusedFollowEmail
<1>2. IInv => LiveTokenFollowsEmail
  BY <1>1 DEF LiveTokenFollowsEmail
<1> QED
  BY <1>2, Invariance, PTL

\* However approvals and rejections race, a request is APPROVED exactly when
\* one account was opened for it, the account of the person who asked.
THEOREM RequestsAndAccountsAgree == Spec => []RequestAndAccountAgree
<1>1. ASSUME IInv, NEW r \in UserRequests
      PROVE  LET ts == {t \in Tokens : token[t] # NoRow /\ token[t].from = r} IN
             /\ Cardinality(ts) <= 1
             /\ ts # {} <=> userRequest[r] # NoRow /\ userRequest[r].status = "APPROVED"
             /\ \A t \in ts : user[token[t].user].identity = userRequest[r].identity
  <2> DEFINE ts == {t \in Tokens : token[t] # NoRow /\ token[t].from = r}
  <2>1. \A t : t \in ts <=> t \in Tokens /\ IssuedBy(t, r)
    BY DEF IssuedBy
  <2>2. RequestAgrees(r)
    BY <1>1 DEF IInv, RowsOK, RequestsAgree
  <2> HIDE DEF ts
  <2>3. Cardinality(ts) <= 1
    BY <2>1, <2>2, AtMostOne DEF RequestAgrees
  <2>4. ts # {} <=> userRequest[r] # NoRow /\ userRequest[r].status = "APPROVED"
    BY <2>1, <2>2 DEF RequestAgrees
  <2>5. \A t \in ts : user[token[t].user].identity = userRequest[r].identity
    BY <2>1, <2>2 DEF RequestAgrees
  <2> QED
    BY <2>3, <2>4, <2>5 DEF ts
<1>2. IInv => RequestAndAccountAgree
  BY <1>1 DEF RequestAndAccountAgree
<1> QED
  BY <1>2, Invariance, PTL

\* No step but a verification takes an account from waiting to ACTIVE.
LEMMA OnlyVerificationVerifies ==
  ASSUME IInv, Next, NEW u \in Users, Verifies(u)
  PROVE  \E q \in Requests : CommitVerify(q) /\ token[tx[q].request.token].user = u
<1>1. /\ user[u] # NoRow /\ user[u].status = "PENDING" /\ user[u].kind = "COMMUNITY"
      /\ user'[u].status = "ACTIVE" /\ user'[u] # user[u]
  BY DEF Verifies, UserIn
<1>2. user \in [Users -> UserRow \cup {NoRow}]
  BY DEF IInv, RowsOK, RowsTyped
<1>3. ASSUME UNCHANGED user PROVE FALSE
  BY <1>1, <1>3
<1>4. ASSUME NEW q \in Requests, CommitApprove(q) \/ CommitRegister(q) PROVE FALSE
  <2>1. PICK v, row : v \in Users /\ user[v] = NoRow /\ user' = [user EXCEPT ![v] = row]
    BY <1>4 DEF CommitApprove, CommitRegister, Inserts
  <2> QED
    BY <1>1, <1>2, <2>1
<1>5. ASSUME NEW q \in Requests, CommitCorrect(q) PROVE FALSE
  <2> DEFINE v == tx[q].request.user
  <2>1. user' = [user EXCEPT ![v] = Row(@.status, @.kind, tx[q].request.email, @.identity)]
    BY <1>5 DEF CommitCorrect
  <2>2. user'[u] = user[u] \/ user'[u].status = user[u].status
    BY <1>2, <2>1 DEF Row
  <2> QED
    BY <1>1, <2>2
<1>6. ASSUME NEW q \in Requests, CommitReverify(q) PROVE FALSE
  <2> DEFINE v == tx[q].request.user
  <2>1. user' = [user EXCEPT ![v] = WithStatus(v, "PENDING")]
    BY <1>6 DEF CommitReverify
  <2>2. user'[u] = user[u] \/ user'[u].status = "PENDING"
    BY <1>2, <2>1 DEF WithStatus, Row
  <2> QED
    BY <1>1, <2>2
<1>7. ASSUME NEW q \in Requests, CommitActivate(q) PROVE FALSE
  <2> DEFINE v == token[tx[q].request.token].user
  <2>1. user' = [user EXCEPT ![v] = WithStatus(v, "ACTIVE")] /\ user[v].kind = "STAFF"
    BY <1>7 DEF CommitActivate, UserIn
  <2>2. u # v
    BY <1>1, <2>1
  <2> QED
    BY <1>1, <1>2, <2>1, <2>2
<1>8. ASSUME NEW q \in Requests, CommitVerify(q)
      PROVE  token[tx[q].request.token].user = u
  <2> DEFINE v == token[tx[q].request.token].user
  <2>1. user' = [user EXCEPT ![v] = WithStatus(v, "ACTIVE")]
    BY <1>8 DEF CommitVerify
  <2> QED
    BY <1>1, <1>2, <2>1
<1> QED
  BY <1>3, <1>4, <1>5, <1>6, <1>7, <1>8
     DEF Next, Start, Fail, CommitSubmit, CommitReject, CommitResend, Expire

\* A verification that checked its link before the address was corrected, or
\* before the link expired, claims a link mailed to the account's own address.
THEOREM OwnAddressVerifies == Spec => VerifiedAtItsAddress
<1> DEFINE Own ==
      \A u \in Users :
        Verifies(u) =>
          \E t \in CommunityTokens(u) :
            /\ token[t].state # "used" /\ token'[t].state = "used"
            /\ token[t].sentTo = user[u].email
<1>1. ASSUME IInv, Next, NEW u \in Users, Verifies(u)
      PROVE  \E t \in CommunityTokens(u) :
               /\ token[t].state # "used" /\ token'[t].state = "used"
               /\ token[t].sentTo = user[u].email
  <2>1. PICK q \in Requests : CommitVerify(q) /\ token[tx[q].request.token].user = u
    BY <1>1, OnlyVerificationVerifies
  <2> DEFINE t == tx[q].request.token
  <2>2. t \in Tokens /\ tx[q].request.op = "verify"
    BY <1>1, <2>1, HandlerFields, RequestFields DEF IInv, CommitVerify, Read
  <2>3. token[t] # NoRow /\ token[t].purpose = "COMMUNITY" /\ token[t].user = u
    BY <1>1, <2>1, <2>2 DEF IInv, Knows, ReaderKnows, CommitVerify, Read
  <2>4. token[t].state # "used" /\ token' = [token EXCEPT ![t] = Marked(t, "used")]
    BY <2>1 DEF CommitVerify, ClaimUnused
  <2>5. token'[t].state = "used"
    BY <1>1, <2>2, <2>4 DEF IInv, RowsOK, RowsTyped, Marked
  <2>6. t \in CommunityTokens(u) /\ t \in Unused(u)
    BY <2>2, <2>3, <2>4 DEF Unused, CommunityTokens, TokensOf
  <2>7. token[t].sentTo = user[u].email
    BY <1>1, <2>6 DEF Verifies, IInv, RowsOK, UnusedFollowEmail
  <2> QED
    BY <2>4, <2>5, <2>6, <2>7
<1>2. ASSUME UNCHANGED vars, NEW u \in Users, Verifies(u) PROVE FALSE
  BY <1>2 DEF vars, Verifies, UserIn
<1>3. IInv /\ [Next]_vars => Own
  BY <1>1, <1>2
<1>4. Spec => [][Own]_vars
  BY <1>3, Invariance, PTL DEF Spec
<1> QED
  BY <1>4 DEF VerifiedAtItsAddress

\* A resend that commits still counts the links there are: any other that
\* issued one since conflicts with it.
THEOREM ResendsStayLimited == Spec => ResendsAreLimited
<1> DEFINE Limited ==
      \A q \in Requests :
        CommitResend(q) =>
          Cardinality(CommunityTokens(tx[q].account.user)) < ResendLimit
<1>1. IInv => Limited
  BY DEF IInv, Knows, ResenderKnows, CommitResend
<1>2. Spec => [][Limited]_vars
  BY <1>1, Invariance, PTL
<1> QED
  BY <1>2 DEF ResendsAreLimited
=============================================================================
