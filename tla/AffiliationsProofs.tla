-------------------------- MODULE AffiliationsProofs --------------------------
(* One standing per person, and affiliates from approved requests, for any  *)
(* number of handlers, people, addresses and requests.                      *)
EXTENDS Affiliations, TLAPS

\* What a transaction decided on, e-mails aside: an update may take one under
\* a transaction that looked for it, and then the unique index refuses.
StillAllowed(a) ==
  \/ a.op = "create" /\ CreateAllowed(a)
  \/ a.op = "approve" /\ Pending(a.id) /\ affiliate[request[a.id].person] = NoRow
  \/ a.op = "reject" /\ Pending(a.id)

\* A transaction nothing has doomed would decide the same now.
UndoomedAreCurrent ==
  \A q \in Requests, a \in Asked :
    tx[q].phase = "open" /\ ~ tx[q].doomed /\ tx[q].asked = a => StillAllowed(a)

UpdatesAffiliate(a) == a.op = "update" /\ affiliate[a.person] # NoRow

ReadersUpdate ==
  \A q \in Requests, a \in Asked :
    tx[q].phase = "read" /\ tx[q].asked = a => UpdatesAffiliate(a)

RowsOK ==
  /\ request \in [RequestIds -> RequestRow \cup {NoRow}]
  /\ affiliate \in [Persons -> AffiliateRow \cup {NoRow}]
  /\ OneStanding
  /\ ApprovedIsAffiliate

IInv == TypeOK /\ OneStanding /\ ApprovedIsAffiliate /\ UndoomedAreCurrent /\ ReadersUpdate

-----------------------------------------------------------------------------
(* The shapes of the records.                                               *)

LEMMA HandlerFields ==
  ASSUME NEW h \in HandlerState
  PROVE  /\ h.phase \in {"idle", "waiting", "open", "read"}
         /\ h = Idle <=> h.phase = "idle"
         /\ h.phase # "idle" => h.asked \in Asked /\ h.attempt \in 1 .. MaxAttempts
         /\ h.phase = "waiting" => h.asked \in Submissions
<1>1. 1 \in 1 .. MaxAttempts
  BY AttemptsAssumption
<1>2. Idle.phase = "idle"
  BY DEF Idle, Handler
<1>3. CASE h = Idle
  BY <1>2, <1>3
<1>4. CASE h \in [phase : {"waiting"}, asked : Submissions, attempt : 1 .. MaxAttempts, doomed : {FALSE}]
  <2>1. h.phase = "waiting" /\ h.asked \in Submissions /\ h.attempt \in 1 .. MaxAttempts
    BY <1>4
  <2> QED
    BY <1>2, <2>1 DEF Asked
<1>5. CASE h \in [phase : {"open"}, asked : Asked, attempt : 1 .. MaxAttempts, doomed : BOOLEAN]
  <2>1. h.phase = "open" /\ h.asked \in Asked /\ h.attempt \in 1 .. MaxAttempts
    BY <1>5
  <2> QED
    BY <1>2, <2>1
<1>6. CASE h \in [phase : {"read"}, asked : Asked, attempt : {1}, doomed : {FALSE}]
  <2>1. h.phase = "read" /\ h.asked \in Asked /\ h.attempt = 1
    BY <1>6
  <2> QED
    BY <1>1, <1>2, <2>1
<1> QED
  BY <1>3, <1>4, <1>5, <1>6 DEF HandlerState

LEMMA IdleHandler == Idle \in HandlerState /\ Idle.phase = "idle"
BY DEF HandlerState, Idle, Handler

LEMMA AskedFields ==
  ASSUME NEW a \in Asked
  PROVE  /\ a.op = "create" => a.person \in Persons /\ a.email \in Emails
         /\ a.op \in {"approve", "reject"} => a.id \in RequestIds
         /\ a.op = "update" => a.person \in Persons /\ a.to \in AffiliateRow
BY DEF Asked, Submissions

LEMMA SubmissionFields ==
  ASSUME NEW a \in Asked
  PROVE  a \in Submissions <=> a.op = "create"
BY DEF Asked, Submissions

LEMMA RowFields ==
  /\ \A r \in RequestRow : /\ r # NoRow /\ r.person \in Persons /\ r.email \in Emails
                           /\ r.status \in {"PENDING", "APPROVED", "REJECTED"}
  /\ \A r \in AffiliateRow : r # NoRow
BY AffiliationsAssumption DEF RequestRow, AffiliateRow

LEMMA OpenHandlers ==
  ASSUME NEW a \in Asked, NEW n \in 1 .. MaxAttempts
  PROVE  /\ Handler("open", a, n, TRUE) \in HandlerState
         /\ Handler("open", a, n, FALSE) \in HandlerState
         /\ a \in Submissions => Handler("waiting", a, n, FALSE) \in HandlerState
BY DEF HandlerState, Handler

LEMMA FirstHandlers ==
  ASSUME NEW a \in Asked
  PROVE  /\ Handler("open", a, 1, FALSE) \in HandlerState
         /\ Handler("read", a, 1, FALSE) \in HandlerState
<1>1. 1 \in 1 .. MaxAttempts
  BY AttemptsAssumption
<1> QED
  BY <1>1 DEF HandlerState, Handler

-----------------------------------------------------------------------------
(* Steps that write no row, and commits.                                    *)

SameAffiliates ==
  /\ affiliate' \in [Persons -> AffiliateRow \cup {NoRow}]
  /\ \A p \in Persons : affiliate'[p] = NoRow <=> affiliate[p] = NoRow

LEMMA StillAllowedKept ==
  ASSUME IInv, request' = request, SameAffiliates, NEW a \in Asked
  PROVE  /\ StillAllowed(a) => StillAllowed(a)'
         /\ UpdatesAffiliate(a) => UpdatesAffiliate(a)'
<1>1. CASE a.op = "create"
  <2>1. a.person \in Persons
    BY <1>1, AskedFields
  <2>2. PendingOf(a.person)' = PendingOf(a.person)
    BY DEF PendingOf, Pending
  <2> QED
    BY <1>1, <2>1, <2>2 DEF StillAllowed, CreateAllowed, SameAffiliates, UpdatesAffiliate
<1>2. CASE a.op \in {"approve", "reject"}
  <2>1. ASSUME Pending(a.id) PROVE request[a.id].person \in Persons /\ Pending(a.id)'
    BY <1>2, <2>1, AskedFields, RowFields DEF IInv, TypeOK, Pending
  <2> QED
    BY <1>2, <2>1 DEF StillAllowed, SameAffiliates, UpdatesAffiliate
<1>3. CASE a.op = "update"
  BY <1>3, AskedFields DEF StillAllowed, SameAffiliates, UpdatesAffiliate
<1> QED
  BY <1>1, <1>2, <1>3 DEF Asked, Submissions

LEMMA QuietStep ==
  ASSUME IInv, request' = request, SameAffiliates,
         NEW q \in Requests, NEW h \in HandlerState, tx' = [tx EXCEPT ![q] = h],
         h.phase = "open" /\ ~ h.doomed => StillAllowed(h.asked),
         h.phase = "read" => UpdatesAffiliate(h.asked)
  PROVE  IInv'
<1>1. tx \in [Requests -> HandlerState]
  BY DEF IInv, TypeOK
<1>2. tx' \in [Requests -> HandlerState]
  BY <1>1
<1>3. \A p \in Requests : tx'[p] = IF p = q THEN h ELSE tx[p]
  BY <1>1
<1>6. UndoomedAreCurrent'
  BY <1>3, StillAllowedKept DEF IInv, UndoomedAreCurrent
<1>7. ReadersUpdate'
  BY <1>3, StillAllowedKept DEF IInv, ReadersUpdate
<1>4. \A p \in Persons : PendingOf(p)' = PendingOf(p) /\ ApprovedOf(p)' = ApprovedOf(p)
  BY DEF PendingOf, Pending, ApprovedOf
<1>8. OneStanding' /\ ApprovedIsAffiliate'
  BY <1>4 DEF IInv, OneStanding, ApprovedIsAffiliate, SameAffiliates
<1> QED
  BY <1>2, <1>6, <1>7, <1>8 DEF IInv, TypeOK, SameAffiliates

\* What no conflict keeps apart from q's commit, the commit leaves allowed.
Spares(q) ==
  \A b \in Asked : StillAllowed(b) /\ ~ Conflict(Footprint(b), Footprint(tx[q].asked))
                      => StillAllowed(b)'

Keeps == \A p \in Persons : affiliate[p] # NoRow => affiliate'[p] # NoRow

LEMMA CommitStep ==
  ASSUME IInv, NEW q \in Requests, Committed(q), RowsOK', Keeps, Spares(q)
  PROVE  IInv'
<1>1. tx \in [Requests -> HandlerState]
  BY DEF IInv, TypeOK
<1>2. ASSUME NEW p \in Requests
      PROVE  /\ tx'[p] \in HandlerState
             /\ \A a \in Asked :
                  /\ tx'[p].phase = "open" /\ ~ tx'[p].doomed /\ tx'[p].asked = a
                       => StillAllowed(a)'
                  /\ tx'[p].phase = "read" /\ tx'[p].asked = a => UpdatesAffiliate(a)'
  <2> DEFINE conflicts == Conflict(Footprint(tx[p].asked), Footprint(tx[q].asked))
  <2>0. tx'[p] = IF p = q THEN Idle
                 ELSE IF tx[p].phase = "open" /\ conflicts
                      THEN Handler("open", tx[p].asked, tx[p].attempt, TRUE)
                      ELSE tx[p]
    BY DEF Committed
  <2>1. CASE p = q
    <3>1. tx'[p] = Idle
      BY <2>0, <2>1
    <3>2. tx'[p] \in HandlerState /\ tx'[p].phase = "idle"
      BY <3>1, IdleHandler
    <3> QED
      BY <3>2
  <2>2. CASE p # q /\ tx[p].phase = "open" /\ conflicts
    <3>1. tx'[p] = Handler("open", tx[p].asked, tx[p].attempt, TRUE)
      BY <2>0, <2>2
    <3>0. tx[p] \in HandlerState /\ tx[p].phase # "idle"
      BY <1>1, <2>2
    <3>4. tx[p].asked \in Asked /\ tx[p].attempt \in 1 .. MaxAttempts
      BY <3>0, HandlerFields
    <3>2. tx'[p] \in HandlerState
      BY <3>1, <3>4, OpenHandlers
    <3>3. tx'[p].doomed = TRUE /\ tx'[p].phase = "open"
      BY <3>1 DEF Handler
    <3> QED
      BY <3>2, <3>3
  <2>3. CASE p # q /\ ~ (tx[p].phase = "open" /\ conflicts)
    <3>1. tx'[p] = tx[p]
      BY <2>0, <2>3
    <3>2. ASSUME NEW a \in Asked, tx[p].phase = "open", ~ tx[p].doomed, tx[p].asked = a
          PROVE  StillAllowed(a)'
      <4>1. StillAllowed(a)
        BY <3>2 DEF IInv, UndoomedAreCurrent
      <4>2. ~ Conflict(Footprint(a), Footprint(tx[q].asked))
        BY <2>3, <3>2
      <4> QED
        BY <4>1, <4>2 DEF Spares
    <3>3. ASSUME NEW a \in Asked, tx[p].phase = "read", tx[p].asked = a
          PROVE  UpdatesAffiliate(a)'
      <4>1. UpdatesAffiliate(a)
        BY <3>3 DEF IInv, ReadersUpdate
      <4>2. affiliate'[a.person] # NoRow
        BY <4>1, AskedFields DEF UpdatesAffiliate, Keeps
      <4> QED
        BY <4>1, <4>2 DEF UpdatesAffiliate
    <3> QED
      BY <1>1, <3>1, <3>2, <3>3
  <2> QED
    BY <2>1, <2>2, <2>3
<1>3. tx' \in [Requests -> HandlerState]
  BY <1>2 DEF Committed
<1>4. UndoomedAreCurrent' /\ ReadersUpdate'
  BY <1>2 DEF UndoomedAreCurrent, ReadersUpdate
<1> QED
  BY <1>3, <1>4 DEF IInv, RowsOK, TypeOK

-----------------------------------------------------------------------------
(* The commits, one by one.                                                 *)

LEMMA CreateCommits ==
  ASSUME IInv, NEW q \in Requests, CommitCreate(q)
  PROVE  IInv'
<1> DEFINE a == tx[q].asked
<1>1. a \in Asked /\ a.op = "create"
  BY HandlerFields DEF CommitCreate, Open, IInv, TypeOK
<1>2. a.person \in Persons /\ a.email \in Emails
  BY <1>1, AskedFields
<1>3. CreateAllowed(a)
  <2>1. StillAllowed(a)
    BY <1>1 DEF CommitCreate, Open, IInv, UndoomedAreCurrent
  <2> QED
    BY <1>1, <2>1 DEF StillAllowed
<1> DEFINE new == [person |-> a.person, email |-> a.email, status |-> "PENDING"]
<1>4. PICK id \in RequestIds :
        request[id] = NoRow /\ request' = [request EXCEPT ![id] = new]
  BY DEF CommitCreate
<1>5. new \in RequestRow /\ new # NoRow /\ new.person = a.person /\ new.status = "PENDING"
  BY <1>2, RowFields DEF RequestRow
<1> HIDE DEF new
<1>6. request \in [RequestIds -> RequestRow \cup {NoRow}]
  BY DEF IInv, TypeOK
<1>7. request' \in [RequestIds -> RequestRow \cup {NoRow}] /\ affiliate' = affiliate
  BY <1>4, <1>5, <1>6 DEF CommitCreate
<1>8. \A x \in RequestIds : request'[x] = IF x = id THEN new ELSE request[x]
  BY <1>4, <1>6
<1>9. \A p \in Persons : PendingOf(p)' = IF p = a.person THEN {id} ELSE PendingOf(p)
  <2>1. TAKE p \in Persons
  <2>2. \A x \in RequestIds : x \in PendingOf(p)' <=>
          IF x = id THEN p = a.person ELSE x \in PendingOf(p)
    BY <1>5, <1>8 DEF PendingOf, Pending
  <2>3. id \notin PendingOf(p)
    BY <1>4 DEF PendingOf, Pending
  <2>4. p = a.person => PendingOf(p) = {}
    BY <1>3 DEF CreateAllowed
  <2>5. PendingOf(p) \subseteq RequestIds /\ PendingOf(p)' \subseteq RequestIds
    BY DEF PendingOf
  <2> QED
    BY <2>2, <2>3, <2>4, <2>5
<1>10. \A p \in Persons : ApprovedOf(p)' = ApprovedOf(p)
  BY <1>4, <1>5, <1>8 DEF ApprovedOf
<1>11. OneStanding' /\ ApprovedIsAffiliate'
  BY <1>3, <1>7, <1>9, <1>10 DEF IInv, OneStanding, ApprovedIsAffiliate, CreateAllowed
<1>12. ASSUME NEW b \in Asked, StillAllowed(b), ~ Conflict(Footprint(b), Footprint(a))
       PROVE  StillAllowed(b)'
  <2>1. CASE b.op = "create"
    <3>1. b.person # a.person
      <4>1. SUFFICES ASSUME b.person = a.person PROVE FALSE
        OBVIOUS
      <4>2. Footprint(b) = CreateFootprint(b) /\ Footprint(a) = CreateFootprint(a)
        BY <1>1, <2>1 DEF Footprint
      <4>3. <<"requests", a.person>> \in Footprint(b).reads \cap Writes(Footprint(a))
        BY <4>1, <4>2 DEF Writes, CreateFootprint
      <4>4. <<"requests", a.person>> \in Footprint(a).reads \cap Writes(Footprint(b))
        BY <4>1, <4>2 DEF Writes, CreateFootprint
      <4> QED
        BY <1>12, <4>3, <4>4 DEF Conflict
    <3> QED
      BY <1>7, <1>9, <1>12, <2>1, <3>1, AskedFields DEF StillAllowed, CreateAllowed
  <2>2. CASE b.op \in {"approve", "reject"}
    <3>1. Pending(b.id) /\ b.id # id /\ b.id \in RequestIds
      BY <1>4, <1>12, <2>2, AskedFields DEF StillAllowed, Pending
    <3>2. request'[b.id] = request[b.id]
      BY <1>8, <3>1
    <3>3. Pending(b.id)'
      BY <3>1, <3>2 DEF Pending
    <3>4. b.op = "approve" => affiliate'[request'[b.id].person] = NoRow
      BY <1>7, <1>12, <3>2 DEF StillAllowed
    <3> QED
      BY <2>2, <3>3, <3>4 DEF StillAllowed
  <2> QED
    BY <1>12, <2>1, <2>2 DEF StillAllowed
<1>13. Committed(q)
  BY DEF CommitCreate
<1>14. RowsOK'
  BY <1>7, <1>11 DEF RowsOK, IInv, TypeOK
<1>15. Keeps
  BY <1>7 DEF Keeps
<1>16. Spares(q)
  BY <1>12 DEF Spares
<1> QED
  BY <1>13, <1>14, <1>15, <1>16, CommitStep

\* What the decision of a pending request changes.
LEMMA DecidedRow ==
  ASSUME IInv, NEW id \in RequestIds, Pending(id),
         NEW status \in {"APPROVED", "REJECTED"}, Decided(id, status)
  PROVE  /\ request' \in [RequestIds -> RequestRow \cup {NoRow}]
         /\ \A x \in RequestIds : x # id => request'[x] = request[x]
         /\ \A p \in Persons : PendingOf(p)' = PendingOf(p) \ {id}
         /\ \A p \in Persons :
              ApprovedOf(p)' = IF status = "APPROVED" /\ p = request[id].person
                               THEN ApprovedOf(p) \cup {id} ELSE ApprovedOf(p)
<1> DEFINE row == [person |-> request[id].person, email |-> request[id].email,
                   status |-> status]
<1>1. request \in [RequestIds -> RequestRow \cup {NoRow}]
  BY DEF IInv, TypeOK
<1>2. request' = [request EXCEPT ![id] = row]
  BY DEF Decided
<1>3. request[id] \in RequestRow /\ request[id].status = "PENDING"
  BY <1>1 DEF Pending
<1>4. /\ row \in RequestRow /\ row # NoRow
      /\ row.person = request[id].person /\ row.status = status
  BY <1>3, RowFields DEF RequestRow
<1> HIDE DEF row
<1>5. \A x \in RequestIds : request'[x] = IF x = id THEN row ELSE request[x]
  BY <1>1, <1>2
<1>6. request' \in [RequestIds -> RequestRow \cup {NoRow}]
  BY <1>1, <1>2, <1>4
<1>7. ASSUME NEW p \in Persons PROVE PendingOf(p)' = PendingOf(p) \ {id}
  <2>1. \A x \in RequestIds :
          Pending(x)' /\ request'[x].person = p
            <=> Pending(x) /\ request[x].person = p /\ x # id
    BY <1>4, <1>5 DEF Pending
  <2> QED
    BY <2>1 DEF PendingOf
<1>8. ASSUME NEW p \in Persons
      PROVE  ApprovedOf(p)' = IF status = "APPROVED" /\ p = request[id].person
                              THEN ApprovedOf(p) \cup {id} ELSE ApprovedOf(p)
  <2>1. \A x \in RequestIds : x \in ApprovedOf(p)' <=>
          IF x = id THEN status = "APPROVED" /\ p = request[id].person
          ELSE x \in ApprovedOf(p)
    BY <1>4, <1>5 DEF ApprovedOf
  <2>2. id \notin ApprovedOf(p)
    BY <1>3 DEF ApprovedOf
  <2>3. ApprovedOf(p) \subseteq RequestIds /\ ApprovedOf(p)' \subseteq RequestIds
    BY DEF ApprovedOf
  <2> QED
    BY <2>1, <2>2, <2>3
<1> QED
  BY <1>5, <1>6, <1>7, <1>8

\* Two transactions that decide the same request conflict.
LEMMA SameRequestConflicts ==
  ASSUME NEW a \in Asked, NEW b \in Asked, a.op \in {"approve", "reject"},
         b.op \in {"approve", "reject"}, a.id = b.id
  PROVE  Conflict(Footprint(b), Footprint(a))
<1>1. \A c \in {a, b} : c.id \in Footprint(c).rows
  BY DEF Footprint, ApproveFootprint, RejectFootprint
<1> QED
  BY <1>1 DEF Conflict

LEMMA ApproveCommits ==
  ASSUME IInv, NEW q \in Requests, CommitApprove(q)
  PROVE  IInv'
<1> DEFINE a == tx[q].asked
           id == a.id
           p  == request[id].person
<1>1. a \in Asked /\ a.op = "approve"
  BY HandlerFields DEF CommitApprove, Open, IInv, TypeOK
<1>2. id \in RequestIds
  BY <1>1, AskedFields
<1>3. Pending(id) /\ affiliate[p] = NoRow
  <2>1. StillAllowed(a)
    BY <1>1 DEF CommitApprove, Open, IInv, UndoomedAreCurrent
  <2> QED
    BY <1>1, <2>1 DEF StillAllowed
<1>4. request[id] \in RequestRow
  BY <1>2, <1>3 DEF IInv, TypeOK, Pending
<1>5. p \in Persons /\ RowOf(id) \in AffiliateRow /\ RowOf(id) # NoRow
  BY <1>4, RowFields DEF RowOf, AffiliateRow
<1>6. Decided(id, "APPROVED") /\ affiliate' = [affiliate EXCEPT ![p] = RowOf(id)]
  BY DEF CommitApprove
<1>7. Committed(q)
  BY DEF CommitApprove
<1> HIDE DEF a, id, p
<1>8. affiliate \in [Persons -> AffiliateRow \cup {NoRow}]
  BY DEF IInv, TypeOK
<1>9. /\ affiliate' \in [Persons -> AffiliateRow \cup {NoRow}]
      /\ affiliate'[p] # NoRow
      /\ \A x \in Persons : x # p => affiliate'[x] = affiliate[x]
  BY <1>5, <1>6, <1>8
<1>10. Keeps
  BY <1>9 DEF Keeps
<1>11. PendingOf(p) = {id} /\ ApprovedOf(p) = {}
  <2>1. id \in PendingOf(p)
    BY <1>2, <1>3 DEF PendingOf, p
  <2> QED
    BY <1>3, <1>5, <2>1 DEF IInv, OneStanding, ApprovedIsAffiliate
<1>12. \A x \in Persons : x # p => id \notin PendingOf(x)
  BY DEF PendingOf, p
<1>13. /\ request' \in [RequestIds -> RequestRow \cup {NoRow}]
       /\ \A x \in RequestIds : x # id => request'[x] = request[x]
       /\ \A x \in Persons : PendingOf(x)' = PendingOf(x) \ {id}
       /\ \A x \in Persons :
            ApprovedOf(x)' = IF x = p THEN ApprovedOf(x) \cup {id} ELSE ApprovedOf(x)
  BY <1>2, <1>3, <1>6, DecidedRow DEF p
<1>14. OneStanding'
  <2>1. ASSUME NEW x \in Persons
        PROVE  /\ \A c, d \in PendingOf(x)' : c = d
               /\ affiliate'[x] # NoRow => PendingOf(x)' = {}
    <3>1. CASE x = p
      BY <1>5, <1>11, <1>13, <3>1
    <3>2. CASE x # p
      BY <1>9, <1>13, <3>2 DEF IInv, OneStanding
    <3> QED
      BY <3>1, <3>2
  <2> QED
    BY <2>1 DEF OneStanding
<1>15. ApprovedIsAffiliate'
  <2>1. ASSUME NEW x \in Persons
        PROVE  /\ ApprovedOf(x)' # {} <=> affiliate'[x] # NoRow
               /\ \A c, d \in ApprovedOf(x)' : c = d
    <3>1. CASE x = p
      BY <1>5, <1>9, <1>11, <1>13, <3>1
    <3>2. CASE x # p
      BY <1>9, <1>13, <3>2 DEF IInv, ApprovedIsAffiliate
    <3> QED
      BY <3>1, <3>2
  <2> QED
    BY <2>1 DEF ApprovedIsAffiliate
<1>16. RowsOK'
  BY <1>9, <1>13, <1>14, <1>15 DEF RowsOK
<1>17. ASSUME NEW b \in Asked, StillAllowed(b), ~ Conflict(Footprint(b), Footprint(a))
       PROVE  StillAllowed(b)'
  <2>1. CASE b.op = "create"
    <3>1. b.person \in Persons /\ PendingOf(b.person) = {} /\ affiliate[b.person] = NoRow
      BY <1>17, <2>1, AskedFields DEF StillAllowed, CreateAllowed
    <3>2. b.person # p
      BY <1>11, <3>1
    <3>3. affiliate'[b.person] = NoRow /\ PendingOf(b.person)' = {}
      BY <1>9, <1>13, <3>1, <3>2
    <3> QED
      BY <2>1, <3>3 DEF StillAllowed, CreateAllowed
  <2>2. CASE b.op \in {"approve", "reject"}
    <3>1. b.id \in RequestIds /\ Pending(b.id)
      BY <1>17, <2>2, AskedFields DEF StillAllowed
    <3>2. b.id # id
      BY <1>1, <1>17, <2>2, SameRequestConflicts DEF id
    <3>3. request'[b.id] = request[b.id] /\ request[b.id].person \in Persons
      BY <1>13, <3>1, <3>2, RowFields DEF Pending, IInv, TypeOK
    <3>4. request[b.id].person # p
      BY <1>11, <3>1, <3>2 DEF PendingOf
    <3>5. Pending(b.id)'
      BY <3>1, <3>3 DEF Pending
    <3>6. b.op = "approve" => affiliate'[request'[b.id].person] = NoRow
      BY <1>9, <1>17, <3>3, <3>4 DEF StillAllowed
    <3> QED
      BY <2>2, <3>5, <3>6 DEF StillAllowed
  <2> QED
    BY <1>17, <2>1, <2>2 DEF StillAllowed
<1>18. Spares(q)
  BY <1>17 DEF Spares, a
<1> QED
  BY <1>7, <1>10, <1>16, <1>18, CommitStep

LEMMA RejectCommits ==
  ASSUME IInv, NEW q \in Requests, CommitReject(q)
  PROVE  IInv'
<1> DEFINE a == tx[q].asked
           id == a.id
<1>1. a \in Asked /\ a.op = "reject"
  BY HandlerFields DEF CommitReject, Open, IInv, TypeOK
<1>2. id \in RequestIds
  BY <1>1, AskedFields
<1>3. Pending(id)
  <2>1. StillAllowed(a)
    BY <1>1 DEF CommitReject, Open, IInv, UndoomedAreCurrent
  <2> QED
    BY <1>1, <2>1 DEF StillAllowed
<1>4. Decided(id, "REJECTED") /\ affiliate' = affiliate /\ Committed(q)
  BY DEF CommitReject
<1> HIDE DEF a, id
<1>5. /\ request' \in [RequestIds -> RequestRow \cup {NoRow}]
      /\ \A x \in RequestIds : x # id => request'[x] = request[x]
      /\ \A x \in Persons : PendingOf(x)' = PendingOf(x) \ {id}
      /\ \A x \in Persons : ApprovedOf(x)' = ApprovedOf(x)
  BY <1>2, <1>3, <1>4, DecidedRow
<1>6. RowsOK'
  BY <1>4, <1>5 DEF RowsOK, IInv, TypeOK, OneStanding, ApprovedIsAffiliate
<1>7. ASSUME NEW b \in Asked, StillAllowed(b), ~ Conflict(Footprint(b), Footprint(a))
      PROVE  StillAllowed(b)'
  <2>1. CASE b.op = "create"
    BY <1>4, <1>5, <1>7, <2>1, AskedFields DEF StillAllowed, CreateAllowed
  <2>2. CASE b.op \in {"approve", "reject"}
    <3>1. b.id \in RequestIds /\ Pending(b.id)
      BY <1>7, <2>2, AskedFields DEF StillAllowed
    <3>2. b.id # id
      BY <1>1, <1>7, <2>2, SameRequestConflicts DEF id
    <3>3. request'[b.id] = request[b.id]
      BY <1>5, <3>1, <3>2
    <3>4. Pending(b.id)'
      BY <3>1, <3>3 DEF Pending
    <3> QED
      BY <1>4, <1>7, <2>2, <3>3, <3>4 DEF StillAllowed
  <2> QED
    BY <1>7, <2>1, <2>2 DEF StillAllowed
<1>8. Spares(q)
  BY <1>7 DEF Spares, a
<1>9. Keeps
  BY <1>4 DEF Keeps
<1> QED
  BY <1>4, <1>6, <1>8, <1>9, CommitStep

LEMMA UpdateCommits ==
  ASSUME IInv, NEW q \in Requests, CommitUpdate(q)
  PROVE  IInv'
<1> DEFINE a == tx[q].asked
<1>1. a \in Asked
  BY HandlerFields DEF CommitUpdate, IInv, TypeOK
<1>2. a.op = "update" /\ affiliate[a.person] # NoRow
  BY <1>1 DEF CommitUpdate, IInv, ReadersUpdate, UpdatesAffiliate
<1>3. a.person \in Persons /\ a.to \in AffiliateRow /\ a.to # NoRow
  BY <1>1, <1>2, AskedFields, RowFields
<1>4. affiliate' = [affiliate EXCEPT ![a.person] = a.to]
  BY DEF CommitUpdate
<1>5. tx' = [tx EXCEPT ![q] = Idle] /\ request' = request
  BY DEF CommitUpdate
<1> HIDE DEF a
<1>6. SameAffiliates
  BY <1>2, <1>3, <1>4 DEF SameAffiliates, IInv, TypeOK
<1> QED
  BY <1>5, <1>6, IdleHandler, QuietStep

-----------------------------------------------------------------------------
(* The steps that write no row.                                             *)

LEMMA Unwritten == ASSUME IInv, UNCHANGED <<request, affiliate>>
                   PROVE  request' = request /\ SameAffiliates
BY DEF SameAffiliates, IInv, TypeOK

LEMMA AllowedIsStill ==
  ASSUME NEW a \in Asked, Allowed(a)
  PROVE  /\ a.op # "update" => StillAllowed(a)
         /\ a.op = "update" => UpdatesAffiliate(a)
BY DEF Allowed, StillAllowed, ApproveAllowed, RejectAllowed, UpdateAllowed, UpdatesAffiliate

LEMMA StartStep ==
  ASSUME IInv, NEW q \in Requests, NEW a \in Asked, Start(q, a)
  PROVE  IInv'
<1> DEFINE h == Handler(IF a.op = "update" THEN "read" ELSE "open", a, 1, FALSE)
<1>1. tx' = [tx EXCEPT ![q] = h] /\ UNCHANGED <<request, affiliate>> /\ Allowed(a)
  BY DEF Start
<1>2. h \in HandlerState
  <2>1. CASE a.op = "update"
    BY <2>1, FirstHandlers
  <2>2. CASE a.op # "update"
    BY <2>2, FirstHandlers
  <2> QED
    BY <2>1, <2>2
<1>3. h.asked = a /\ h.phase = IF a.op = "update" THEN "read" ELSE "open"
  BY DEF Handler
<1> HIDE DEF h
<1>4. h.phase = "open" /\ ~ h.doomed => StillAllowed(h.asked)
  BY <1>1, <1>3, AllowedIsStill
<1>5. h.phase = "read" => UpdatesAffiliate(h.asked)
  BY <1>1, <1>3, AllowedIsStill
<1> QED
  BY <1>1, <1>2, <1>4, <1>5, Unwritten, QuietStep

LEMMA SerializationFailureStep ==
  ASSUME IInv, NEW q \in Requests, SerializationFailure(q)
  PROVE  IInv'
<1> DEFINE h == Handler("waiting", tx[q].asked, tx[q].attempt + 1, FALSE)
<1>1. tx \in [Requests -> HandlerState]
  BY DEF IInv, TypeOK
<1>2. tx[q] \in HandlerState /\ tx[q].phase # "idle" /\ tx[q].attempt < MaxAttempts
  BY <1>1 DEF SerializationFailure
<1>3. tx[q].asked \in Asked /\ tx[q].attempt \in 1 .. MaxAttempts
  BY <1>2, HandlerFields
<1>4. tx[q].attempt + 1 \in 1 .. MaxAttempts
  BY <1>2, <1>3, AttemptsAssumption
<1>5. h \in HandlerState
  <2>1. tx[q].asked \in Submissions
    BY <1>3, SubmissionFields DEF SerializationFailure
  <2> QED
    BY <1>3, <1>4, <2>1, OpenHandlers
<1>6. tx' = [tx EXCEPT ![q] = h] /\ UNCHANGED <<request, affiliate>>
  BY <1>1 DEF SerializationFailure
<1>7. h.phase = "waiting"
  BY DEF Handler
<1> HIDE DEF h
<1> QED
  BY <1>5, <1>6, <1>7, Unwritten, QuietStep

LEMMA RestartStep ==
  ASSUME IInv, NEW q \in Requests, Restart(q)
  PROVE  IInv'
<1> DEFINE a == tx[q].asked
           h == Handler("open", a, tx[q].attempt, FALSE)
<1>1. tx \in [Requests -> HandlerState]
  BY DEF IInv, TypeOK
<1>2. tx[q] \in HandlerState /\ tx[q].phase = "waiting"
  BY <1>1 DEF Restart
<1>3. a \in Asked /\ tx[q].attempt \in 1 .. MaxAttempts
  BY <1>2, HandlerFields
<1>4. h \in HandlerState
  BY <1>3, OpenHandlers
<1>5. tx' = [tx EXCEPT ![q] = h] /\ UNCHANGED <<request, affiliate>> /\ Allowed(a)
  BY <1>1 DEF Restart
<1>6. h.phase = "open" /\ h.asked = a
  BY DEF Handler
<1>7. a.op # "update"
  BY <1>2, <1>3, HandlerFields, SubmissionFields
<1> HIDE DEF h, a
<1>8. StillAllowed(a)
  BY <1>3, <1>5, <1>7, AllowedIsStill
<1> QED
  BY <1>4, <1>5, <1>6, <1>8, Unwritten, QuietStep

LEMMA FailStep ==
  ASSUME IInv, NEW q \in Requests, Fail(q)
  PROVE  IInv'
BY IdleHandler, Unwritten, QuietStep DEF Fail

-----------------------------------------------------------------------------
LEMMA InitHolds == Init => IInv
<1> SUFFICES ASSUME Init PROVE IInv
  OBVIOUS
<1>1. TypeOK
  BY IdleHandler DEF Init, TypeOK
<1>2. \A p \in Persons : PendingOf(p) = {} /\ ApprovedOf(p) = {} /\ affiliate[p] = NoRow
  BY DEF Init, PendingOf, Pending, ApprovedOf
<1>3. OneStanding /\ ApprovedIsAffiliate
  BY <1>2 DEF OneStanding, ApprovedIsAffiliate
<1>4. UndoomedAreCurrent /\ ReadersUpdate
  BY IdleHandler DEF Init, UndoomedAreCurrent, ReadersUpdate
<1> QED
  BY <1>1, <1>3, <1>4 DEF IInv

LEMMA Inductive == IInv /\ [Next]_vars => IInv'
<1> SUFFICES ASSUME IInv, [Next]_vars PROVE IInv'
  OBVIOUS
<1>1. ASSUME NEW q \in Requests, NEW a \in Asked, Start(q, a) PROVE IInv'
  BY <1>1, StartStep
<1>2. ASSUME NEW q \in Requests, SerializationFailure(q) PROVE IInv'
  BY <1>2, SerializationFailureStep
<1>3. ASSUME NEW q \in Requests, Restart(q) PROVE IInv'
  BY <1>3, RestartStep
<1>4. ASSUME NEW q \in Requests, Fail(q) PROVE IInv'
  BY <1>4, FailStep
<1>5. ASSUME NEW q \in Requests, CommitCreate(q) PROVE IInv'
  BY <1>5, CreateCommits
<1>6. ASSUME NEW q \in Requests, CommitApprove(q) PROVE IInv'
  BY <1>6, ApproveCommits
<1>7. ASSUME NEW q \in Requests, CommitReject(q) PROVE IInv'
  BY <1>7, RejectCommits
<1>8. ASSUME NEW q \in Requests, CommitUpdate(q) PROVE IInv'
  BY <1>8, UpdateCommits
<1>9. ASSUME UNCHANGED vars PROVE IInv'
  BY <1>9 DEF vars, IInv, TypeOK, OneStanding, ApprovedIsAffiliate, UndoomedAreCurrent,
     ReadersUpdate, StillAllowed, UpdatesAffiliate, CreateAllowed, PendingOf, Pending,
     ApprovedOf
<1> QED
  BY <1>1, <1>2, <1>3, <1>4, <1>5, <1>6, <1>7, <1>8, <1>9 DEF Next

LEMMA Holds == Spec => []IInv
BY InitHolds, Inductive, PTL DEF Spec

\* Every row and every handler has the shape the handlers of the two services
\* give it, for any number of them.
THEOREM TypeCorrect == Spec => []TypeOK
<1>1. IInv => TypeOK
  BY DEF IInv
<1> QED
  BY <1>1, Holds, PTL

\* However submissions, approvals, rejections and edits interleave, a person has
\* one pending request, or is an affiliate, never more (affiliate-requests.service.ts).
THEOREM StandingIsOne == Spec => []OneStanding
<1>1. IInv => OneStanding
  BY DEF IInv
<1> QED
  BY <1>1, Holds, PTL

\* A person is an affiliate exactly when one request of theirs was approved.
THEOREM ApprovalsAreAffiliates == Spec => []ApprovedIsAffiliate
<1>1. IInv => ApprovedIsAffiliate
  BY DEF IInv
<1> QED
  BY <1>1, Holds, PTL
=============================================================================
