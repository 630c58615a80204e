---------------------------- MODULE Affiliations ----------------------------
(* Affiliation requests (affiliate-requests.service.ts) and the affiliates  *)
(* they make (affiliates.service.ts, update).  Submission, approval and     *)
(* rejection are Serializable; only submission is retried, under an         *)
(* advisory lock on the person's identity that orders the submissions but   *)
(* not their snapshots.  The resolver finds or creates the person; a person *)
(* it refuses, and an approval whose identity no longer matches the         *)
(* person's, end in a refusal.  Names, the territorial declaration and      *)
(* audit rows are left out.                                                 *)
EXTENDS Naturals, SerializableTx

CONSTANTS Requests,   \* handlers in flight at once
          Persons,    \* the people, and the identification of each
          RequestIds, \* ids of AffiliateRequest rows
          Emails,
          NoRow

VARIABLES request, affiliate, tx

vars == <<request, affiliate, tx>>

RequestRow == [person : Persons, email : Emails,
               status : {"PENDING", "APPROVED", "REJECTED"}]

\* Of the person affiliate is indexed by; the identification may be edited
\* into someone else's.
AffiliateRow == [identification : Persons, email : Emails]

Submissions == [op : {"create"}, person : Persons, email : Emails]

Asked == Submissions
           \cup [op : {"approve", "reject"}, id : RequestIds]
           \cup [op : {"update"}, person : Persons, to : AffiliateRow]

ASSUME AffiliationsAssumption == NoRow \notin RequestRow \cup AffiliateRow \cup Asked

Handler(phase, asked, attempt, doomed) ==
  [phase |-> phase, asked |-> asked, attempt |-> attempt, doomed |-> doomed]

Idle == Handler("idle", NoRow, 0, FALSE)

HandlerState ==
  {Idle}
    \cup [phase : {"waiting"}, asked : Submissions, attempt : 1 .. MaxAttempts, doomed : {FALSE}]
    \cup [phase : {"open"}, asked : Asked, attempt : 1 .. MaxAttempts, doomed : BOOLEAN]
    \cup [phase : {"read"}, asked : Asked, attempt : {1}, doomed : {FALSE}]

-----------------------------------------------------------------------------
(* What the handlers ask of the rows they read.                            *)

Pending(id) == request[id] # NoRow /\ request[id].status = "PENDING"

PendingOf(p) == {id \in RequestIds : Pending(id) /\ request[id].person = p}

\* Another affiliate with the identification or the e-mail.
Taken(row, p) ==
  \E x \in Persons \ {p} :
    /\ affiliate[x] # NoRow
    /\ affiliate[x].identification = row.identification \/ affiliate[x].email = row.email

RowOf(id) == [identification |-> request[id].person, email |-> request[id].email]

CreateAllowed(a) == affiliate[a.person] = NoRow /\ PendingOf(a.person) = {}

ApproveAllowed(a) ==
  /\ Pending(a.id)
  /\ affiliate[request[a.id].person] = NoRow
  /\ ~ Taken(RowOf(a.id), request[a.id].person)

\* Mutant: a rejection that does not look at the status.
RejectAnyStatus(a) == request[a.id] # NoRow

RejectAllowed(a) == Pending(a.id)

UpdateAllowed(a) == affiliate[a.person] # NoRow /\ ~ Taken(a.to, a.person)

Allowed(a) ==
  \/ a.op = "create" /\ CreateAllowed(a)
  \/ a.op = "approve" /\ ApproveAllowed(a)
  \/ a.op = "reject" /\ RejectAllowed(a)
  \/ a.op = "update" /\ UpdateAllowed(a)

-----------------------------------------------------------------------------
(* Transactions.                                                           *)

\* <<"requests", p>> and <<"affiliate", p>> are the searches by person, and
\* <<"email", e>> and <<"identification", p>> those of an approval.
CreateFootprint(a) ==
  [reads |-> {<<"requests", a.person>>, <<"affiliate", a.person>>}
               \cup PendingOf(a.person),
   rows |-> {}, marks |-> {<<"requests", a.person>>}]

ApproveFootprint(a) ==
  LET p == request[a.id].person
      keys == {<<"affiliate", p>>, <<"identification", p>>,
               <<"email", request[a.id].email>>} IN
  [reads |-> keys \cup {a.id}, rows |-> {a.id},
   marks |-> keys \cup {<<"requests", p>>}]

RejectFootprint(a) ==
  [reads |-> {a.id}, rows |-> {a.id}, marks |-> {<<"requests", request[a.id].person>>}]

\* Footprint of an open transaction; while nothing it conflicts with has
\* committed, it is the same now as when the transaction read.
Footprint(a) ==
  CASE a.op = "create"  -> CreateFootprint(a)
    [] a.op = "approve" -> ApproveFootprint(a)
    [] a.op = "reject"  -> RejectFootprint(a)

\* q's commit answers its caller and condemns the transactions it conflicts with.
Committed(q) ==
  tx' = [p \in Requests |->
           IF p = q THEN Idle
           ELSE IF /\ tx[p].phase = "open"
                   /\ Conflict(Footprint(tx[p].asked), Footprint(tx[q].asked))
                THEN Handler("open", tx[p].asked, tx[p].attempt, TRUE)
                ELSE tx[p]]

\* The reads of a handler; a refusal answers at once and leaves nothing.
Start(q, a) ==
  /\ tx[q] = Idle
  /\ Allowed(a)
  /\ tx' = [tx EXCEPT ![q] =
              Handler(IF a.op = "update" THEN "read" ELSE "open", a, 1, FALSE)]
  /\ UNCHANGED <<request, affiliate>>

\* withSerializableTransaction tries a submission again after P2034.
SerializationFailure(q) ==
  /\ tx[q].phase = "open" /\ tx[q].asked.op = "create"
  /\ tx[q].attempt < MaxAttempts
  /\ tx' = [tx EXCEPT ![q] = Handler("waiting", @.asked, @.attempt + 1, FALSE)]
  /\ UNCHANGED <<request, affiliate>>

Restart(q) ==
  /\ tx[q].phase = "waiting"
  /\ Allowed(tx[q].asked)
  /\ tx' = [tx EXCEPT ![q] = Handler("open", @.asked, @.attempt, FALSE)]
  /\ UNCHANGED <<request, affiliate>>

\* The handler ends and nothing of it stays: a refusal, P2034 with no attempt
\* left, a unique index, a person the resolver refuses, a lost connection.
Fail(q) ==
  /\ tx[q] # Idle
  /\ tx' = [tx EXCEPT ![q] = Idle]
  /\ UNCHANGED <<request, affiliate>>

Open(q, op) == tx[q].phase = "open" /\ ~ tx[q].doomed /\ tx[q].asked.op = op

-----------------------------------------------------------------------------
CommitCreate(q) ==
  LET a == tx[q].asked IN
  /\ Open(q, "create")
  /\ \E id \in RequestIds :
       /\ request[id] = NoRow
       /\ request' = [request EXCEPT ![id] =
            [person |-> a.person, email |-> a.email, status |-> "PENDING"]]
  /\ Committed(q)
  /\ UNCHANGED affiliate

Decided(id, status) ==
  request' = [request EXCEPT ![id] =
                [person |-> @.person, email |-> @.email, status |-> status]]

\* The affiliate is created, then the request is claimed.
CommitApprove(q) ==
  LET id == tx[q].asked.id
      p == request[id].person IN
  /\ Open(q, "approve")
  /\ affiliate[p] = NoRow /\ ~ Taken(RowOf(id), p)
  /\ affiliate' = [affiliate EXCEPT ![p] = RowOf(id)]
  /\ Decided(id, "APPROVED")
  /\ Committed(q)

CommitReject(q) ==
  /\ Open(q, "reject")
  /\ Decided(tx[q].asked.id, "REJECTED")
  /\ Committed(q)
  /\ UNCHANGED affiliate

\* AffiliatesService.update, at Read Committed, under the unique indexes.
CommitUpdate(q) ==
  LET a == tx[q].asked IN
  /\ tx[q].phase = "read"
  /\ ~ Taken(a.to, a.person)
  /\ affiliate' = [affiliate EXCEPT ![a.person] = a.to]
  /\ tx' = [tx EXCEPT ![q] = Idle]
  /\ UNCHANGED request

-----------------------------------------------------------------------------
Init ==
  /\ request = [id \in RequestIds |-> NoRow]
  /\ affiliate = [p \in Persons |-> NoRow]
  /\ tx = [q \in Requests |-> Idle]

Next ==
  \/ \E q \in Requests, a \in Asked : Start(q, a)
  \/ \E q \in Requests :
       \/ SerializationFailure(q) \/ Restart(q) \/ Fail(q)
       \/ CommitCreate(q) \/ CommitApprove(q) \/ CommitReject(q) \/ CommitUpdate(q)

Spec == Init /\ [][Next]_vars

-----------------------------------------------------------------------------
(* Properties.                                                             *)

TypeOK ==
  /\ request \in [RequestIds -> RequestRow \cup {NoRow}]
  /\ affiliate \in [Persons -> AffiliateRow \cup {NoRow}]
  /\ tx \in [Requests -> HandlerState]

\* Two submissions that both found nothing, or a submission racing with the
\* approval of another: a person has one pending request, or is an affiliate,
\* never more.
OneStanding ==
  \A p \in Persons :
    /\ \A a, b \in PendingOf(p) : a = b
    /\ affiliate[p] # NoRow => PendingOf(p) = {}

ApprovedOf(p) ==
  {id \in RequestIds : /\ request[id] # NoRow /\ request[id].person = p
                       /\ request[id].status = "APPROVED"}

\* Approvals and rejections racing: a person is an affiliate exactly when one
\* request of theirs, and no second one, is APPROVED.
ApprovedIsAffiliate ==
  \A p \in Persons :
    /\ ApprovedOf(p) # {} <=> affiliate[p] # NoRow
    /\ \A a, b \in ApprovedOf(p) : a = b
=============================================================================
