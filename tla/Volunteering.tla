---------------------------- MODULE Volunteering ----------------------------
(* volunteering-opportunities.service.ts and                               *)
(* volunteering-applications.service.ts: opportunities, their sessions, the *)
(* applications to them and the participations an approval opens.  Every   *)
(* transaction is Read Committed and first takes the advisory lock of its  *)
(* opportunity, which PostgreSQL gives up when the transaction ends; create *)
(* and update are single statements that take no lock.  Titles, texts and  *)
(* the audit rows written in the same transactions are left out.           *)
EXTENDS Naturals, FiniteSets

CONSTANTS Requests,       \* handlers in flight at once
          Opportunities,  \* ids of VolunteerOpportunity rows
          Applications,   \* ids of VolunteerApplication rows
          Persons,        \* ids of Person rows
          Registered,     \* the persons known beforehand
          ContactSets,    \* the e-mail and phone an applicant gives
          Capacities,     \* the capacities typed
          Deadlines,      \* the deadlines typed, null among them or not
          MaxTime,        \* the clock stops here
          NoRow, NoPerson, NoDeadline, Nobody

VARIABLES opportunity, application, participation, people, lock, tx, now

vars == <<opportunity, application, participation, people, lock, tx, now>>

rows == <<opportunity, application, participation, people>>

Times == 0 .. MaxTime

\* The null of the column capacity.
Unlimited == 0

OpportunityStatus == {"DRAFT", "PUBLISHED", "CLOSED"}

OpportunityRow == [status : OpportunityStatus, capacity : Capacities \cup {Unlimited},
                   deadline : Deadlines, starts : SUBSET Times]

ApplicationRow ==
  [opportunity : Opportunities, contact : ContactSets,
   status : {"PENDING", "REJECTED"}, person : {NoPerson}]
    \cup [opportunity : Opportunities, contact : ContactSets,
          status : {"APPROVED"}, person : Persons]

ParticipationRow ==
  [application : Applications, opportunity : Opportunities, person : Persons]

\* person is NoPerson when the reviewer asks for a new Person.
Request ==
  [op : {"addSession"}, opportunity : Opportunities, start : Times]
    \cup [op : {"publish", "close"}, opportunity : Opportunities]
    \cup [op : {"submit"}, opportunity : Opportunities, contact : ContactSets]
    \cup [op : {"approve"}, application : Applications, person : Persons \cup {NoPerson}]
    \cup [op : {"reject"}, application : Applications]

ASSUME VolunteeringAssumption ==
  /\ MaxTime \in Nat
  /\ Capacities \subseteq Nat \ {0}
  /\ Deadlines \subseteq Nat \cup {NoDeadline}
  /\ Registered \subseteq Persons
  /\ \A c \in ContactSets : c # {}
  /\ NoRow \notin OpportunityRow \cup ApplicationRow \cup Request
  /\ NoPerson \notin Persons
  /\ NoDeadline \notin Nat
  /\ Nobody \notin Requests

\* seats is the capacity an approval read, Unlimited in every other handler.
Handler(phase, request, seats) ==
  [phase |-> phase, request |-> request, seats |-> seats]

Idle == Handler("idle", NoRow, Unlimited)

HandlerState ==
  {Idle}
    \cup [phase : {"waiting", "locked"}, request : Request, seats : {Unlimited}]
    \cup [phase : {"writing"}, request : Request, seats : Capacities \cup {Unlimited}]

-----------------------------------------------------------------------------
(* What a transaction reads.                                               *)

\* The opportunity a request is about; a review first reads it from its
\* application, before the lock: the column never changes.
OpportunityOf(r) ==
  IF r.op \in {"approve", "reject"} THEN application[r.application].opportunity
  ELSE r.opportunity

Found(r) ==
  IF r.op \in {"approve", "reject"} THEN application[r.application] # NoRow
  ELSE opportunity[r.opportunity] # NoRow

ConfirmedIn(o) == {p \in participation : p.opportunity = o}

HasRoom(o) ==
  \/ opportunity[o].capacity = Unlimited
  \/ Cardinality(ConfirmedIn(o)) < opportunity[o].capacity

Upcoming(o) == \E s \in opportunity[o].starts : s > now

\* Mutant: only the exact same contact counts as a duplicate.
SameContact(o, contact) ==
  \E a \in Applications :
    /\ application[a] # NoRow
    /\ application[a].opportunity = o
    /\ application[a].status \in {"PENDING", "APPROVED"}
    /\ application[a].contact = contact

\* An application still alive with the same e-mail or the same phone.
Duplicate(o, contact) ==
  \E a \in Applications :
    /\ application[a] # NoRow
    /\ application[a].opportunity = o
    /\ application[a].status \in {"PENDING", "APPROVED"}
    /\ application[a].contact \cap contact # {}

\* Mutant: whatever the status.
SubmitAnyTime(r) ==
  LET o == r.opportunity IN
  /\ Upcoming(o) /\ HasRoom(o) /\ ~ Duplicate(o, r.contact)

SubmitAllowed(r) ==
  LET o == r.opportunity IN
  /\ opportunity[o].status = "PUBLISHED"
  /\ opportunity[o].deadline # NoDeadline => opportunity[o].deadline >= now
  /\ Upcoming(o)
  /\ HasRoom(o)
  /\ ~ Duplicate(o, r.contact)

ApproveAllowed(r) ==
  LET o == application[r.application].opportunity IN
  /\ application[r.application].status = "PENDING"
  /\ HasRoom(o)
  /\ r.person # NoPerson =>
       /\ r.person \in people
       /\ \A p \in ConfirmedIn(o) : p.person # r.person

PublishAllowed(r) ==
  LET o == r.opportunity IN
  /\ opportunity[o].status = "DRAFT"
  /\ opportunity[o].deadline # NoDeadline => opportunity[o].deadline > now
  /\ Upcoming(o)

AddSessionAllowed(r) == opportunity[r.opportunity].status = "DRAFT"

Allowed(r) ==
  \/ r.op = "addSession" /\ AddSessionAllowed(r)
  \/ r.op = "publish" /\ PublishAllowed(r)
  \/ r.op = "close" /\ opportunity[r.opportunity].status = "PUBLISHED"
  \/ r.op = "submit" /\ SubmitAllowed(r)
  \/ r.op = "approve" /\ ApproveAllowed(r)
  \/ r.op = "reject"

-----------------------------------------------------------------------------
(* The statements that take no lock.                                       *)

Opportunity(status, capacity, deadline, starts) ==
  [status |-> status, capacity |-> capacity, deadline |-> deadline, starts |-> starts]

Create(o, capacity, deadline) ==
  /\ opportunity[o] = NoRow
  /\ opportunity' = [opportunity EXCEPT ![o] =
                        Opportunity("DRAFT", capacity, deadline, {})]
  /\ UNCHANGED <<application, participation, people, lock, tx, now>>

\* In any status, whatever the participations and the transactions in flight.
Update(o, capacity, deadline) ==
  /\ opportunity[o] # NoRow
  /\ opportunity' = [opportunity EXCEPT ![o] =
                        Opportunity(@.status, capacity, deadline, @.starts)]
  /\ UNCHANGED <<application, participation, people, lock, tx, now>>

Tick ==
  /\ now < MaxTime
  /\ now' = now + 1
  /\ UNCHANGED <<opportunity, application, participation, people, lock, tx>>

-----------------------------------------------------------------------------
(* The transactions.                                                       *)

\* A session must start in the future when the request arrives.
Arrive(q, r) ==
  /\ tx[q] = Idle
  /\ Found(r)
  /\ r.op = "addSession" => r.start > now
  /\ tx' = [tx EXCEPT ![q] = Handler("waiting", r, Unlimited)]
  /\ UNCHANGED <<opportunity, application, participation, people, lock, now>>

\* Mutant: an approval that takes no lock.
AcquireUnlocked(q) ==
  /\ tx[q].phase = "waiting"
  /\ IF tx[q].request.op = "approve" THEN UNCHANGED lock
     ELSE LET o == OpportunityOf(tx[q].request) IN
          lock[o] = Nobody /\ lock' = [lock EXCEPT ![o] = q]
  /\ tx' = [tx EXCEPT ![q] = Handler("locked", tx[q].request, Unlimited)]
  /\ UNCHANGED <<opportunity, application, participation, people, now>>

\* pg_advisory_xact_lock of the opportunity.
Acquire(q) ==
  LET o == OpportunityOf(tx[q].request) IN
  /\ tx[q].phase = "waiting"
  /\ lock[o] = Nobody
  /\ lock' = [lock EXCEPT ![o] = q]
  /\ tx' = [tx EXCEPT ![q] = Handler("locked", tx[q].request, Unlimited)]
  /\ UNCHANGED <<opportunity, application, participation, people, now>>

\* The transaction ends: the lock is free and the handler answers.
Ends(q) ==
  /\ lock' = [o \in Opportunities |-> IF lock[o] = q THEN Nobody ELSE lock[o]]
  /\ tx' = [tx EXCEPT ![q] = Idle]

Refuse(q) ==
  /\ tx[q].phase = "locked"
  /\ ~ Allowed(tx[q].request)
  /\ Ends(q)
  /\ UNCHANGED <<opportunity, application, participation, people, now>>

SeatsSeen(r) ==
  IF r.op = "approve" THEN opportunity[OpportunityOf(r)].capacity ELSE Unlimited

Check(q) ==
  /\ tx[q].phase = "locked"
  /\ Allowed(tx[q].request)
  /\ tx' = [tx EXCEPT ![q] = Handler("writing", tx[q].request, SeatsSeen(tx[q].request))]
  /\ UNCHANGED <<opportunity, application, participation, people, lock, now>>

\* The process dies or the connection drops: PostgreSQL rolls back.
Lose(q) ==
  /\ tx[q] # Idle
  /\ Ends(q)
  /\ UNCHANGED <<opportunity, application, participation, people, now>>

Writing(q, op) == tx[q].phase = "writing" /\ tx[q].request.op = op

CommitSession(q) ==
  LET r == tx[q].request IN
  /\ Writing(q, "addSession")
  /\ opportunity' = [opportunity EXCEPT ![r.opportunity] =
       Opportunity(@.status, @.capacity, @.deadline, @.starts \cup {r.start})]
  /\ Ends(q)
  /\ UNCHANGED <<application, participation, people, now>>

FromOf(op) == IF op = "publish" THEN "DRAFT" ELSE "PUBLISHED"

TargetOf(op) == IF op = "publish" THEN "PUBLISHED" ELSE "CLOSED"

\* updateMany where the status is still the one it was.
CommitTransition(q) ==
  LET r == tx[q].request IN
  /\ Writing(q, "publish") \/ Writing(q, "close")
  /\ opportunity[r.opportunity].status = FromOf(r.op)
  /\ opportunity' = [opportunity EXCEPT ![r.opportunity] =
       Opportunity(TargetOf(r.op), @.capacity, @.deadline, @.starts)]
  /\ Ends(q)
  /\ UNCHANGED <<application, participation, people, now>>

CommitSubmit(q) ==
  LET r == tx[q].request IN
  /\ Writing(q, "submit")
  /\ \E a \in Applications :
       /\ application[a] = NoRow
       /\ application' = [application EXCEPT ![a] =
            [opportunity |-> r.opportunity, contact |-> r.contact,
             status |-> "PENDING", person |-> NoPerson]]
  /\ Ends(q)
  /\ UNCHANGED <<opportunity, participation, people, now>>

\* Mutant: the approved row does not name its person.
Unnamed(row, p) == [opportunity |-> row.opportunity, contact |-> row.contact,
                    status |-> "APPROVED", person |-> NoPerson]

Approved(row, p) == [opportunity |-> row.opportunity, contact |-> row.contact,
                     status |-> "APPROVED", person |-> p]

\* Mutant: a review claimed by id alone.
ClaimById(row) == TRUE

\* updateMany where status = PENDING: the claim of both reviews.
Claimable(row) == row.status = "PENDING"

\* The unique indexes of VolunteerParticipation.
UniqueParticipation(a, o, p) ==
  \A x \in participation :
    x.application # a /\ ~ (x.opportunity = o /\ x.person = p)

\* Who an approval makes a participant: a person named, or one created now.
Approvable(r, p) ==
  /\ IF r.person = NoPerson THEN p \notin people ELSE p = r.person
  /\ UniqueParticipation(r.application, OpportunityOf(r), p)

\* The claim, the participation and, when asked for, a new person.
CommitApprove(q) ==
  LET r == tx[q].request
      row == application[r.application] IN
  /\ Writing(q, "approve")
  /\ Claimable(row)
  /\ \E p \in Persons :
       /\ Approvable(r, p)
       /\ people' = people \cup {p}
       /\ application' = [application EXCEPT ![r.application] = Approved(row, p)]
       /\ participation' = participation \cup
            {[application |-> r.application, opportunity |-> row.opportunity,
              person |-> p]}
  /\ Ends(q)
  /\ UNCHANGED <<opportunity, now>>

Rejected(row) == [opportunity |-> row.opportunity, contact |-> row.contact,
                  status |-> "REJECTED", person |-> NoPerson]

CommitReject(q) ==
  LET r == tx[q].request IN
  /\ Writing(q, "reject")
  /\ Claimable(application[r.application])
  /\ application' = [application EXCEPT ![r.application] =
                       Rejected(application[r.application])]
  /\ Ends(q)
  /\ UNCHANGED <<opportunity, participation, people, now>>

\* A guarded update that finds no row, or a unique index that refuses the
\* participation: the transaction fails and nothing of it stays.  So it does
\* when no id is left in the model for a new application or person.
WriteFails(q) ==
  LET r == tx[q].request IN
  /\ \/ /\ Writing(q, "publish") \/ Writing(q, "close")
        /\ opportunity[r.opportunity].status # FromOf(r.op)
     \/ Writing(q, "approve") /\ ~ Claimable(application[r.application])
     \/ Writing(q, "approve") /\ \A p \in Persons : ~ Approvable(r, p)
     \/ Writing(q, "reject") /\ ~ Claimable(application[r.application])
     \/ Writing(q, "submit") /\ \A a \in Applications : application[a] # NoRow
  /\ Ends(q)
  /\ UNCHANGED <<opportunity, application, participation, people, now>>

-----------------------------------------------------------------------------
Init ==
  /\ opportunity = [o \in Opportunities |-> NoRow]
  /\ application = [a \in Applications |-> NoRow]
  /\ participation = {}
  /\ people = Registered
  /\ lock = [o \in Opportunities |-> Nobody]
  /\ tx = [q \in Requests |-> Idle]
  /\ now = 0

\* The steps of a transaction once it holds the lock.
Proceed(q) ==
  \/ Refuse(q) \/ Check(q)
  \/ CommitSession(q) \/ CommitTransition(q) \/ CommitSubmit(q)
  \/ CommitApprove(q) \/ CommitReject(q) \/ WriteFails(q)

Next ==
  \/ \E o \in Opportunities, c \in Capacities \cup {Unlimited},
        d \in Deadlines :
       Create(o, c, d) \/ Update(o, c, d)
  \/ \E q \in Requests, r \in Request : Arrive(q, r)
  \/ \E q \in Requests : Acquire(q) \/ Proceed(q) \/ Lose(q)
  \/ Tick

Spec == Init /\ [][Next]_vars

-----------------------------------------------------------------------------
(* Properties.                                                             *)

TypeOK ==
  /\ opportunity \in [Opportunities -> OpportunityRow \cup {NoRow}]
  /\ application \in [Applications -> ApplicationRow \cup {NoRow}]
  /\ participation \subseteq ParticipationRow
  /\ people \subseteq Persons
  /\ lock \in [Opportunities -> Requests \cup {Nobody}]
  /\ tx \in [Requests -> HandlerState]
  /\ now \in Times

\* The lock makes check-then-write atomic: the seat an approval has read to
\* be free is still free when it writes, whoever else was approved, and
\* however the capacity was edited, in between.
SeatsAreFree ==
  \A q \in Requests :
    Writing(q, "approve") /\ tx[q].seats # Unlimited =>
      Cardinality(ConfirmedIn(OpportunityOf(tx[q].request))) < tx[q].seats

\* Approvals and rejections racing on an application: it is APPROVED exactly
\* when it has a participation, of the same person and opportunity, and a
\* person takes part in an opportunity once.
ApprovedTakePart ==
  /\ \A a \in Applications :
       application[a] # NoRow /\ application[a].status = "APPROVED" =>
         [application |-> a, opportunity |-> application[a].opportunity,
          person |-> application[a].person] \in participation
  /\ \A p \in participation :
       /\ application[p.application] # NoRow
       /\ application[p.application].status = "APPROVED"
       /\ application[p.application].opportunity = p.opportunity
       /\ application[p.application].person = p.person
  /\ \A p1, p2 \in participation :
       p1.opportunity = p2.opportunity /\ p1.person = p2.person => p1 = p2

\* Two submissions racing: no two applications to an opportunity that are
\* pending or approved share an e-mail or a phone.
OneLiveApplication ==
  \A a, b \in Applications :
    /\ a # b
    /\ application[a] # NoRow /\ application[b] # NoRow
    /\ application[a].opportunity = application[b].opportunity
    /\ application[a].status # "REJECTED" /\ application[b].status # "REJECTED"
    => application[a].contact \cap application[b].contact = {}

\* A submission that waited for the lock behind the closing of its opportunity
\* is not received: applications enter only while it is PUBLISHED.
ReceivedWhileOpen ==
  [][\A a \in Applications :
       application[a] = NoRow /\ application'[a] # NoRow =>
         opportunity[application'[a].opportunity].status = "PUBLISHED"]_vars
=============================================================================
