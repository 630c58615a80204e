------------------------- MODULE VolunteeringProofs -------------------------
(* What the advisory lock of an opportunity gives, for any number of        *)
(* handlers, opportunities, applications, people and any clock.             *)
EXTENDS Volunteering, TLAPS

Seats == Capacities \cup {Unlimited}

RowsTyped ==
  /\ opportunity \in [Opportunities -> OpportunityRow \cup {NoRow}]
  /\ application \in [Applications -> ApplicationRow \cup {NoRow}]
  /\ participation \subseteq ParticipationRow
  /\ people \subseteq Persons

\* Foreign key: the opportunity of an application is there.
ParentsThere ==
  \A a \in Applications :
    application[a] # NoRow => opportunity[application[a].opportunity] # NoRow

RowsOK == RowsTyped /\ ParentsThere /\ ApprovedTakePart /\ OneLiveApplication

\* The row a request names is there from its arrival on.
RequestsFound ==
  \A q \in Requests, r \in Request :
    tx[q].phase # "idle" /\ tx[q].request = r => Found(r)

\* Whoever has read under the lock of an opportunity holds it.
LockHeld ==
  \A q \in Requests, r \in Request :
    tx[q].phase \in {"locked", "writing"} /\ tx[q].request = r
      => lock[OpportunityOf(r)] = q

\* What a handler found when it checked: n seats and room among them for an
\* approval, an open opportunity and no duplicate for a submission.
Stands(r, n) ==
  /\ r.op = "submit" => /\ opportunity[r.opportunity].status = "PUBLISHED"
                        /\ ~ Duplicate(r.opportunity, r.contact)
  /\ r.op = "approve" /\ n # Unlimited => Cardinality(ConfirmedIn(OpportunityOf(r))) < n

\* It still stands when it writes.
WritersStand ==
  \A q \in Requests, r \in Request, n \in Seats :
    tx[q].phase = "writing" /\ tx[q].request = r /\ tx[q].seats = n => Stands(r, n)

IInv == TypeOK /\ RowsOK /\ RequestsFound /\ LockHeld /\ WritersStand

-----------------------------------------------------------------------------
(* The shapes of the records.                                               *)

LEMMA IdleHandler == Idle \in HandlerState /\ Idle.phase = "idle"
BY DEF HandlerState, Idle, Handler

LEMMA HandlerFields ==
  ASSUME NEW h \in HandlerState
  PROVE  /\ h.phase \in {"idle", "waiting", "locked", "writing"}
         /\ h = Idle <=> h.phase = "idle"
         /\ h.phase # "idle" => h.request \in Request
         /\ h.phase = "writing" => h.seats \in Seats
<1>1. CASE h = Idle
  BY <1>1, IdleHandler
<1>2. CASE h \in [phase : {"waiting", "locked"}, request : Request, seats : {Unlimited}]
  <2>1. h.phase \in {"waiting", "locked"} /\ h.request \in Request
    BY <1>2
  <2> QED
    BY <2>1, IdleHandler
<1>3. CASE h \in [phase : {"writing"}, request : Request, seats : Capacities \cup {Unlimited}]
  <2>1. h.phase = "writing" /\ h.request \in Request /\ h.seats \in Seats
    BY <1>3 DEF Seats
  <2> QED
    BY <2>1, IdleHandler
<1> QED
  BY <1>1, <1>2, <1>3 DEF HandlerState

LEMMA OtherHandlers ==
  ASSUME NEW r \in Request
  PROVE  /\ Handler("waiting", r, Unlimited) \in HandlerState
         /\ Handler("locked", r, Unlimited) \in HandlerState
         /\ \A n \in Seats : Handler("writing", r, n) \in HandlerState
BY DEF HandlerState, Handler, Seats

LEMMA RequestFields ==
  ASSUME NEW r \in Request
  PROVE  /\ r.op \in {"addSession", "publish", "close", "submit", "approve", "reject"}
         /\ r.op \in {"approve", "reject"} => r.application \in Applications
         /\ r.op \notin {"approve", "reject"} => r.opportunity \in Opportunities
         /\ r.op = "submit" => r.contact \in ContactSets
         /\ r.op = "approve" => r.person \in Persons \cup {NoPerson}
         /\ r.op = "addSession" => r.start \in Times
BY DEF Request

LEMMA OpportunityFields ==
  ASSUME NEW row \in OpportunityRow
  PROVE  /\ row.status \in OpportunityStatus /\ row.capacity \in Seats
         /\ row.deadline \in Deadlines /\ row.starts \in SUBSET Times
         /\ row # NoRow
BY VolunteeringAssumption DEF OpportunityRow, Seats

LEMMA MadeOpportunity ==
  ASSUME NEW s \in OpportunityStatus, NEW c \in Seats, NEW d \in Deadlines,
         NEW t \in SUBSET Times
  PROVE  /\ Opportunity(s, c, d, t) \in OpportunityRow
         /\ Opportunity(s, c, d, t).status = s
BY DEF OpportunityRow, Opportunity, Seats

LEMMA ApplicationFields ==
  ASSUME NEW row \in ApplicationRow
  PROVE  /\ row.opportunity \in Opportunities /\ row.contact \in ContactSets
         /\ row.status \in {"PENDING", "REJECTED", "APPROVED"}
         /\ row # NoRow
BY VolunteeringAssumption DEF ApplicationRow

LEMMA ParticipationFields ==
  ASSUME NEW x \in ParticipationRow
  PROVE  x.application \in Applications /\ x.opportunity \in Opportunities /\ x.person \in Persons
BY DEF ParticipationRow

LEMMA FoundOpportunity ==
  ASSUME RowsTyped, NEW r \in Request, Found(r)
  PROVE  OpportunityOf(r) \in Opportunities
BY RequestFields, ApplicationFields DEF RowsTyped, Found, OpportunityOf

-----------------------------------------------------------------------------
(* A step of one handler, whatever it does to the rows.                     *)

FoundKept == \A r \in Request : Found(r) => Found(r)' /\ OpportunityOf(r)' = OpportunityOf(r)

\* What q's step may undo is only what it holds the lock of.
StandsKept(q) ==
  \A r \in Request, n \in Seats :
    Found(r) /\ Stands(r, n) /\ lock[OpportunityOf(r)] # q => Stands(r, n)'

LocksKept(q) ==
  /\ lock' \in [Opportunities -> Requests \cup {Nobody}]
  /\ \A o \in Opportunities : lock[o] \in Requests \ {q} => lock'[o] = lock[o]

LEMMA HandlerStep ==
  ASSUME IInv, RowsOK', now' \in Times, FoundKept,
         NEW q \in Requests, StandsKept(q), LocksKept(q),
         NEW h \in HandlerState, tx' = [tx EXCEPT ![q] = h],
         h.phase # "idle" => Found(h.request),
         h.phase \in {"locked", "writing"} => lock'[OpportunityOf(h.request)] = q,
         h.phase = "writing" => Stands(h.request, h.seats)'
  PROVE  IInv'
<1>1. tx \in [Requests -> HandlerState] /\ RowsTyped
  BY DEF IInv, TypeOK, RowsOK
<1>2. tx' \in [Requests -> HandlerState]
  BY <1>1
<1>3. \A p \in Requests : tx'[p] = IF p = q THEN h ELSE tx[p]
  BY <1>1
<1>4. RequestsFound'
  BY <1>3 DEF IInv, RequestsFound, FoundKept
<1>5. LockHeld'
  <2> SUFFICES ASSUME NEW p \in Requests, NEW r \in Request,
                      tx'[p].phase \in {"locked", "writing"}, tx'[p].request = r
               PROVE  lock'[OpportunityOf(r)'] = p
    BY DEF LockHeld
  <2>1. CASE p = q
    BY <1>3, <2>1 DEF FoundKept
  <2>2. CASE p # q
    <3>1. tx[p].phase \in {"locked", "writing"} /\ tx[p].request = r
      BY <1>3, <2>2
    <3>2. Found(r) /\ lock[OpportunityOf(r)] = p
      BY <3>1 DEF IInv, RequestsFound, LockHeld
    <3>3. OpportunityOf(r) \in Opportunities /\ OpportunityOf(r)' = OpportunityOf(r)
      BY <1>1, <3>2, FoundOpportunity DEF FoundKept
    <3> QED
      BY <2>2, <3>2, <3>3 DEF LocksKept
  <2> QED
    BY <2>1, <2>2
<1>6. WritersStand'
  <2> SUFFICES ASSUME NEW p \in Requests, NEW r \in Request, NEW n \in Seats,
                      tx'[p].phase = "writing", tx'[p].request = r, tx'[p].seats = n
               PROVE  Stands(r, n)'
    BY DEF WritersStand
  <2>1. CASE p = q
    BY <1>3, <2>1
  <2>2. CASE p # q
    <3>1. tx[p].phase = "writing" /\ tx[p].request = r /\ tx[p].seats = n
      BY <1>3, <2>2
    <3>2. Found(r) /\ lock[OpportunityOf(r)] = p /\ Stands(r, n)
      BY <3>1 DEF IInv, RequestsFound, LockHeld, WritersStand
    <3> QED
      BY <2>2, <3>2 DEF StandsKept
  <2> QED
    BY <2>1, <2>2
<1> QED
  BY <1>2, <1>4, <1>5, <1>6 DEF IInv, TypeOK, RowsOK, RowsTyped, LocksKept

\* A step that leaves the rows alone.
LEMMA RowsUnchanged ==
  ASSUME IInv, UNCHANGED rows
  PROVE  /\ RowsOK' /\ FoundKept
         /\ \A r \in Request, n \in Seats : Stands(r, n) => Stands(r, n)'
<1>1. UNCHANGED <<opportunity, application, participation, people>>
  BY DEF rows
<1>2. RowsOK'
  BY <1>1 DEF IInv, RowsOK, RowsTyped, ParentsThere, ApprovedTakePart, OneLiveApplication
<1>3. FoundKept
  BY <1>1 DEF FoundKept, Found, OpportunityOf
<1>4. \A r \in Request, n \in Seats : Stands(r, n) => Stands(r, n)'
  BY <1>1 DEF Stands, Duplicate, ConfirmedIn, OpportunityOf
<1> QED
  BY <1>2, <1>3, <1>4

\* The end of q's transaction.
LEMMA EndStep ==
  ASSUME IInv, RowsOK', now' = now, FoundKept, NEW q \in Requests, StandsKept(q), Ends(q)
  PROVE  IInv'
<1>1. lock \in [Opportunities -> Requests \cup {Nobody}] /\ now \in Times
  BY DEF IInv, TypeOK
<1>2. LocksKept(q)
  BY <1>1 DEF Ends, LocksKept
<1>3. tx' = [tx EXCEPT ![q] = Idle]
  BY DEF Ends
<1> QED
  BY <1>1, <1>2, <1>3, IdleHandler, HandlerStep

\* A step that leaves the handlers and the locks alone.
LEMMA OutsideStep ==
  ASSUME IInv, RowsOK', now' \in Times, FoundKept, UNCHANGED <<lock, tx>>,
         \A r \in Request, n \in Seats : Found(r) /\ Stands(r, n) => Stands(r, n)'
  PROVE  IInv'
<1>1. RequestsFound'
  BY DEF IInv, RequestsFound, FoundKept
<1>2. LockHeld'
  BY DEF IInv, LockHeld, RequestsFound, FoundKept
<1>3. WritersStand'
  BY DEF IInv, WritersStand, RequestsFound
<1> QED
  BY <1>1, <1>2, <1>3 DEF IInv, TypeOK, RowsOK, RowsTyped

-----------------------------------------------------------------------------
(* Writes of opportunities.                                                 *)

LEMMA OpportunityWritten ==
  ASSUME IInv, NEW o \in Opportunities, NEW row \in OpportunityRow,
         opportunity' = [opportunity EXCEPT ![o] = row],
         UNCHANGED <<application, participation, people>>
  PROVE  /\ RowsOK' /\ FoundKept
         /\ \A r \in Request, n \in Seats :
              /\ Stands(r, n)
              /\ r.op = "submit" /\ r.opportunity = o => row.status = "PUBLISHED"
              => Stands(r, n)'
<1>1. RowsTyped /\ ParentsThere /\ ApprovedTakePart /\ OneLiveApplication
  BY DEF IInv, RowsOK
<1>2. \A x \in Opportunities : opportunity'[x] = IF x = o THEN row ELSE opportunity[x]
  BY <1>1 DEF RowsTyped
<1>3. RowsOK'
  <2>1. RowsTyped'
    BY <1>1 DEF RowsTyped
  <2>2. ApprovedTakePart' /\ OneLiveApplication'
    BY <1>1 DEF ApprovedTakePart, OneLiveApplication
  <2>3. ParentsThere'
    BY <1>1, <1>2, ApplicationFields, OpportunityFields DEF ParentsThere, RowsTyped
  <2> QED
    BY <2>1, <2>2, <2>3 DEF RowsOK
<1>4. FoundKept
  BY <1>2, RequestFields, OpportunityFields DEF FoundKept, Found, OpportunityOf
<1>5. ASSUME NEW r \in Request, NEW n \in Seats, Stands(r, n),
             r.op = "submit" /\ r.opportunity = o => row.status = "PUBLISHED"
      PROVE  Stands(r, n)'
  <2>1. CASE r.op = "submit"
    BY <1>2, <1>5, <2>1, RequestFields DEF Stands, Duplicate
  <2>2. CASE r.op # "submit"
    BY <1>5, <2>2 DEF Stands, ConfirmedIn, OpportunityOf
  <2> QED
    BY <2>1, <2>2
<1> QED
  BY <1>3, <1>4, <1>5

LEMMA CreateStep ==
  ASSUME IInv, NEW o \in Opportunities, NEW c \in Capacities \cup {Unlimited},
         NEW d \in Deadlines, Create(o, c, d)
  PROVE  IInv'
<1> DEFINE row == Opportunity("DRAFT", c, d, {})
<1>1. row \in OpportunityRow
  BY MadeOpportunity DEF OpportunityStatus, Seats
<1>2. opportunity' = [opportunity EXCEPT ![o] = row] /\ opportunity[o] = NoRow
  BY DEF Create
<1>3. UNCHANGED <<application, participation, people>> /\ UNCHANGED <<lock, tx>>
      /\ now' \in Times
  BY DEF Create, IInv, TypeOK
<1>4. ASSUME NEW r \in Request, Found(r) PROVE ~ (r.op = "submit" /\ r.opportunity = o)
  BY <1>2, <1>4 DEF Found
<1> HIDE DEF row
<1>5. /\ RowsOK' /\ FoundKept
      /\ \A r \in Request, n \in Seats :
           /\ Stands(r, n)
           /\ r.op = "submit" /\ r.opportunity = o => row.status = "PUBLISHED"
           => Stands(r, n)'
  BY <1>1, <1>2, <1>3, OpportunityWritten
<1>6. \A r \in Request, n \in Seats : Found(r) /\ Stands(r, n) => Stands(r, n)'
  BY <1>4, <1>5
<1> QED
  BY <1>3, <1>5, <1>6, OutsideStep

LEMMA UpdateStep ==
  ASSUME IInv, NEW o \in Opportunities, NEW c \in Capacities \cup {Unlimited},
         NEW d \in Deadlines, Update(o, c, d)
  PROVE  IInv'
<1> DEFINE row == Opportunity(opportunity[o].status, c, d, opportunity[o].starts)
<1>1. opportunity[o] \in OpportunityRow
  BY DEF Update, IInv, RowsOK, RowsTyped
<1>2. row \in OpportunityRow /\ row.status = opportunity[o].status
  BY <1>1, OpportunityFields, MadeOpportunity DEF Seats
<1>3. opportunity' = [opportunity EXCEPT ![o] = row]
  BY DEF Update, IInv, TypeOK
<1>4. UNCHANGED <<application, participation, people>> /\ UNCHANGED <<lock, tx>>
      /\ now' \in Times
  BY DEF Update, IInv, TypeOK
<1> HIDE DEF row
<1>5. /\ RowsOK' /\ FoundKept
      /\ \A r \in Request, n \in Seats :
           /\ Stands(r, n)
           /\ r.op = "submit" /\ r.opportunity = o => row.status = "PUBLISHED"
           => Stands(r, n)'
  BY <1>2, <1>3, <1>4, OpportunityWritten
<1>6. \A r \in Request, n \in Seats : Found(r) /\ Stands(r, n) => Stands(r, n)'
  BY <1>2, <1>5 DEF Stands
<1> QED
  BY <1>4, <1>5, <1>6, OutsideStep

\* What a handler knows of itself when it writes.
LEMMA WriterKnows ==
  ASSUME IInv, NEW q \in Requests, tx[q].phase = "writing"
  PROVE  /\ tx[q].request \in Request /\ tx[q].seats \in Seats
         /\ Found(tx[q].request) /\ Stands(tx[q].request, tx[q].seats)
         /\ lock[OpportunityOf(tx[q].request)] = q
         /\ OpportunityOf(tx[q].request) \in Opportunities
<1>1. tx[q].request \in Request /\ tx[q].seats \in Seats
  BY HandlerFields DEF IInv, TypeOK
<1>2. /\ Found(tx[q].request) /\ Stands(tx[q].request, tx[q].seats)
      /\ lock[OpportunityOf(tx[q].request)] = q
  BY <1>1 DEF IInv, RequestsFound, WritersStand, LockHeld
<1> QED
  BY <1>1, <1>2, FoundOpportunity DEF IInv, RowsOK

\* A write of the opportunity whose lock the writer holds.
LEMMA LockedOpportunityStep ==
  ASSUME IInv, NEW q \in Requests, NEW o \in Opportunities, lock[o] = q,
         NEW row \in OpportunityRow, opportunity' = [opportunity EXCEPT ![o] = row],
         UNCHANGED <<application, participation, people, now>>, Ends(q)
  PROVE  IInv'
<1>1. /\ RowsOK' /\ FoundKept
      /\ \A r \in Request, n \in Seats :
           /\ Stands(r, n)
           /\ r.op = "submit" /\ r.opportunity = o => row.status = "PUBLISHED"
           => Stands(r, n)'
  BY OpportunityWritten
<1>2. StandsKept(q)
  BY <1>1 DEF StandsKept, OpportunityOf
<1> QED
  BY <1>1, <1>2, EndStep

LEMMA SessionStep ==
  ASSUME IInv, NEW q \in Requests, CommitSession(q)
  PROVE  IInv'
<1> DEFINE r == tx[q].request
           o == r.opportunity
           row == Opportunity(opportunity[o].status, opportunity[o].capacity,
                              opportunity[o].deadline, opportunity[o].starts \cup {r.start})
<1>1. r \in Request /\ r.op = "addSession" /\ Found(r) /\ lock[OpportunityOf(r)] = q
  BY WriterKnows DEF CommitSession, Writing
<1>2. o \in Opportunities /\ r.start \in Times /\ lock[o] = q /\ opportunity[o] # NoRow
  BY <1>1, RequestFields DEF OpportunityOf, Found
<1>3. opportunity[o] \in OpportunityRow
  BY <1>2 DEF IInv, RowsOK, RowsTyped
<1>4. row \in OpportunityRow
  BY <1>2, <1>3, OpportunityFields, MadeOpportunity
<1>5. opportunity' = [opportunity EXCEPT ![o] = row] /\ Ends(q)
      /\ UNCHANGED <<application, participation, people, now>>
  BY DEF CommitSession
<1> HIDE DEF o, row
<1> QED
  BY <1>2, <1>4, <1>5, LockedOpportunityStep

LEMMA TransitionStep ==
  ASSUME IInv, NEW q \in Requests, CommitTransition(q)
  PROVE  IInv'
<1> DEFINE r == tx[q].request
           o == r.opportunity
           row == Opportunity(TargetOf(r.op), opportunity[o].capacity,
                              opportunity[o].deadline, opportunity[o].starts)
<1>1. r \in Request /\ r.op \in {"publish", "close"} /\ Found(r)
      /\ lock[OpportunityOf(r)] = q
  BY WriterKnows DEF CommitTransition, Writing
<1>2. o \in Opportunities /\ lock[o] = q /\ opportunity[o] # NoRow
  BY <1>1, RequestFields DEF OpportunityOf, Found
<1>3. opportunity[o] \in OpportunityRow
  BY <1>2 DEF IInv, RowsOK, RowsTyped
<1>4. row \in OpportunityRow
  BY <1>3, OpportunityFields, MadeOpportunity DEF TargetOf, OpportunityStatus
<1>5. opportunity' = [opportunity EXCEPT ![o] = row] /\ Ends(q)
      /\ UNCHANGED <<application, participation, people, now>>
  BY DEF CommitTransition
<1> HIDE DEF o, row
<1> QED
  BY <1>2, <1>4, <1>5, LockedOpportunityStep

-----------------------------------------------------------------------------
(* Writes of applications.                                                  *)

LEMMA SubmitStep ==
  ASSUME IInv, NEW q \in Requests, CommitSubmit(q)
  PROVE  IInv'
<1> DEFINE r == tx[q].request
           o == r.opportunity
           row == [opportunity |-> o, contact |-> r.contact, status |-> "PENDING",
                   person |-> NoPerson]
<1>1. /\ r \in Request /\ r.op = "submit" /\ Found(r) /\ lock[OpportunityOf(r)] = q
      /\ Stands(r, tx[q].seats)
  BY WriterKnows DEF CommitSubmit, Writing
<1>2. /\ o \in Opportunities /\ r.contact \in ContactSets /\ lock[o] = q
      /\ ~ Duplicate(o, r.contact) /\ opportunity[o] # NoRow
  BY <1>1, RequestFields DEF OpportunityOf, Stands, Found
<1>3. PICK a \in Applications :
        application[a] = NoRow /\ application' = [application EXCEPT ![a] = row]
  BY DEF CommitSubmit
<1>4. /\ row \in ApplicationRow /\ row.opportunity = o /\ row.contact = r.contact
      /\ row.status = "PENDING"
  BY <1>2 DEF ApplicationRow
<1>5. Ends(q) /\ UNCHANGED <<opportunity, participation, people, now>>
  BY DEF CommitSubmit
<1> DEFINE contact == r.contact
<1>6. row.contact = contact /\ ~ Duplicate(o, contact)
  BY <1>2, <1>4
<1> HIDE DEF row, o, contact
<1>7. RowsTyped /\ ApprovedTakePart /\ OneLiveApplication
  BY DEF IInv, RowsOK
<1>8. \A x \in Applications : application'[x] = IF x = a THEN row ELSE application[x]
  BY <1>3, <1>7 DEF RowsTyped
<1>9. RowsTyped' /\ ParentsThere'
  <2>1. ParentsThere
    BY DEF IInv, RowsOK
  <2> QED
    BY <1>2, <1>3, <1>4, <1>5, <1>7, <1>8, <2>1 DEF RowsTyped, ParentsThere
<1>10. ApprovedTakePart'
  <2>1. \A x \in participation : x.application \in Applications /\ x.application # a
    BY <1>3, <1>7, ParticipationFields DEF RowsTyped, ApprovedTakePart
  <2> QED
    BY <1>4, <1>5, <1>7, <1>8, <2>1 DEF ApprovedTakePart
<1>11. ASSUME NEW x \in Applications, x # a, application[x] # NoRow,
              application[x].opportunity = o, application[x].status # "REJECTED"
       PROVE  application[x].contact \cap row.contact = {}
  <2>1. application[x].status \in {"PENDING", "APPROVED"}
    BY <1>7, <1>11, ApplicationFields DEF RowsTyped
  <2> QED
    BY <1>6, <1>11, <2>1 DEF Duplicate
<1>12. OneLiveApplication'
  <2> SUFFICES ASSUME NEW x \in Applications, NEW y \in Applications, x # y,
                      application'[x] # NoRow, application'[y] # NoRow,
                      application'[x].opportunity = application'[y].opportunity,
                      application'[x].status # "REJECTED", application'[y].status # "REJECTED"
               PROVE  application'[x].contact \cap application'[y].contact = {}
    BY DEF OneLiveApplication
  <2>1. CASE x = a
    BY <1>4, <1>8, <1>11, <2>1
  <2>2. CASE y = a
    BY <1>4, <1>8, <1>11, <2>2
  <2>3. CASE x # a /\ y # a
    BY <1>7, <1>8, <2>3 DEF OneLiveApplication
  <2> QED
    BY <2>1, <2>2, <2>3
<1>13. FoundKept
  BY <1>3, <1>5, <1>8, RequestFields DEF FoundKept, Found, OpportunityOf
<1>14. StandsKept(q)
  <2> SUFFICES ASSUME NEW s \in Request, NEW n \in Seats, Found(s), Stands(s, n),
                      lock[OpportunityOf(s)] # q
               PROVE  Stands(s, n)'
    BY DEF StandsKept
  <2>1. OpportunityOf(s) # o /\ OpportunityOf(s)' = OpportunityOf(s)
    BY <1>2, <1>13 DEF FoundKept
  <2>2. CASE s.op = "submit"
    <3>1. s.opportunity # o
      BY <2>1, <2>2 DEF OpportunityOf
    <3> QED
      BY <1>4, <1>5, <1>8, <2>2, <3>1 DEF Stands, Duplicate
  <2>3. CASE s.op # "submit"
    BY <1>5, <2>1, <2>3 DEF Stands, ConfirmedIn
  <2> QED
    BY <2>2, <2>3
<1> QED
  BY <1>5, <1>9, <1>10, <1>12, <1>13, <1>14, EndStep DEF RowsOK

\* What the decision of a pending application leaves as it was.
LEMMA ReviewWritten ==
  ASSUME IInv, NEW a \in Applications, application[a] # NoRow, NEW row \in ApplicationRow,
         application[a].status = "PENDING",
         row.opportunity = application[a].opportunity, row.contact = application[a].contact,
         application' = [application EXCEPT ![a] = row], opportunity' = opportunity
  PROVE  /\ application' \in [Applications -> ApplicationRow \cup {NoRow}]
         /\ \A x \in Applications : application'[x] = IF x = a THEN row ELSE application[x]
         /\ OneLiveApplication' /\ ParentsThere' /\ FoundKept
         /\ \A x \in participation : x.application # a
         /\ \A s \in Request, n \in Seats : s.op # "approve" /\ Stands(s, n) => Stands(s, n)'
<1>1. RowsTyped /\ ApprovedTakePart /\ OneLiveApplication
  BY DEF IInv, RowsOK
<1>2. \A x \in Applications : application'[x] = IF x = a THEN row ELSE application[x]
  BY <1>1 DEF RowsTyped
<1>3. application' \in [Applications -> ApplicationRow \cup {NoRow}]
  BY <1>1 DEF RowsTyped
<1>4. OneLiveApplication' /\ ParentsThere'
  <2>1. ParentsThere
    BY DEF IInv, RowsOK
  <2> QED
    BY <1>1, <1>2, <2>1 DEF OneLiveApplication, ParentsThere
<1>5. row # NoRow
  BY ApplicationFields
<1>6. FoundKept
  BY <1>2, <1>5, RequestFields DEF FoundKept, Found, OpportunityOf
<1>7. \A x \in participation : x.application # a
  BY <1>1 DEF ApprovedTakePart
<1>8. \A o \in Opportunities, c \in ContactSets : Duplicate(o, c)' => Duplicate(o, c)
  BY <1>2 DEF Duplicate
<1>9. ASSUME NEW s \in Request, NEW n \in Seats, s.op # "approve", Stands(s, n)
      PROVE  Stands(s, n)'
  BY <1>8, <1>9, RequestFields DEF Stands
<1> QED
  BY <1>2, <1>3, <1>4, <1>6, <1>7, <1>9

LEMMA RejectStep ==
  ASSUME IInv, NEW q \in Requests, CommitReject(q)
  PROVE  IInv'
<1> DEFINE r == tx[q].request
           a == r.application
           row == Rejected(application[a])
<1>1. r \in Request /\ r.op = "reject" /\ Found(r)
  BY WriterKnows DEF CommitReject, Writing
<1>2. a \in Applications /\ application[a] # NoRow
  BY <1>1, RequestFields DEF Found
<1>3. application[a] \in ApplicationRow
  BY <1>2 DEF IInv, RowsOK, RowsTyped
<1>4. /\ row \in ApplicationRow /\ row.opportunity = application[a].opportunity
      /\ row.contact = application[a].contact /\ row.status = "REJECTED"
  BY <1>3, ApplicationFields DEF Rejected, ApplicationRow
<1>5. /\ application[a].status = "PENDING" /\ Ends(q)
      /\ application' = [application EXCEPT ![a] = row]
      /\ UNCHANGED <<opportunity, participation, people, now>>
  BY DEF CommitReject, Claimable
<1> HIDE DEF a, row
<1>6. /\ application' \in [Applications -> ApplicationRow \cup {NoRow}]
      /\ \A x \in Applications : application'[x] = IF x = a THEN row ELSE application[x]
      /\ OneLiveApplication' /\ ParentsThere' /\ FoundKept
      /\ \A x \in participation : x.application # a
      /\ \A s \in Request, n \in Seats : s.op # "approve" /\ Stands(s, n) => Stands(s, n)'
  BY <1>2, <1>4, <1>5, ReviewWritten
<1>7. RowsTyped /\ ApprovedTakePart
  BY DEF IInv, RowsOK
<1>8. ApprovedTakePart'
  <2>1. \A x \in participation : x.application \in Applications
    BY <1>7, ParticipationFields DEF RowsTyped
  <2> QED
    BY <1>4, <1>5, <1>6, <1>7, <2>1 DEF ApprovedTakePart
<1>9. RowsOK'
  BY <1>5, <1>6, <1>7, <1>8 DEF RowsOK, RowsTyped
<1>10. ASSUME NEW s \in Request, NEW n \in Seats, s.op = "approve", Found(s), Stands(s, n)
       PROVE  Stands(s, n)'
  <2>1. OpportunityOf(s)' = OpportunityOf(s)
    BY <1>6, <1>10 DEF FoundKept
  <2> QED
    BY <1>5, <1>10, <2>1 DEF Stands, ConfirmedIn
<1>11. StandsKept(q)
  BY <1>6, <1>10 DEF StandsKept
<1> QED
  BY <1>5, <1>6, <1>9, <1>11, EndStep

LEMMA ApproveStep ==
  ASSUME IInv, NEW q \in Requests, CommitApprove(q)
  PROVE  IInv'
<1> DEFINE r == tx[q].request
           a == r.application
           o == application[a].opportunity
<1>1. r \in Request /\ r.op = "approve" /\ Found(r) /\ lock[OpportunityOf(r)] = q
  BY WriterKnows DEF CommitApprove, Writing
<1>2. a \in Applications /\ application[a] # NoRow /\ OpportunityOf(r) = o /\ lock[o] = q
  BY <1>1, RequestFields DEF Found, OpportunityOf
<1>3. application[a] \in ApplicationRow
  BY <1>2 DEF IInv, RowsOK, RowsTyped
<1>4. PICK p \in Persons :
        /\ UniqueParticipation(a, o, p)
        /\ people' = people \cup {p}
        /\ application' = [application EXCEPT ![a] = Approved(application[a], p)]
        /\ participation' = participation \cup
             {[application |-> a, opportunity |-> o, person |-> p]}
  BY <1>2 DEF CommitApprove, Approvable
<1> DEFINE row == Approved(application[a], p)
           seat == [application |-> a, opportunity |-> o, person |-> p]
<1>5. /\ row \in ApplicationRow /\ row.opportunity = o
      /\ row.contact = application[a].contact /\ row.status = "APPROVED" /\ row.person = p
  BY <1>3, ApplicationFields DEF Approved, ApplicationRow
<1>6. /\ seat \in ParticipationRow /\ seat.application = a /\ seat.opportunity = o
      /\ seat.person = p
  BY <1>2, <1>3, ApplicationFields DEF ParticipationRow
<1>7. /\ application[a].status = "PENDING" /\ Ends(q)
      /\ application' = [application EXCEPT ![a] = row]
      /\ participation' = participation \cup {seat}
      /\ UNCHANGED <<opportunity, now>>
  BY <1>4 DEF CommitApprove, Claimable
<1>8. seat = [application |-> a, opportunity |-> o, person |-> p]
  OBVIOUS
<1> HIDE DEF a, row, seat
<1>9. row.opportunity = application[a].opportunity
  BY <1>5
<1> HIDE DEF o
<1>10. /\ application' \in [Applications -> ApplicationRow \cup {NoRow}]
       /\ \A x \in Applications : application'[x] = IF x = a THEN row ELSE application[x]
       /\ OneLiveApplication' /\ ParentsThere' /\ FoundKept
       /\ \A x \in participation : x.application # a
       /\ \A s \in Request, n \in Seats : s.op # "approve" /\ Stands(s, n) => Stands(s, n)'
  BY <1>2, <1>5, <1>7, <1>9, ReviewWritten
<1>11. RowsTyped /\ ApprovedTakePart
  BY DEF IInv, RowsOK
<1>12. RowsTyped'
  BY <1>4, <1>6, <1>7, <1>10, <1>11 DEF RowsTyped
<1>13. \A x \in participation : x.application \in Applications /\ x \in ParticipationRow
  BY <1>11, ParticipationFields DEF RowsTyped
<1>14. ApprovedTakePart'
  <2>1. ASSUME NEW x \in Applications, application'[x] # NoRow,
               application'[x].status = "APPROVED"
        PROVE  [application |-> x, opportunity |-> application'[x].opportunity,
                person |-> application'[x].person] \in participation'
    <3>1. CASE x = a
      BY <1>5, <1>7, <1>8, <1>10, <3>1
    <3>2. CASE x # a
      BY <1>7, <1>10, <1>11, <2>1, <3>2 DEF ApprovedTakePart
    <3> QED
      BY <3>1, <3>2
  <2>2. ASSUME NEW x \in participation'
        PROVE  /\ application'[x.application] # NoRow
               /\ application'[x.application].status = "APPROVED"
               /\ application'[x.application].opportunity = x.opportunity
               /\ application'[x.application].person = x.person
    <3>1. CASE x = seat
      BY <1>2, <1>5, <1>6, <1>10, <3>1, ApplicationFields
    <3>2. CASE x \in participation
      BY <1>10, <1>11, <1>13, <3>2 DEF ApprovedTakePart
    <3> QED
      BY <1>7, <3>1, <3>2
  <2>3. ASSUME NEW x \in participation', NEW y \in participation',
               x.opportunity = y.opportunity, x.person = y.person
        PROVE  x = y
    <3>1. \A z \in participation : ~ (z.opportunity = o /\ z.person = p)
      BY <1>4 DEF UniqueParticipation
    <3>2. CASE x \in participation /\ y \in participation
      BY <1>11, <2>3, <3>2 DEF ApprovedTakePart
    <3>3. CASE x = seat \/ y = seat
      BY <1>6, <1>7, <2>3, <3>1, <3>3
    <3> QED
      BY <1>7, <3>2, <3>3
  <2> QED
    BY <2>1, <2>2, <2>3 DEF ApprovedTakePart
<1>15. ASSUME NEW s \in Request, NEW n \in Seats, s.op = "approve", Found(s), Stands(s, n),
              lock[OpportunityOf(s)] # q
       PROVE  Stands(s, n)'
  <2>1. OpportunityOf(s)' = OpportunityOf(s) /\ OpportunityOf(s) # o
    BY <1>2, <1>10, <1>15 DEF FoundKept
  <2>2. {x \in participation' : x.opportunity = OpportunityOf(s)}
          = {x \in participation : x.opportunity = OpportunityOf(s)}
    BY <1>6, <1>7, <2>1
  <2> QED
    BY <1>15, <2>1, <2>2 DEF Stands, ConfirmedIn
<1>16. StandsKept(q)
  BY <1>10, <1>15 DEF StandsKept
<1> QED
  BY <1>7, <1>10, <1>12, <1>14, <1>16, EndStep DEF RowsOK

-----------------------------------------------------------------------------
(* The steps that write no row.                                             *)

LEMMA Unmoved ==
  ASSUME IInv, UNCHANGED <<opportunity, application, participation, people>>,
         NEW q \in Requests
  PROVE  RowsOK' /\ FoundKept /\ StandsKept(q)
         /\ \A r \in Request, n \in Seats : Stands(r, n) => Stands(r, n)'
<1>1. UNCHANGED rows
  BY DEF rows
<1> QED
  BY <1>1, RowsUnchanged DEF StandsKept

LEMMA ArriveStep ==
  ASSUME IInv, NEW q \in Requests, NEW r \in Request, Arrive(q, r)
  PROVE  IInv'
<1> DEFINE h == Handler("waiting", r, Unlimited)
<1>1. h \in HandlerState
  BY OtherHandlers
<1>2. /\ tx' = [tx EXCEPT ![q] = h] /\ Found(r)
      /\ UNCHANGED <<opportunity, application, participation, people>>
      /\ lock' = lock /\ now' \in Times
  BY DEF Arrive, IInv, TypeOK
<1>3. h.phase = "waiting" /\ h.request = r
  BY DEF Handler
<1>4. LocksKept(q)
  BY <1>2 DEF LocksKept, IInv, TypeOK
<1> HIDE DEF h
<1>5. RowsOK' /\ FoundKept /\ StandsKept(q)
  BY <1>2, Unmoved
<1> QED
  BY <1>1, <1>2, <1>3, <1>4, <1>5, HandlerStep

LEMMA AcquireStep ==
  ASSUME IInv, NEW q \in Requests, Acquire(q)
  PROVE  IInv'
<1> DEFINE r == tx[q].request
           o == OpportunityOf(r)
           h == Handler("locked", r, Unlimited)
<1>1. r \in Request /\ Found(r)
  BY HandlerFields DEF Acquire, IInv, TypeOK, RequestsFound
<1>2. h \in HandlerState /\ o \in Opportunities
  BY <1>1, OtherHandlers, FoundOpportunity DEF IInv, RowsOK
<1>3. /\ tx' = [tx EXCEPT ![q] = h] /\ lock[o] = Nobody /\ lock' = [lock EXCEPT ![o] = q]
      /\ UNCHANGED <<opportunity, application, participation, people>> /\ now' \in Times
  BY DEF Acquire, IInv, TypeOK
<1>4. h.phase = "locked" /\ h.request = r
  BY DEF Handler
<1> HIDE DEF h
<1>5. LocksKept(q) /\ lock'[o] = q
  BY <1>2, <1>3, VolunteeringAssumption DEF LocksKept, IInv, TypeOK
<1>6. RowsOK' /\ FoundKept /\ StandsKept(q)
  BY <1>3, Unmoved
<1> HIDE DEF r
<1> QED
  BY <1>1, <1>2, <1>3, <1>4, <1>5, <1>6, HandlerStep

LEMMA CheckStep ==
  ASSUME IInv, NEW q \in Requests, Check(q)
  PROVE  IInv'
<1> DEFINE r == tx[q].request
           n == SeatsSeen(r)
<1>1. r \in Request /\ Found(r) /\ lock[OpportunityOf(r)] = q /\ Allowed(r)
  BY HandlerFields DEF Check, IInv, TypeOK, RequestsFound, LockHeld
<1>2. OpportunityOf(r) \in Opportunities
  BY <1>1, FoundOpportunity DEF IInv, RowsOK
<1>3. n \in Seats /\ Stands(r, n)
  <2> DEFINE o == OpportunityOf(r)
  <2>1. CASE r.op = "approve"
    <3>1. n = opportunity[o].capacity /\ HasRoom(o)
      BY <1>1, <2>1 DEF SeatsSeen, Allowed, ApproveAllowed, OpportunityOf
    <3>2. n # Unlimited => Cardinality(ConfirmedIn(o)) < n
      BY <3>1 DEF HasRoom
    <3>3. Stands(r, n)
      BY <2>1, <3>2 DEF Stands
    <3>4. opportunity[o] # NoRow
      BY <1>1, <2>1, RequestFields DEF IInv, RowsOK, ParentsThere, Found, OpportunityOf
    <3>5. opportunity[o] \in OpportunityRow
      BY <1>2, <3>4 DEF IInv, RowsOK, RowsTyped
    <3> QED
      BY <3>1, <3>3, <3>5, OpportunityFields
  <2>2. CASE r.op # "approve"
    BY <1>1, <2>2 DEF Allowed, SubmitAllowed, Stands, SeatsSeen, Seats
  <2> QED
    BY <2>1, <2>2
<1>4. PICK s \in Request, k \in Seats : s = r /\ k = n
  BY <1>1, <1>3
<1> DEFINE h == Handler("writing", s, k)
<1>5. /\ tx' = [tx EXCEPT ![q] = h]
      /\ UNCHANGED <<opportunity, application, participation, people>>
      /\ lock' = lock /\ now' \in Times
  BY <1>4 DEF Check, IInv, TypeOK
<1>6. h \in HandlerState /\ h.phase = "writing" /\ h.request = s /\ h.seats = k
  BY OtherHandlers DEF Handler
<1>7. LocksKept(q)
  BY <1>5 DEF LocksKept, IInv, TypeOK
<1> HIDE DEF h, n, r
<1>8. /\ RowsOK' /\ FoundKept /\ StandsKept(q)
      /\ Stands(s, k) => Stands(s, k)'
  BY <1>5, Unmoved
<1>9. Found(s) /\ lock'[OpportunityOf(s)] = q /\ Stands(s, k)'
  BY <1>1, <1>3, <1>4, <1>5, <1>8
<1>10. Stands(h.request, h.seats)'
  BY <1>6, <1>9
<1> QED
  BY <1>5, <1>6, <1>7, <1>8, <1>9, <1>10, HandlerStep

\* The transaction ends and none of its writes stays.
LEMMA EmptyEnd ==
  ASSUME IInv, NEW q \in Requests, Refuse(q) \/ Lose(q) \/ WriteFails(q)
  PROVE  IInv'
<1>1. /\ UNCHANGED <<opportunity, application, participation, people>>
      /\ now' = now /\ Ends(q)
  BY DEF Refuse, Lose, WriteFails
<1> QED
  BY <1>1, Unmoved, EndStep

LEMMA TickStep ==
  ASSUME IInv, Tick
  PROVE  IInv'
<1>1. UNCHANGED rows /\ UNCHANGED <<lock, tx>>
  BY DEF Tick, rows
<1>2. now' \in Times
  BY VolunteeringAssumption DEF Tick, IInv, TypeOK, Times
<1> QED
  BY <1>1, <1>2, RowsUnchanged, OutsideStep

-----------------------------------------------------------------------------
LEMMA InitHolds == Init => IInv
<1> SUFFICES ASSUME Init PROVE IInv
  OBVIOUS
<1>1. 0 \in Times
  BY VolunteeringAssumption DEF Times
<1>2. TypeOK
  BY <1>1, IdleHandler, VolunteeringAssumption DEF Init, TypeOK
<1>3. RowsOK
  BY VolunteeringAssumption
     DEF Init, RowsOK, RowsTyped, ParentsThere, ApprovedTakePart, OneLiveApplication
<1>4. RequestsFound /\ LockHeld /\ WritersStand
  BY IdleHandler DEF Init, RequestsFound, LockHeld, WritersStand
<1> QED
  BY <1>2, <1>3, <1>4 DEF IInv

LEMMA Inductive == IInv /\ [Next]_vars => IInv'
<1> SUFFICES ASSUME IInv, [Next]_vars PROVE IInv'
  OBVIOUS
<1>1. ASSUME NEW o \in Opportunities, NEW c \in Capacities \cup {Unlimited},
             NEW d \in Deadlines, Create(o, c, d) \/ Update(o, c, d)
      PROVE  IInv'
  BY <1>1, CreateStep, UpdateStep
<1>2. ASSUME NEW q \in Requests, NEW r \in Request, Arrive(q, r) PROVE IInv'
  BY <1>2, ArriveStep
<1>3. ASSUME NEW q \in Requests, Acquire(q) PROVE IInv'
  BY <1>3, AcquireStep
<1>4. ASSUME NEW q \in Requests, Lose(q) PROVE IInv'
  BY <1>4, EmptyEnd
<1>5. ASSUME NEW q \in Requests, Proceed(q) PROVE IInv'
  <2>1. ASSUME Refuse(q) \/ WriteFails(q) PROVE IInv'
    BY <2>1, EmptyEnd
  <2>2. ASSUME Check(q) PROVE IInv'
    BY <2>2, CheckStep
  <2>3. ASSUME CommitSession(q) PROVE IInv'
    BY <2>3, SessionStep
  <2>4. ASSUME CommitTransition(q) PROVE IInv'
    BY <2>4, TransitionStep
  <2>5. ASSUME CommitSubmit(q) PROVE IInv'
    BY <2>5, SubmitStep
  <2>6. ASSUME CommitApprove(q) PROVE IInv'
    BY <2>6, ApproveStep
  <2>7. ASSUME CommitReject(q) PROVE IInv'
    BY <2>7, RejectStep
  <2> QED
    BY <1>5, <2>1, <2>2, <2>3, <2>4, <2>5, <2>6, <2>7 DEF Proceed
<1>6. ASSUME Tick PROVE IInv'
  BY <1>6, TickStep
<1>7. ASSUME UNCHANGED vars PROVE IInv'
  <2>1. UNCHANGED rows /\ UNCHANGED <<lock, tx>> /\ now' \in Times
    BY <1>7 DEF vars, rows, IInv, TypeOK
  <2> QED
    BY <2>1, RowsUnchanged, OutsideStep
<1> QED
  BY <1>1, <1>2, <1>3, <1>4, <1>5, <1>6, <1>7 DEF Next

LEMMA Holds == Spec => []IInv
BY InitHolds, Inductive, PTL DEF Spec

\* Rows, locks and handlers keep the shapes the two services give them.
THEOREM TypeCorrect == Spec => []TypeOK
<1>1. IInv => TypeOK
  BY DEF IInv
<1> QED
  BY <1>1, Holds, PTL

\* approve counts the participations, then writes: pg_advisory_xact_lock keeps
\* the seat free in between, even for a capacity edited by update, without it.
THEOREM SeatsStayFree == Spec => []SeatsAreFree
<1>1. ASSUME IInv PROVE SeatsAreFree
  <2> SUFFICES ASSUME NEW q \in Requests, Writing(q, "approve"), tx[q].seats # Unlimited
               PROVE  Cardinality(ConfirmedIn(OpportunityOf(tx[q].request))) < tx[q].seats
    BY DEF SeatsAreFree
  <2>1. tx[q].phase = "writing" /\ tx[q].request.op = "approve"
    BY DEF Writing
  <2>2. Stands(tx[q].request, tx[q].seats)
    BY <1>1, <2>1, WriterKnows
  <2> QED
    BY <2>1, <2>2 DEF Stands
<1> QED
  BY <1>1, Holds, PTL

\* Reviews that race leave an approved application with its one participation,
\* and no participation without its approved application.
THEOREM ApprovalsTakePart == Spec => []ApprovedTakePart
<1>1. IInv => ApprovedTakePart
  BY DEF IInv, RowsOK
<1> QED
  BY <1>1, Holds, PTL

\* Submissions are told apart by the duplicate check under the lock.
THEOREM LiveApplicationIsOne == Spec => []OneLiveApplication
<1>1. IInv => OneLiveApplication
  BY DEF IInv, RowsOK
<1> QED
  BY <1>1, Holds, PTL

LEMMA ReceivedStep ==
  ASSUME IInv, [Next]_vars, NEW a \in Applications,
         application[a] = NoRow, application'[a] # NoRow
  PROVE  opportunity[application'[a].opportunity].status = "PUBLISHED"
<1>1. application' # application
  OBVIOUS
<1>2. application \in [Applications -> ApplicationRow \cup {NoRow}]
  BY DEF IInv, TypeOK
<1>3. PICK q \in Requests : CommitSubmit(q) \/ CommitApprove(q) \/ CommitReject(q)
  BY <1>1 DEF vars, Next, Proceed, Create, Update, Arrive, Acquire, Lose, Tick, Refuse, Check,
     CommitSession, CommitTransition, WriteFails
<1>4. CASE CommitSubmit(q)
  <2> DEFINE r == tx[q].request
  <2>1. r.op = "submit" /\ Stands(r, tx[q].seats)
    BY <1>4, WriterKnows DEF CommitSubmit, Writing
  <2>2. opportunity[r.opportunity].status = "PUBLISHED"
    BY <2>1 DEF Stands
  <2>3. PICK x \in Applications :
          application' = [application EXCEPT ![x] =
            [opportunity |-> r.opportunity, contact |-> r.contact,
             status |-> "PENDING", person |-> NoPerson]]
    BY <1>4 DEF CommitSubmit
  <2> HIDE DEF r
  <2>4. x = a
    BY <1>2, <2>3
  <2>5. application'[a].opportunity = r.opportunity
    BY <1>2, <2>3, <2>4
  <2> QED
    BY <2>2, <2>5
<1>5. CASE CommitApprove(q) \/ CommitReject(q)
  <2> DEFINE x == tx[q].request.application
  <2>1. application[x] # NoRow
    BY <1>5, WriterKnows DEF CommitApprove, CommitReject, Writing, Found
  <2>2. \A y \in Applications : y # x => application'[y] = application[y]
    BY <1>2, <1>5 DEF CommitApprove, CommitReject
  <2> QED
    BY <2>1, <2>2
<1> QED
  BY <1>3, <1>4, <1>5

\* submit waits for the lock behind a closing and then refuses.
THEOREM ReceptionIsOpen == Spec => ReceivedWhileOpen
<1>1. IInv /\ [Next]_vars =>
        [\A a \in Applications :
           application[a] = NoRow /\ application'[a] # NoRow =>
             opportunity[application'[a].opportunity].status = "PUBLISHED"]_vars
  BY ReceivedStep
<1> QED
  BY <1>1, Holds, PTL DEF Spec, ReceivedWhileOpen
=============================================================================
