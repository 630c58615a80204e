------------------------- MODULE ReservationsProofs -------------------------
(* Proofs about Reservations for every number of handlers, resources, rows, *)
(* slots and attempts.                                                     *)
EXTENDS ReservationRefinement, TLAPS

\* The half-open test of the blocking query is exact: two legal ranges of a
\* resource overlap when they share an hour of it, and only then, so bookings
\* back to back never exclude each other.
THEOREM OverlapIsAnHour ==
  ASSUME NEW r \in Resources, NEW s \in LegalSlots, NEW t \in LegalSlots
  PROVE  Overlaps(s, t) <=> Hours(r, s) \cap Hours(r, t) # {}
<1>1. /\ s.startAt \in Nat /\ s.endAt \in Nat /\ t.startAt \in Nat /\ t.endAt \in Nat
      /\ s.startAt < s.endAt /\ t.startAt < t.endAt
  BY SlotsAssumption, HoursAssumption DEF LegalSlots
<1>2. ASSUME Overlaps(s, t)
      PROVE  Hours(r, s) \cap Hours(r, t) # {}
  <2> DEFINE h == IF s.startAt < t.startAt THEN t.startAt ELSE s.startAt
  <2>1. h \in s.startAt .. (s.endAt - 1) /\ h \in t.startAt .. (t.endAt - 1)
    BY <1>1, <1>2 DEF Overlaps
  <2>2. <<r, h>> \in Hours(r, s) /\ <<r, h>> \in Hours(r, t)
    BY <2>1 DEF Hours
  <2> QED
    BY <2>2
<1>3. ASSUME NEW c \in Hours(r, s) \cap Hours(r, t)
      PROVE  Overlaps(s, t)
  <2>1. PICK h \in s.startAt .. (s.endAt - 1) : c = <<r, h>>
    BY <1>3 DEF Hours
  <2>2. PICK k \in t.startAt .. (t.endAt - 1) : c = <<r, k>>
    BY <1>3 DEF Hours
  <2>3. h = k
    BY <2>1, <2>2
  <2>4. h \in Nat /\ s.startAt <= h /\ h < s.endAt /\ t.startAt <= h /\ h < t.endAt
    BY <2>1, <2>2, <2>3, <1>1
  <2> QED
    BY <1>1, <2>4 DEF Overlaps
<1> QED
  BY <1>2, <1>3

\* A handler is idle, waits with a request and no work, or is open with both.
LEMMA HandlerCases ==
  ASSUME TypeOK, NEW q \in Requests
  PROVE  /\ tx[q].phase = "waiting" => tx[q] \in Waiting
         /\ tx[q].phase = "open" => tx[q] \in Open
         /\ tx[q].phase \notin {"waiting", "open"} => tx[q] = Idle
         /\ tx[q] \in Handler
<1>1. tx[q] \in Handler
  BY DEF TypeOK
<1>2. CASE tx[q] = Idle
  BY <1>1, <1>2 DEF Idle
<1>3. CASE tx[q] \in Waiting
  <2>1. tx[q].phase = "waiting"
    BY <1>3 DEF Waiting
  <2> QED
    BY <1>1, <1>3, <2>1
<1>4. CASE tx[q] \in Open
  <2>1. tx[q].phase = "open"
    BY <1>4 DEF Open
  <2> QED
    BY <1>1, <1>4, <2>1
<1> QED
  BY <1>1, <1>2, <1>3, <1>4 DEF Handler

\* The work a handler starts is well formed when its checks have passed.
LEMMA WorkTyped ==
  ASSUME TypeOK, NEW r \in Request, Allowed(r), ChargeFollowsReservation
  PROVE  WorkOf(r) \in Work
<1>1. CASE r.op = "create"
  <2>1. r.resource \in Resources /\ r.slot \in LegalSlots
    BY <1>1 DEF Request, Allowed, CreateAllowed, TimeRangeOk, LegalSlots
  <2> QED
    BY <1>1, <2>1 DEF WorkOf, Work
<1>2. CASE r.op \in {"approve", "reject", "cancel", "pay"}
  <2>1. r.id \in Ids
    BY <1>2 DEF Request
  <2>2. reservation[r.id] # NoRow
    BY <1>2, <2>1 DEF Allowed, ApproveAllowed, RejectAllowed, CancelAllowed,
                      PayAllowed, ChargeFollowsReservation
  <2>3. reservation[r.id] \in ReservationRow
    BY <2>1, <2>2 DEF TypeOK
  <2>4. PendingAmount(r.id) \in Nat
    BY <2>1 DEF TypeOK, ChargeRow, PendingAmount
  <2>5. resource[reservation[r.id].resource].price \in Nat
    BY <2>3 DEF TypeOK, ReservationRow, Tariff
  <2>6. r.op = "pay" => r.amount \in Nat
    BY AmountsAssumption DEF Request
  <2>7. WorkOf(r).amount \in Nat
    BY <1>2, <2>4, <2>5, <2>6 DEF WorkOf
  <2> QED
    BY <1>2, <2>1, <2>3, <2>7 DEF WorkOf, Work, ReservationRow
<1> QED
  BY <1>1, <1>2 DEF Request

\* What the properties say of the rows, as one conjunction.
\* The blocking query's own view of NoDoubleBooking: no two blocking
\* reservations of a resource have ranges that Overlaps relates.
SlotsApart ==
  \A i, j \in Ids :
    /\ i # j
    /\ Blocks(i) /\ Blocks(j)
    /\ reservation[i].resource = reservation[j].resource
    => ~ Overlaps(reservation[i].slot, reservation[j].slot)

RowsOK == SlotsApart /\ ChargeFollowsReservation /\ PaidOnce
            /\ LedgerMatchesPayments

\* The inductive invariant.  The properties of the rows survive a commit only
\* because an undoomed transaction is current, and it stays current only
\* because every commit dooms the transactions it conflicts with.
IInv == TypeOK /\ RowsOK /\ UndoomedIsCurrent

\* Steps that write no reservation, charge, payment or movement.
LEMMA RowsUnchanged ==
  ASSUME RowsOK, UNCHANGED <<reservation, charge, payment, movement>>
  PROVE  RowsOK'
BY DEF RowsOK, SlotsApart, ChargeFollowsReservation, PaidOnce,
       LedgerMatchesPayments, Blocks

\* What one handler's claim to be current says, and when it is unchanged.
Current(w) ==
  /\ w.op = "create" => Available(w.resource, w.slot, NoRow)
  /\ w.op \in {"approve", "reject", "cancel"} => reservation[w.id] # NoRow
  /\ w.op \in {"approve", "reject"} => reservation[w.id].status = "PENDING"
  /\ w.op = "cancel" =>
       /\ "CANCELLED" \in allowedTransitions[reservation[w.id].status]
       /\ charge[w.id] # NoRow => charge[w.id].status # "PAID"
       /\ w.amount = PendingAmount(w.id)
  /\ w.op = "pay" => charge[w.id] = [amount |-> w.amount, status |-> "PENDING"]

LEMMA CurrentIff ==
  UndoomedIsCurrent <=>
    \A q \in Requests : tx[q].phase = "open" /\ ~ tx[q].doomed => Current(tx[q].work)
BY DEF UndoomedIsCurrent, Current

LEMMA CurrentIffPrime ==
  UndoomedIsCurrent' <=>
    \A q \in Requests :
      tx'[q].phase = "open" /\ ~ tx'[q].doomed => Current(tx[q].work)'
BY DEF UndoomedIsCurrent, Current

Decisions == {"approve", "reject", "cancel"}

\* A decision stays current while its rows stay.
LEMMA DecisionKept ==
  ASSUME NEW x, x.op \in Decisions, Current(x),
         reservation'[x.id] = reservation[x.id], charge'[x.id] = charge[x.id]
  PROVE  Current(x)'
<1>1. PendingAmount(x.id)' = PendingAmount(x.id)
  BY DEF PendingAmount
<1>2. x.op \notin {"create", "pay"}
  BY DEF Decisions
<1> QED
  BY <1>1, <1>2 DEF Current

LEMMA StatusChanged ==
  ASSUME NEW row \in ReservationRow, NEW status \in ReservationStatus, NEW new,
         new = [row EXCEPT !.status = status]
  PROVE  /\ new \in ReservationRow /\ new # NoRow /\ new.status = status
         /\ new.resource = row.resource /\ new.slot = row.slot
BY NoRowAssumption DEF ReservationRow

LEMMA OnePaymentPerCharge ==
  ASSUME PaidOnce, NEW o \in Payments, NEW p \in Payments, o # p,
         payment[o] # NoRow, payment[p] # NoRow
  PROVE  payment[o].charge # payment[p].charge
BY DEF PaidOnce

\* A commit leaves every handler well formed, and an open handler it has not
\* doomed is another one, untouched, that does not conflict with it.
LEMMA CommittedFrame ==
  ASSUME TypeOK, NEW q \in Requests, tx[q].phase = "open", Committed(q)
  PROVE  /\ tx' \in [Requests -> Handler]
         /\ \A p \in Requests :
              tx'[p].phase = "open" /\ ~ tx'[p].doomed =>
                /\ p # q
                /\ tx'[p] = tx[p]
                /\ tx[p].phase = "open" /\ ~ tx[p].doomed
                /\ tx[p].work \in Work
                /\ ~ Conflict(Footprint(tx[p].work), Footprint(tx[q].work))
<1>1. ASSUME NEW p \in Requests
      PROVE  /\ tx'[p] \in Handler
             /\ tx'[p].phase = "open" /\ ~ tx'[p].doomed =>
                /\ p # q
                /\ tx'[p] = tx[p]
                /\ tx[p].phase = "open" /\ ~ tx[p].doomed
                /\ tx[p].work \in Work
                /\ ~ Conflict(Footprint(tx[p].work), Footprint(tx[q].work))
  <2>1. CASE p = q
    <3>1. tx'[p] = Idle
      BY <2>1 DEF Committed
    <3>2. tx'[p].phase # "open"
      BY <3>1 DEF Idle
    <3>3. tx'[p] \in Handler
      BY <3>1 DEF Handler
    <3> QED
      BY <3>2, <3>3
  <2>2. CASE /\ p # q /\ tx[p].phase = "open"
             /\ Conflict(Footprint(tx[p].work), Footprint(tx[q].work))
    <3>1. tx'[p] = [tx[p] EXCEPT !.doomed = TRUE]
      BY <2>2 DEF Committed
    <3>2. tx[p] \in Open
      BY <2>2, HandlerCases
    <3>3. tx'[p] \in Open /\ tx'[p].doomed
      BY <3>1, <3>2 DEF Open
    <3>4. tx'[p] \in Handler
      BY <3>3 DEF Handler
    <3> QED
      BY <3>3, <3>4
  <2>3. CASE /\ p # q
             /\ ~ (/\ tx[p].phase = "open"
                   /\ Conflict(Footprint(tx[p].work), Footprint(tx[q].work)))
    <3>1. tx'[p] = tx[p]
      BY <2>3 DEF Committed
    <3>2. tx[p].phase = "open" => tx[p].work \in Work
      BY HandlerCases DEF Open
    <3> QED
      BY <2>3, <3>1, <3>2, HandlerCases
  <2> QED
    BY <2>1, <2>2, <2>3
<1>2. tx' = [p \in Requests |-> tx'[p]]
  BY DEF Committed
<1> QED
  BY <1>1, <1>2

\* The open transaction of a handler that may commit is current.
LEMMA CommitterIsCurrent ==
  ASSUME IInv, NEW q \in Requests, NEW op, MayCommit(q, op)
  PROVE  /\ tx[q].phase = "open"
         /\ tx[q].work \in Work
         /\ tx[q].work.op = op
         /\ Current(tx[q].work)
<1>1. tx[q] \in Open
  BY HandlerCases DEF IInv, MayCommit
<1> QED
  BY <1>1, CurrentIff DEF IInv, MayCommit, Open

\* Two transactions that book overlapping slots of one resource conflict.
LEMMA CreatesConflict ==
  ASSUME NEW v \in Work, NEW w \in Work, v.op = "create", w.op = "create",
         v.resource = w.resource, Overlaps(w.slot, v.slot)
  PROVE  Conflict(Footprint(v), Footprint(w))
<1>1. /\ v.resource \in Resources /\ v.slot \in LegalSlots /\ w.slot \in LegalSlots
  BY DEF Work
<1>2. Hours(v.resource, w.slot) \cap Hours(v.resource, v.slot) # {}
  BY <1>1, OverlapIsAnHour
<1>3. /\ Reads(v) = Hours(v.resource, v.slot) /\ Marks(v) = Hours(v.resource, v.slot)
      /\ Reads(w) = Hours(v.resource, w.slot) /\ Marks(w) = Hours(v.resource, w.slot)
  BY DEF Reads, Marks
<1> QED
  BY <1>2, <1>3 DEF Conflict, Footprint, Writes

LEMMA CreateStep ==
  ASSUME IInv, NEW q \in Requests, CommitCreate(q)
  PROVE  IInv'
<1> DEFINE w == tx[q].work
           new == [resource |-> w.resource, slot |-> w.slot, status |-> "PENDING"]
<1> USE DEF IInv
<1>1. /\ tx[q].phase = "open" /\ w \in Work /\ w.op = "create"
      /\ Available(w.resource, w.slot, NoRow)
  BY CommitterIsCurrent DEF CommitCreate, Current
<1>2. PICK i \in Ids : /\ reservation[i] = NoRow
                      /\ reservation' = [reservation EXCEPT ![i] = new]
  BY DEF CommitCreate
<1>3. /\ UNCHANGED <<now, resource, charge, payment, movement>>
      /\ Committed(q)
  BY DEF CommitCreate
<1>4. new \in ReservationRow /\ new # NoRow
  BY <1>1, NoRowAssumption DEF Work, ReservationRow, ReservationStatus
<1>5. /\ reservation'[i] = new
      /\ \A j \in Ids \ {i} : reservation'[j] = reservation[j]
  BY <1>2 DEF TypeOK
<1>6. charge[i] = NoRow
  BY <1>2 DEF RowsOK, ChargeFollowsReservation
<1>7. TypeOK'
  <2>1. reservation' \in [Ids -> ReservationRow \cup {NoRow}]
    BY <1>2, <1>4 DEF TypeOK
  <2> QED
    BY <2>1, <1>1, <1>3, CommittedFrame DEF TypeOK
<1>8. SlotsApart'
  <2> SUFFICES ASSUME NEW a \in Ids, NEW b \in Ids, a # b, Blocks(a)', Blocks(b)',
                      reservation'[a].resource = reservation'[b].resource
               PROVE  ~ Overlaps(reservation'[a].slot, reservation'[b].slot)
    BY DEF SlotsApart
  <2>1. \A j \in Ids \ {i} : Blocks(j)' => Blocks(j)
    BY <1>5 DEF Blocks
  <2>2. ASSUME NEW j \in Ids \ {i}, Blocks(j), reservation[j].resource = w.resource
        PROVE  /\ ~ Overlaps(reservation[j].slot, w.slot)
               /\ ~ Overlaps(w.slot, reservation[j].slot)
    <3>1. reservation[j] # NoRow
      BY <2>2 DEF Blocks
    <3>2. ~ Overlaps(reservation[j].slot, w.slot)
      BY <1>1, <2>2, NoRowAssumption DEF Available
    <3> QED
      BY <3>2 DEF Overlaps
  <2>3. CASE a = i
    BY <1>5, <2>1, <2>2, <2>3
  <2>4. CASE b = i
    BY <1>5, <2>1, <2>2, <2>4
  <2>5. CASE a # i /\ b # i
    BY <1>5, <2>1, <2>5 DEF RowsOK, SlotsApart
  <2> QED
    BY <2>3, <2>4, <2>5
<1>9. ChargeFollowsReservation'
  BY <1>3, <1>5, <1>6 DEF RowsOK, ChargeFollowsReservation
<1>10. PaidOnce' /\ LedgerMatchesPayments'
  BY <1>3 DEF RowsOK, PaidOnce, LedgerMatchesPayments
<1>11. UndoomedIsCurrent'
  <2> SUFFICES ASSUME NEW p \in Requests, tx'[p].phase = "open", ~ tx'[p].doomed
               PROVE  Current(tx[p].work)'
    BY CurrentIffPrime
  <2> DEFINE v == tx[p].work
  <2>1. /\ tx'[p] = tx[p] /\ v \in Work /\ Current(v)
        /\ ~ Conflict(Footprint(v), Footprint(w))
    BY <1>1, <1>3, CommittedFrame, CurrentIff
  <2>2. CASE v.op = "create"
    <3>1. ~ (w.resource = v.resource /\ Overlaps(w.slot, v.slot))
      BY <1>1, <2>1, <2>2, CreatesConflict
    <3>2. Available(v.resource, v.slot, NoRow)'
      BY <1>5, <2>1, <2>2, <3>1 DEF Current, Available, Blocks
    <3> QED
      BY <2>1, <2>2, <3>2 DEF Current
  <2>3. CASE v.op # "create"
    <3>1. v.id \in Ids /\ v.op \in {"approve", "reject", "cancel", "pay"}
      BY <2>1, <2>3 DEF Work
    <3>2. v.op = "pay" => charge[v.id] # NoRow
      BY <2>1, <3>1, NoRowAssumption DEF Current, TypeOK, ChargeRow, ChargeStatus, Work
    <3>3. reservation[v.id] # NoRow
      BY <2>1, <3>1, <3>2 DEF Current, RowsOK, ChargeFollowsReservation
    <3>4. v.id # i /\ reservation'[v.id] = reservation[v.id]
      BY <1>2, <1>5, <3>1, <3>3
    <3> QED
      BY <1>3, <2>1, <2>3, <3>4 DEF Current, PendingAmount
  <2> QED
    BY <2>2, <2>3
<1> QED
  BY <1>7, <1>8, <1>9, <1>10, <1>11 DEF RowsOK

\* Two decisions on one reservation update the same row, and so do two
\* transactions that write the charge of one reservation.
LEMMA DecisionsConflict ==
  ASSUME NEW v \in Work, NEW w \in Work, v.op \in Decisions, w.op \in Decisions,
         v.id = w.id
  PROVE  Conflict(Footprint(v), Footprint(w))
<1>1. ReservationKey(v.id) \in Rows(v) /\ ReservationKey(v.id) \in Rows(w)
  BY DEF Rows, Decisions
<1> QED
  BY <1>1 DEF Conflict, Footprint

LEMMA ChargeWritersConflict ==
  ASSUME NEW v \in Work, NEW w \in Work, v.id = w.id,
         v.op = "pay" \/ (v.op \in Decisions /\ v.amount > 0),
         w.op = "pay" \/ (w.op \in Decisions /\ w.amount > 0)
  PROVE  Conflict(Footprint(v), Footprint(w))
<1>1. ChargeKey(v.id) \in Rows(v) /\ ChargeKey(v.id) \in Rows(w)
  BY DEF Rows, Decisions
<1> QED
  BY <1>1 DEF Conflict, Footprint

\* A decision that moves reservation i and perhaps its charge, the only rows
\* it writes, keeps the invariant when the rows it leaves are right.
LEMMA DecisionStep ==
  ASSUME IInv, NEW q \in Requests, tx[q].phase = "open", tx[q].work \in Work,
         tx[q].work.op \in Decisions, Current(tx[q].work), Committed(q),
         NEW i \in Ids, i = tx[q].work.id,
         UNCHANGED <<now, resource, payment, movement>>,
         NEW status \in ReservationStatus,
         reservation' = [reservation EXCEPT ![i].status = status],
         charge' \in [Ids -> ChargeRow \cup {NoRow}],
         \A j \in Ids \ {i} : charge'[j] = charge[j],
         tx[q].work.amount = 0 => charge' = charge,
         reservation[i].status \in BLOCKING_STATUSES,
         charge[i] = NoRow \/ charge[i].status # "PAID",
         charge'[i] # NoRow =>
           /\ charge'[i].amount > 0
           /\ charge'[i].status \in {"PENDING", "PAID"} => status = "APPROVED"
           /\ charge'[i].status = "CANCELLED" => status = "CANCELLED"
           /\ charge'[i].status # "PAID",
         charge[i] # NoRow /\ charge[i].status = "PENDING" => tx[q].work.amount > 0
  PROVE  IInv'
<1> DEFINE w == tx[q].work
<1> USE DEF IInv
<1>1. reservation[i] # NoRow /\ reservation[i] \in ReservationRow
  BY DEF Current, Decisions, TypeOK
<1>2. /\ reservation'[i] \in ReservationRow /\ reservation'[i] # NoRow
      /\ reservation'[i].status = status
      /\ reservation'[i].resource = reservation[i].resource
      /\ reservation'[i].slot = reservation[i].slot
      /\ \A j \in Ids \ {i} : reservation'[j] = reservation[j]
  <2>1. /\ reservation'[i] = [reservation[i] EXCEPT !.status = status]
        /\ \A j \in Ids \ {i} : reservation'[j] = reservation[j]
    BY DEF TypeOK
  <2>2. PICK row \in ReservationRow : row = reservation[i]
    BY <1>1
  <2>3. PICK new : new = [row EXCEPT !.status = status]
    OBVIOUS
  <2>4. /\ new \in ReservationRow /\ new # NoRow /\ new.status = status
        /\ new.resource = row.resource /\ new.slot = row.slot
    BY <2>3, StatusChanged
  <2>5. reservation'[i] = new
    BY <2>1, <2>2, <2>3
  <2> QED
    BY <2>1, <2>2, <2>4, <2>5
<1>3. \A j \in Ids :
        /\ reservation[j] # NoRow =>
             /\ reservation'[j] # NoRow
             /\ reservation'[j].resource = reservation[j].resource
             /\ reservation'[j].slot = reservation[j].slot
        /\ Blocks(j)' => Blocks(j)
  <2>1. Blocks(i)
    BY <1>1 DEF Blocks
  <2> QED
    BY <1>1, <1>2, <2>1 DEF Blocks
<1>4. TypeOK'
  <2>1. reservation' \in [Ids -> ReservationRow \cup {NoRow}]
    BY <1>2 DEF TypeOK
  <2> QED
    BY <2>1, CommittedFrame DEF TypeOK
<1>5. SlotsApart'
  <2> SUFFICES ASSUME NEW a \in Ids, NEW b \in Ids, a # b, Blocks(a)', Blocks(b)',
                      reservation'[a].resource = reservation'[b].resource
               PROVE  ~ Overlaps(reservation'[a].slot, reservation'[b].slot)
    BY DEF SlotsApart
  <2>1. Blocks(a) /\ Blocks(b)
    BY <1>3 DEF Blocks
  <2>2. reservation[a] # NoRow /\ reservation[b] # NoRow
    BY <2>1 DEF Blocks
  <2>3. ~ Overlaps(reservation[a].slot, reservation[b].slot)
    BY <1>3, <2>1, <2>2 DEF RowsOK, SlotsApart
  <2> QED
    BY <1>3, <2>2, <2>3
<1>6. ChargeFollowsReservation'
  <2> SUFFICES ASSUME NEW j \in Ids, charge'[j] # NoRow
               PROVE  /\ reservation'[j] # NoRow
                      /\ charge'[j].amount > 0
                      /\ charge'[j].status \in {"PENDING", "PAID"}
                           => reservation'[j].status = "APPROVED"
                      /\ charge'[j].status = "CANCELLED"
                           => reservation'[j].status = "CANCELLED"
    BY DEF ChargeFollowsReservation
  <2>1. CASE j = i
    BY <1>2, <2>1
  <2>2. CASE j # i
    <3>1. charge'[j] = charge[j] /\ reservation'[j] = reservation[j]
      BY <1>2, <2>2
    <3> QED
      BY <3>1 DEF RowsOK, ChargeFollowsReservation
  <2> QED
    BY <2>1, <2>2
<1>7. PaidOnce'
  <2>1. \A p \in Payments : payment[p] # NoRow => payment[p].charge \in Ids \ {i}
    <3> SUFFICES ASSUME NEW p \in Payments, payment[p] # NoRow
                 PROVE  payment[p].charge \in Ids \ {i}
      OBVIOUS
    <3>1. payment[p] \in PaymentRow
      BY DEF TypeOK
    <3>2. charge[payment[p].charge] = [amount |-> payment[p].amount, status |-> "PAID"]
      BY DEF RowsOK, PaidOnce
    <3>3. charge[payment[p].charge] \in ChargeRow
      BY <3>1, <3>2 DEF PaymentRow, ChargeRow, ChargeStatus
    <3>4. charge[payment[p].charge] # NoRow /\ charge[payment[p].charge].status = "PAID"
      BY <3>2, <3>3, NoRowAssumption
    <3> QED
      BY <3>1, <3>4 DEF PaymentRow
  <2> QED
    BY <2>1 DEF RowsOK, PaidOnce
<1>8. LedgerMatchesPayments'
  BY DEF RowsOK, LedgerMatchesPayments
<1>9. UndoomedIsCurrent'
  <2> SUFFICES ASSUME NEW p \in Requests, tx'[p].phase = "open", ~ tx'[p].doomed
               PROVE  Current(tx[p].work)'
    BY CurrentIffPrime
  <2> DEFINE v == tx[p].work
  <2>1. /\ tx'[p] = tx[p] /\ v \in Work /\ Current(v)
        /\ ~ Conflict(Footprint(v), Footprint(w))
    BY CommittedFrame, CurrentIff
  <2>2. CASE v.op = "create"
    <3>1. Available(v.resource, v.slot, NoRow)'
      <4> SUFFICES ASSUME NEW j \in Ids \ {NoRow}, Blocks(j)'
                   PROVE  ~ (/\ reservation'[j].resource = v.resource
                             /\ Overlaps(reservation'[j].slot, v.slot))
        BY <2>1 DEF Available
      <4>1. Blocks(j) /\ reservation[j] # NoRow
        BY <1>3 DEF Blocks
      <4>2. ~ (reservation[j].resource = v.resource /\ Overlaps(reservation[j].slot, v.slot))
        BY <2>1, <2>2, <4>1 DEF Current, Available
      <4> QED
        BY <1>3, <4>1, <4>2
    <3> QED
      BY <2>1, <2>2, <3>1 DEF Current
  <2>3. CASE v.op \in Decisions
    <3>1. v.id \in Ids
      BY <2>1, <2>3 DEF Work, Decisions
    <3>2. v.id # i
      BY <2>1, <2>3, DecisionsConflict
    <3>3. reservation'[v.id] = reservation[v.id] /\ charge'[v.id] = charge[v.id]
      BY <1>2, <3>1, <3>2
    <3>4. tx'[p].work = v /\ Current(v)
      BY <2>1
    <3>5. PICK x : x = v
      OBVIOUS
    <3>6. Current(x)'
      BY <2>3, <3>3, <3>4, <3>5, DecisionKept
    <3> QED
      BY <3>4, <3>5, <3>6 DEF Current
  <2>4. CASE v.op = "pay"
    <3>1. v.id \in Ids
      BY <2>1, <2>4 DEF Work
    <3>2. charge[v.id] = [amount |-> v.amount, status |-> "PENDING"]
      BY <2>1, <2>4 DEF Current
    <3>3. charge[v.id] # NoRow
      BY <2>1, <3>2, NoRowAssumption DEF Work, ChargeRow, ChargeStatus
    <3>4. v.id # i
      BY <2>1, <2>4, <3>2, <3>3, ChargeWritersConflict
    <3> QED
      BY <2>1, <2>4, <3>1, <3>2, <3>4 DEF Current
  <2> QED
    BY <2>1, <2>2, <2>3, <2>4 DEF Work, Decisions
<1> QED
  BY <1>4, <1>5, <1>6, <1>7, <1>8, <1>9 DEF RowsOK

LEMMA ApproveStep ==
  ASSUME IInv, NEW q \in Requests, CommitApprove(q)
  PROVE  IInv'
<1> DEFINE w == tx[q].work
<1> USE DEF IInv
<1>1. /\ tx[q].phase = "open" /\ w \in Work /\ w.op = "approve" /\ Current(w)
  BY CommitterIsCurrent DEF CommitApprove
<1>2. /\ w.id \in Ids /\ reservation[w.id] # NoRow
      /\ reservation[w.id].status = "PENDING" /\ w.amount \in Nat
  BY <1>1 DEF Work, Current
<1>3. charge[w.id] = NoRow
  <2>1. charge[w.id] # NoRow => charge[w.id] \in ChargeRow
    BY <1>2 DEF TypeOK
  <2> QED
    BY <1>2, <2>1 DEF RowsOK, ChargeFollowsReservation, ChargeRow, ChargeStatus
<1>4. charge' \in [Ids -> ChargeRow \cup {NoRow}]
  BY <1>2 DEF CommitApprove, TypeOK, ChargeRow, ChargeStatus
<1>5. /\ w.amount = 0 => charge' = charge
      /\ w.amount > 0 => charge'[w.id] = [amount |-> w.amount, status |-> "PENDING"]
      /\ \A j \in Ids \ {w.id} : charge'[j] = charge[j]
  BY <1>2 DEF CommitApprove, TypeOK
<1> QED
  BY <1>1, <1>2, <1>3, <1>4, <1>5, DecisionStep
     DEF CommitApprove, Decisions, ReservationStatus, BLOCKING_STATUSES

LEMMA RejectStep ==
  ASSUME IInv, NEW q \in Requests, CommitReject(q)
  PROVE  IInv'
<1> DEFINE w == tx[q].work
<1> USE DEF IInv
<1>1. /\ tx[q].phase = "open" /\ w \in Work /\ w.op = "reject" /\ Current(w)
  BY CommitterIsCurrent DEF CommitReject
<1>2. /\ w.id \in Ids /\ reservation[w.id] # NoRow
      /\ reservation[w.id].status = "PENDING"
  BY <1>1 DEF Work, Current
<1>3. charge[w.id] = NoRow
  <2>1. charge[w.id] # NoRow => charge[w.id] \in ChargeRow
    BY <1>2 DEF TypeOK
  <2> QED
    BY <1>2, <2>1 DEF RowsOK, ChargeFollowsReservation, ChargeRow, ChargeStatus
<1> QED
  BY <1>1, <1>2, <1>3, DecisionStep
     DEF CommitReject, TypeOK, Decisions, ReservationStatus, BLOCKING_STATUSES

LEMMA CancelStep ==
  ASSUME IInv, NEW q \in Requests, CommitCancel(q)
  PROVE  IInv'
<1> DEFINE w == tx[q].work
<1> USE DEF IInv
<1>1. /\ tx[q].phase = "open" /\ w \in Work /\ w.op = "cancel" /\ Current(w)
  BY CommitterIsCurrent DEF CommitCancel
<1>2. /\ w.id \in Ids /\ reservation[w.id] # NoRow
      /\ reservation[w.id] \in ReservationRow
      /\ "CANCELLED" \in allowedTransitions[reservation[w.id].status]
      /\ charge[w.id] # NoRow => charge[w.id].status # "PAID"
      /\ w.amount = PendingAmount(w.id)
      /\ w.amount \in Nat
  BY <1>1 DEF Work, Current, TypeOK
<1>3. reservation[w.id].status \in BLOCKING_STATUSES
  BY <1>2 DEF ReservationRow, ReservationStatus, allowedTransitions, BLOCKING_STATUSES
<1>4. charge[w.id] # NoRow =>
        charge[w.id] \in ChargeRow /\ charge[w.id].amount > 0
  BY <1>2 DEF TypeOK, RowsOK, ChargeFollowsReservation
<1>5. charge[w.id] # NoRow /\ charge[w.id].status = "PENDING" <=> w.amount > 0
  BY <1>2, <1>4 DEF PendingAmount
<1>6. /\ w.amount = 0 => charge' = charge
      /\ w.amount > 0 => charge'[w.id] = [charge[w.id] EXCEPT !.status = "CANCELLED"]
      /\ \A j \in Ids \ {w.id} : charge'[j] = charge[j]
  BY <1>2 DEF CommitCancel, TypeOK
<1>7. w.amount > 0 =>
        /\ charge'[w.id] \in ChargeRow
        /\ charge'[w.id].status = "CANCELLED"
        /\ charge'[w.id].amount = charge[w.id].amount
  BY <1>4, <1>5, <1>6 DEF ChargeRow, ChargeStatus
<1>8. charge' \in [Ids -> ChargeRow \cup {NoRow}]
  BY <1>2, <1>6, <1>7 DEF CommitCancel, TypeOK
<1>9. charge'[w.id] # NoRow =>
        charge'[w.id].amount > 0 /\ charge'[w.id].status = "CANCELLED"
  BY <1>2, <1>4, <1>5, <1>6, <1>7 DEF ChargeRow, ChargeStatus
<1> QED
  BY <1>1, <1>2, <1>3, <1>5, <1>6, <1>8, <1>9, DecisionStep
     DEF CommitCancel, Decisions, ReservationStatus

LEMMA PayStep ==
  ASSUME IInv, NEW q \in Requests, CommitPay(q)
  PROVE  IInv'
<1> DEFINE w == tx[q].work
<1> USE DEF IInv
<1>1. /\ tx[q].phase = "open" /\ w \in Work /\ w.op = "pay" /\ Current(w)
      /\ Committed(q)
      /\ UNCHANGED <<now, resource, reservation>>
  BY CommitterIsCurrent DEF CommitPay
<1>2. /\ w.id \in Ids /\ w.amount \in Nat
      /\ charge[w.id] = [amount |-> w.amount, status |-> "PENDING"]
  BY <1>1 DEF Work, Current
<1>3. PICK p \in Payments, m \in Movements :
        /\ payment[p] = NoRow /\ movement[m] = NoRow
        /\ payment' = [payment EXCEPT ![p] = [charge |-> w.id, amount |-> w.amount,
                                              movement |-> m]]
        /\ movement' = [movement EXCEPT ![m] = [type |-> "INCOME",
                                                amount |-> w.amount, payment |-> p]]
  BY DEF CommitPay, PaymentMovement
<1>4. charge' = [charge EXCEPT ![w.id].status = "PAID"]
  BY DEF CommitPay
<1>5. /\ charge'[w.id] = [amount |-> w.amount, status |-> "PAID"]
      /\ charge[w.id] \in ChargeRow /\ charge'[w.id] \in ChargeRow
      /\ charge[w.id] # NoRow /\ charge'[w.id] # NoRow
      /\ \A j \in Ids \ {w.id} : charge'[j] = charge[j]
  BY <1>2, <1>4, NoRowAssumption DEF TypeOK, ChargeRow, ChargeStatus
<1>6. /\ payment'[p] = [charge |-> w.id, amount |-> w.amount, movement |-> m]
      /\ payment'[p] \in PaymentRow /\ payment'[p] # NoRow
      /\ \A o \in Payments \ {p} : payment'[o] = payment[o]
  BY <1>2, <1>3, NoRowAssumption DEF TypeOK, PaymentRow
<1>7. /\ movement'[m] = [type |-> "INCOME", amount |-> w.amount, payment |-> p]
      /\ movement'[m] \in MovementRow /\ movement'[m] # NoRow
      /\ \A n \in Movements \ {m} : movement'[n] = movement[n]
  BY <1>2, <1>3, NoRowAssumption DEF TypeOK, MovementRow
<1>8. TypeOK'
  <2>1. charge' \in [Ids -> ChargeRow \cup {NoRow}]
    BY <1>2, <1>4, <1>5 DEF TypeOK
  <2>2. payment' \in [Payments -> PaymentRow \cup {NoRow}]
    BY <1>3, <1>6 DEF TypeOK
  <2>3. movement' \in [Movements -> MovementRow \cup {NoRow}]
    BY <1>3, <1>7 DEF TypeOK
  <2> QED
    BY <1>1, <2>1, <2>2, <2>3, CommittedFrame DEF TypeOK
<1>9. SlotsApart'
  BY <1>1 DEF RowsOK, SlotsApart, Blocks
<1>10. ChargeFollowsReservation'
  BY <1>1, <1>2, <1>5 DEF RowsOK, ChargeFollowsReservation
<1>11. \A o \in Payments : payment[o] # NoRow => payment[o].charge \in Ids \ {w.id}
  <2> SUFFICES ASSUME NEW o \in Payments, payment[o] # NoRow
               PROVE  payment[o].charge \in Ids \ {w.id}
    OBVIOUS
  <2>1. payment[o].charge \in Ids
    BY DEF TypeOK, PaymentRow
  <2>2. charge[payment[o].charge] = [amount |-> payment[o].amount, status |-> "PAID"]
    BY DEF RowsOK, PaidOnce
  <2>3. charge[payment[o].charge].status = "PAID" /\ charge[w.id].status = "PENDING"
    BY <1>2, <2>2
  <2> QED
    BY <2>1, <2>3
<1>12. PaidOnce'
  <2>1. \A o \in Payments : payment'[o] # NoRow =>
          /\ charge'[payment'[o].charge] = [amount |-> payment'[o].amount, status |-> "PAID"]
          /\ \A x \in Payments \ {o} :
               payment'[x] # NoRow => payment'[x].charge # payment'[o].charge
    <3> SUFFICES ASSUME NEW o \in Payments, payment'[o] # NoRow
                 PROVE  /\ charge'[payment'[o].charge]
                              = [amount |-> payment'[o].amount, status |-> "PAID"]
                        /\ \A x \in Payments \ {o} :
                             payment'[x] # NoRow => payment'[x].charge # payment'[o].charge
      OBVIOUS
    <3>1. payment'[p].charge = w.id /\ payment'[p].amount = w.amount
      BY <1>6
    <3>2. CASE o = p
      BY <1>5, <1>6, <1>11, <3>1, <3>2
    <3>3. CASE o # p
      <4>1. payment'[o] = payment[o] /\ payment[o].charge \in Ids \ {w.id}
        BY <1>6, <1>11, <3>3
      <4>2. charge'[payment'[o].charge] = [amount |-> payment'[o].amount, status |-> "PAID"]
        BY <1>5, <4>1 DEF RowsOK, PaidOnce
      <4>3. ASSUME NEW x \in Payments \ {o}, payment'[x] # NoRow
            PROVE  payment'[x].charge # payment'[o].charge
        <5>1. CASE x = p
          BY <3>1, <4>1, <5>1
        <5>2. CASE x # p
          <6>1. payment'[x] = payment[x] /\ payment[x] # NoRow /\ payment[o] # NoRow
            BY <1>6, <4>1, <4>3, <5>2
          <6> QED
            BY <4>1, <6>1, OnePaymentPerCharge DEF RowsOK
        <5> QED
          BY <5>1, <5>2
      <4> QED
        BY <4>2, <4>3
    <3> QED
      BY <3>2, <3>3
  <2>2. \A i \in Ids : charge'[i] # NoRow /\ charge'[i].status = "PAID" =>
          \E o \in Payments : payment'[o] # NoRow /\ payment'[o].charge = i
    <3> SUFFICES ASSUME NEW i \in Ids, charge'[i] # NoRow, charge'[i].status = "PAID"
                 PROVE  \E o \in Payments : payment'[o] # NoRow /\ payment'[o].charge = i
      OBVIOUS
    <3>1. CASE i = w.id
      BY <1>6, <3>1
    <3>2. CASE i # w.id
      <4>1. PICK o \in Payments : payment[o] # NoRow /\ payment[o].charge = i
        BY <1>5, <3>2 DEF RowsOK, PaidOnce
      <4> QED
        BY <1>3, <1>6, <4>1
    <3> QED
      BY <3>1, <3>2
  <2> QED
    BY <2>1, <2>2 DEF PaidOnce
<1>13. LedgerMatchesPayments'
  <2>1. ASSUME NEW o \in Payments, payment'[o] # NoRow
        PROVE  movement'[payment'[o].movement] =
                 [type |-> "INCOME", amount |-> payment'[o].amount, payment |-> o]
    <3>1. CASE o = p
      BY <1>6, <1>7, <3>1
    <3>2. CASE o # p
      <4>1. /\ payment'[o] = payment[o] /\ payment[o] \in PaymentRow
            /\ movement[payment[o].movement] =
                 [type |-> "INCOME", amount |-> payment[o].amount, payment |-> o]
        BY <1>6, <2>1, <3>2 DEF TypeOK, RowsOK, LedgerMatchesPayments
      <4>2. [type |-> "INCOME", amount |-> payment[o].amount, payment |-> o] \in MovementRow
        BY <4>1 DEF PaymentRow, MovementRow
      <4>3. payment[o].movement # m /\ payment[o].movement \in Movements
        BY <1>3, <4>1, <4>2, NoRowAssumption DEF PaymentRow
      <4> QED
        BY <1>7, <4>1, <4>3
    <3> QED
      BY <3>1, <3>2
  <2>2. ASSUME NEW n \in Movements, movement'[n] # NoRow, movement'[n].payment # NoRow
        PROVE  /\ payment'[movement'[n].payment] # NoRow
               /\ payment'[movement'[n].payment].movement = n
    <3>1. CASE n = m
      BY <1>6, <1>7, <3>1
    <3>2. CASE n # m
      <4>1. /\ movement'[n] = movement[n] /\ movement[n] \in MovementRow
            /\ payment[movement[n].payment] # NoRow
            /\ payment[movement[n].payment].movement = n
        BY <1>7, <2>2, <3>2 DEF TypeOK, RowsOK, LedgerMatchesPayments
      <4>2. movement[n].payment \in Payments \ {p}
        BY <1>3, <2>2, <4>1 DEF MovementRow
      <4> QED
        BY <1>6, <4>1, <4>2
    <3> QED
      BY <3>1, <3>2
  <2> QED
    BY <2>1, <2>2 DEF LedgerMatchesPayments
<1>14. UndoomedIsCurrent'
  <2> SUFFICES ASSUME NEW x \in Requests, tx'[x].phase = "open", ~ tx'[x].doomed
               PROVE  Current(tx[x].work)'
    BY CurrentIffPrime
  <2> DEFINE v == tx[x].work
  <2>1. /\ tx'[x] = tx[x] /\ v \in Work /\ Current(v)
        /\ ~ Conflict(Footprint(v), Footprint(w))
    BY <1>1, CommittedFrame, CurrentIff
  <2>2. CASE v.op = "create"
    BY <1>1, <2>1, <2>2 DEF Current, Available, Blocks
  <2>3. CASE v.op \in {"approve", "reject"}
    BY <1>1, <2>1, <2>3 DEF Current
  <2>4. CASE v.op = "cancel"
    <3>1. v.id \in Ids /\ v.amount \in Nat
      BY <2>1, <2>4 DEF Work
    <3>2. charge[w.id].status = "PENDING" /\ charge[w.id].amount > 0
      BY <1>2, <1>5 DEF RowsOK, ChargeFollowsReservation
    <3>3. v.id # w.id
      <4> SUFFICES ASSUME v.id = w.id PROVE FALSE
        OBVIOUS
      <4>1. v.amount > 0
        BY <1>5, <2>1, <2>4, <3>2 DEF Current, PendingAmount
      <4> QED
        BY <1>1, <2>1, <2>4, <4>1, ChargeWritersConflict DEF Decisions
    <3>4. charge'[v.id] = charge[v.id]
      BY <1>5, <3>1, <3>3
    <3> QED
      BY <1>1, <2>1, <2>4, <3>4 DEF Current, PendingAmount
  <2>5. CASE v.op = "pay"
    <3>1. v.id \in Ids
      BY <2>1, <2>5 DEF Work
    <3>2. v.id # w.id
      BY <1>1, <2>1, <2>5, ChargeWritersConflict
    <3> QED
      BY <1>5, <2>1, <2>5, <3>1, <3>2 DEF Current
  <2> QED
    BY <2>1, <2>2, <2>3, <2>4, <2>5 DEF Work
<1> QED
  BY <1>8, <1>9, <1>10, <1>12, <1>13, <1>14 DEF RowsOK

\* What a handler reads when it begins makes its work current.
LEMMA BeginsCurrent ==
  ASSUME IInv, NEW r \in Request, Allowed(r)
  PROVE  Current(WorkOf(r))
<1> USE DEF IInv
<1>1. CASE r.op = "create"
  BY <1>1 DEF Allowed, CreateAllowed, WorkOf, Current
<1>2. CASE r.op = "approve"
  BY <1>2 DEF Allowed, ApproveAllowed, WorkOf, Current
<1>3. CASE r.op = "reject"
  BY <1>3 DEF Allowed, RejectAllowed, WorkOf, Current
<1>4. CASE r.op = "cancel"
  <2>1. WorkOf(r).amount = PendingAmount(r.id) /\ WorkOf(r).id = r.id
        /\ WorkOf(r).op = "cancel"
    BY <1>4 DEF WorkOf
  <2> QED
    BY <1>4, <2>1 DEF Allowed, CancelAllowed, Current
<1>5. CASE r.op = "pay"
  <2>1. r.id \in Ids /\ charge[r.id] \in ChargeRow
    BY <1>5 DEF Request, Allowed, PayAllowed, TypeOK
  <2>2. charge[r.id] = [amount |-> r.amount, status |-> "PENDING"]
    BY <1>5, <2>1 DEF Allowed, PayAllowed, ChargeRow
  <2>3. WorkOf(r).amount = r.amount /\ WorkOf(r).id = r.id /\ WorkOf(r).op = "pay"
    BY <1>5 DEF WorkOf
  <2> QED
    BY <1>5, <2>2, <2>3 DEF Current
<1> QED
  BY <1>1, <1>2, <1>3, <1>4, <1>5 DEF Request

LEMMA OpenByPhase ==
  ASSUME NEW h \in Handler, h.phase = "open"
  PROVE  h \in Open
<1>1. ASSUME h = Idle PROVE FALSE
  BY <1>1 DEF Idle
<1>2. ASSUME h \in Waiting PROVE FALSE
  BY <1>2 DEF Waiting
<1> QED
  BY <1>1, <1>2 DEF Handler

\* A step of one handler that writes no row.
LEMMA HandlerStep ==
  ASSUME IInv, NEW q \in Requests, NEW h \in Handler,
         h \in Open => Current(h.work),
         tx' = [tx EXCEPT ![q] = h], UNCHANGED <<now, db>>
  PROVE  IInv'
<1> USE DEF IInv
<1>1. UNCHANGED <<resource, reservation, charge, payment, movement>>
  BY DEF db
<1>2. TypeOK'
  BY <1>1 DEF TypeOK
<1>3. RowsOK'
  BY <1>1, RowsUnchanged
<1>4. UndoomedIsCurrent'
  <2> SUFFICES ASSUME NEW p \in Requests, tx'[p].phase = "open", ~ tx'[p].doomed
               PROVE  Current(tx[p].work)'
    BY CurrentIffPrime
  <2>1. CASE p = q
    <3>1. tx'[p] = h
      BY <2>1 DEF TypeOK
    <3>2. h \in Open
      BY <3>1, OpenByPhase
    <3>3. Current(h.work)
      BY <3>2
    <3> QED
      BY <1>1, <3>1, <3>3 DEF Current, Available, Blocks, PendingAmount
  <2>2. CASE p # q
    <3>1. tx'[p] = tx[p]
      BY <2>2 DEF TypeOK
    <3>2. Current(tx[p].work)
      BY <3>1, CurrentIff
    <3> QED
      BY <1>1, <3>1, <3>2 DEF Current, Available, Blocks, PendingAmount
  <2> QED
    BY <2>1, <2>2
<1> QED
  BY <1>2, <1>3, <1>4

LEMMA HandlerSteps ==
  ASSUME IInv, NEW q \in Requests
  PROVE  /\ \A r \in Request : Submit(q, r) => IInv'
         /\ Begin(q) => IInv'
         /\ Refuse(q) => IInv'
         /\ SerializationFailure(q) => IInv'
         /\ Lose(q) => IInv'
<1> USE DEF IInv
<1>0. Idle \in Handler /\ Idle \notin Open
  BY DEF Handler, Open, Idle
<1>1. ASSUME NEW r \in Request, Submit(q, r) PROVE IInv'
  <2> DEFINE h == [phase |-> "waiting", attempt |-> 1, request |-> r,
                   work |-> NoRow, doomed |-> FALSE]
  <2>1. h \in Waiting
    BY AttemptsAssumption DEF Waiting
  <2>2. h \in Handler /\ h \notin Open
    BY <2>1 DEF Handler, Waiting, Open
  <2>3. tx' = [tx EXCEPT ![q] = h] /\ UNCHANGED <<now, db>>
    BY <1>1 DEF Submit
  <2> HIDE DEF h
  <2> QED
    BY <2>2, <2>3, HandlerStep
<1>2. ASSUME Begin(q) PROVE IInv'
  <2> DEFINE h == [tx[q] EXCEPT !.phase = "open", !.doomed = FALSE,
                                !.work = WorkOf(tx[q].request)]
  <2>1. tx[q] \in Waiting /\ tx[q].request \in Request
    BY <1>2, HandlerCases DEF Begin, Waiting
  <2>2. WorkOf(tx[q].request) \in Work /\ Current(WorkOf(tx[q].request))
    BY <1>2, <2>1, WorkTyped, BeginsCurrent DEF Begin, RowsOK
  <2>3. h \in Open /\ h.work = WorkOf(tx[q].request)
    BY <2>1, <2>2 DEF Waiting, Open
  <2>4. h \in Handler /\ Current(h.work)
    BY <2>2, <2>3 DEF Handler
  <2>5. tx' = [tx EXCEPT ![q] = h] /\ UNCHANGED <<now, db>>
    BY <1>2 DEF Begin
  <2> HIDE DEF h
  <2> QED
    BY <2>4, <2>5, HandlerStep
<1>3. ASSUME Refuse(q) PROVE IInv'
  BY <1>0, <1>3, HandlerStep DEF Refuse
<1>4. ASSUME Lose(q) PROVE IInv'
  BY <1>0, <1>4, HandlerStep DEF Lose
<1>5. ASSUME SerializationFailure(q) PROVE IInv'
  <2> DEFINE h == [tx[q] EXCEPT !.phase = "waiting", !.work = NoRow,
                                !.doomed = FALSE, !.attempt = tx[q].attempt + 1]
  <2>1. tx[q] \in Open
    BY <1>5, HandlerCases DEF SerializationFailure
  <2>2. CASE tx[q].attempt = MaxAttempts
    BY <1>0, <1>5, <2>2, HandlerStep DEF SerializationFailure
  <2>3. CASE tx[q].attempt # MaxAttempts
    <3>0. tx[q].attempt + 1 \in 1 .. MaxAttempts
      BY <2>1, <2>3, AttemptsAssumption DEF Open
    <3>1. h \in Waiting
      BY <2>1, <3>0 DEF Open, Waiting
    <3>2. h \in Handler /\ h \notin Open
      BY <3>1 DEF Handler, Waiting, Open
    <3>3. tx' = [tx EXCEPT ![q] = h] /\ UNCHANGED <<now, db>>
      BY <1>5, <2>3 DEF SerializationFailure
    <3> HIDE DEF h
    <3> QED
      BY <3>2, <3>3, HandlerStep
  <2> QED
    BY <2>2, <2>3
<1> QED
  BY <1>1, <1>2, <1>3, <1>4, <1>5

\* Steps outside the handlers: the clock, the seed, and a manual movement,
\* which takes a row no payment points at.
LEMMA OtherSteps ==
  ASSUME IInv
  PROVE  /\ Tick => IInv'
         /\ \A r \in Resources : Seed(r) => IInv'
         /\ \A m \in Movements, type \in {"INCOME", "EXPENSE"}, a \in Amounts :
              CreateMovement(m, type, a) => IInv'
         /\ UNCHANGED vars => IInv'
<1> USE DEF IInv
<1>1. ASSUME UNCHANGED <<reservation, charge, payment, movement, tx>>, TypeOK'
      PROVE  IInv'
  BY <1>1, RowsUnchanged
     DEF UndoomedIsCurrent, Available, Blocks, PendingAmount
<1>2. ASSUME Tick PROVE IInv'
  BY <1>1, <1>2, HorizonAssumption DEF Tick, TypeOK, db
<1>3. ASSUME NEW r \in Resources, Seed(r) PROVE IInv'
  BY <1>1, <1>3, TariffsAssumption DEF Seed, TypeOK
<1>4. ASSUME UNCHANGED vars PROVE IInv'
  BY <1>1, <1>4 DEF vars, TypeOK
<1>5. ASSUME NEW m \in Movements, NEW type \in {"INCOME", "EXPENSE"},
             NEW a \in Amounts, CreateMovement(m, type, a)
      PROVE  IInv'
  <2> DEFINE row == [type |-> type, amount |-> a, payment |-> NoRow]
  <2>1. row \in MovementRow
    BY AmountsAssumption DEF MovementRow
  <2>2. /\ movement[m] = NoRow /\ movement'[m] = row
        /\ \A n \in Movements \ {m} : movement'[n] = movement[n]
        /\ UNCHANGED <<now, resource, reservation, charge, payment, tx>>
    BY <1>5 DEF CreateMovement, TypeOK
  <2>3. TypeOK'
    BY <1>5, <2>1, <2>2 DEF CreateMovement, TypeOK
  <2>4. LedgerMatchesPayments'
    <3>1. \A p \in Payments : payment[p] # NoRow =>
            payment[p].movement \in Movements \ {m}
      <4> SUFFICES ASSUME NEW p \in Payments, payment[p] # NoRow
                   PROVE  payment[p].movement \in Movements \ {m}
        OBVIOUS
      <4>1. payment[p] \in PaymentRow
        BY DEF TypeOK
      <4>2. [type |-> "INCOME", amount |-> payment[p].amount, payment |-> p] \in MovementRow
        BY <4>1 DEF PaymentRow, MovementRow
      <4> QED
        BY <2>2, <4>1, <4>2, NoRowAssumption DEF PaymentRow, RowsOK, LedgerMatchesPayments
    <3> QED
      BY <2>2, <3>1 DEF RowsOK, LedgerMatchesPayments
  <2>5. RowsOK'
    BY <2>2, <2>4 DEF RowsOK, SlotsApart, ChargeFollowsReservation, PaidOnce, Blocks
  <2>6. UndoomedIsCurrent'
    BY <2>2 DEF UndoomedIsCurrent, Available, Blocks, PendingAmount
  <2> QED
    BY <2>3, <2>5, <2>6
<1> QED
  BY <1>2, <1>3, <1>4, <1>5

LEMMA InitInvariant == Init => IInv
<1> SUFFICES ASSUME Init PROVE IInv
  OBVIOUS
<1>1. TypeOK
  BY TariffsAssumption, HorizonAssumption DEF Init, TypeOK, Handler
<1>2. RowsOK
  BY DEF Init, RowsOK, SlotsApart, ChargeFollowsReservation, PaidOnce,
         LedgerMatchesPayments, Blocks
<1>3. UndoomedIsCurrent
  BY DEF Init, UndoomedIsCurrent, Idle
<1> QED
  BY <1>1, <1>2, <1>3 DEF IInv

LEMMA NextInvariant == IInv /\ [Next]_vars => IInv'
<1> SUFFICES ASSUME IInv, [Next]_vars PROVE IInv'
  OBVIOUS
<1>1. ASSUME NEW q \in Requests, NEW r \in Request, Submit(q, r) PROVE IInv'
  BY <1>1, HandlerSteps
<1>2. ASSUME NEW q \in Requests,
             Begin(q) \/ Refuse(q) \/ SerializationFailure(q) \/ Lose(q)
      PROVE  IInv'
  BY <1>2, HandlerSteps
<1>3. ASSUME NEW q \in Requests, CommitCreate(q) PROVE IInv'
  BY <1>3, CreateStep
<1>4. ASSUME NEW q \in Requests, CommitApprove(q) PROVE IInv'
  BY <1>4, ApproveStep
<1>5. ASSUME NEW q \in Requests, CommitReject(q) PROVE IInv'
  BY <1>5, RejectStep
<1>6. ASSUME NEW q \in Requests, CommitCancel(q) PROVE IInv'
  BY <1>6, CancelStep
<1>7. ASSUME NEW q \in Requests, CommitPay(q) PROVE IInv'
  BY <1>7, PayStep
<1> QED
  BY <1>1, <1>2, <1>3, <1>4, <1>5, <1>6, <1>7, OtherSteps DEF Next

\* The inductive invariant holds of every behaviour.
LEMMA Invariant == Spec => []IInv
  BY InitInvariant, NextInvariant, PTL DEF Spec

-----------------------------------------------------------------------------
(* The theorems.                                                           *)

\* Every row and handler always has its type; only legal ranges are stored.
THEOREM TypeCorrect == Spec => []TypeOK
<1>1. IInv => TypeOK
  BY DEF IInv
<1> QED
  BY <1>1, Invariant, PTL

\* The Serializable create and approve never book a slot twice.
THEOREM SlotsAreExclusive == Spec => []NoDoubleBooking
<1>1. ASSUME IInv PROVE NoDoubleBooking
  <2> SUFFICES ASSUME NEW i \in Ids, NEW j \in Ids, i # j, Blocks(i), Blocks(j),
                      NEW h \in Hours(reservation[i].resource, reservation[i].slot),
                      h \in Hours(reservation[j].resource, reservation[j].slot)
               PROVE  FALSE
    BY DEF NoDoubleBooking
  <2>1. /\ reservation[i] \in ReservationRow /\ reservation[j] \in ReservationRow
        /\ reservation[i].slot \in LegalSlots /\ reservation[j].slot \in LegalSlots
    BY <1>1 DEF IInv, TypeOK, Blocks, ReservationRow
  <2>2. /\ reservation[i].slot \in [startAt : Nat, endAt : Nat]
        /\ reservation[j].slot \in [startAt : Nat, endAt : Nat]
    BY <2>1, SlotsAssumption DEF LegalSlots
  <2>3. PICK x \in reservation[i].slot.startAt .. (reservation[i].slot.endAt - 1) :
          h = <<reservation[i].resource, x>>
    BY DEF Hours
  <2>4. PICK y \in reservation[j].slot.startAt .. (reservation[j].slot.endAt - 1) :
          h = <<reservation[j].resource, y>>
    BY DEF Hours
  <2>5. reservation[i].resource = reservation[j].resource /\ x = y
    BY <2>3, <2>4
  <2>6. Overlaps(reservation[i].slot, reservation[j].slot)
    BY <2>2, <2>5 DEF Overlaps
  <2> QED
    BY <1>1, <2>5, <2>6 DEF IInv, RowsOK, SlotsApart
<1> QED
  BY <1>1, Invariant, PTL

\* Debts and payments belong to standing reservations, waived ones to
\* cancelled reservations.
THEOREM ChargesFollow == Spec => []ChargeFollowsReservation
<1>1. IInv => ChargeFollowsReservation
  BY DEF IInv, RowsOK
<1> QED
  BY <1>1, Invariant, PTL

\* A charge is settled exactly once and in full.
THEOREM SettledOnce == Spec => []PaidOnce
<1>1. IInv => PaidOnce
  BY DEF IInv, RowsOK
<1> QED
  BY <1>1, Invariant, PTL

\* Payments and the movements they post point at each other.
THEOREM LedgerAgrees == Spec => []LedgerMatchesPayments
<1>1. IInv => LedgerMatchesPayments
  BY DEF IInv, RowsOK
<1> QED
  BY <1>1, Invariant, PTL

\* A transaction that may still commit would decide now as it did.
THEOREM DecisionsAreCurrent == Spec => []UndoomedIsCurrent
<1>1. IInv => UndoomedIsCurrent
  BY DEF IInv
<1> QED
  BY <1>1, Invariant, PTL

\* Which rows a step of the system can have written, and how: the five
\* commits, and steps that write neither reservation nor charge nor payment.
LEMMA CommitCases ==
  ASSUME Next
  PROVE  \/ \E q \in Requests :
              \/ CommitCreate(q) \/ CommitApprove(q) \/ CommitReject(q)
              \/ CommitCancel(q) \/ CommitPay(q)
         \/ UNCHANGED <<reservation, charge, payment>>
BY DEF Next, Submit, Begin, Refuse, SerializationFailure, Lose, CreateMovement,
       Seed, Tick, db

\* What a cancellation in flight knows of its reservation and its charge.
LEMMA CancelWrites ==
  ASSUME IInv, NEW q \in Requests, CommitCancel(q)
  PROVE  LET w == tx[q].work IN
         /\ w.id \in Ids /\ reservation[w.id] # NoRow
         /\ reservation[w.id] \in ReservationRow
         /\ "CANCELLED" \in allowedTransitions[reservation[w.id].status]
         /\ reservation[w.id].status \in BLOCKING_STATUSES
         /\ charge[w.id] # NoRow => charge[w.id] \in ChargeRow /\ charge[w.id].status # "PAID"
         /\ charge[w.id] # NoRow /\ charge[w.id].status = "PENDING" <=> w.amount > 0
         /\ charge[w.id] # NoRow /\ charge[w.id].status = "CANCELLED"
              => reservation[w.id].status = "CANCELLED"
<1> DEFINE w == tx[q].work
<1> USE DEF IInv
<1>1. w \in Work /\ w.op = "cancel" /\ Current(w)
  BY CommitterIsCurrent DEF CommitCancel
<1>2. /\ w.id \in Ids /\ reservation[w.id] # NoRow
      /\ reservation[w.id] \in ReservationRow
      /\ "CANCELLED" \in allowedTransitions[reservation[w.id].status]
      /\ charge[w.id] # NoRow => charge[w.id] \in ChargeRow /\ charge[w.id].status # "PAID"
      /\ w.amount = PendingAmount(w.id)
  BY <1>1 DEF Work, Current, TypeOK
<1>3. reservation[w.id].status \in BLOCKING_STATUSES
  BY <1>2 DEF ReservationRow, ReservationStatus, allowedTransitions, BLOCKING_STATUSES
<1>4. charge[w.id] # NoRow /\ charge[w.id].status = "PENDING" <=> w.amount > 0
  BY <1>2 DEF RowsOK, ChargeFollowsReservation, PendingAmount
<1> QED
  BY <1>2, <1>3, <1>4 DEF RowsOK, ChargeFollowsReservation

LEMMA ApproveWrites ==
  ASSUME IInv, NEW q \in Requests, CommitApprove(q) \/ CommitReject(q)
  PROVE  LET w == tx[q].work IN
         /\ w.id \in Ids /\ w.amount \in Nat
         /\ reservation[w.id] # NoRow /\ reservation[w.id] \in ReservationRow
         /\ reservation[w.id].status = "PENDING"
         /\ charge[w.id] = NoRow
<1> DEFINE w == tx[q].work
<1> USE DEF IInv
<1>1. w \in Work /\ w.op \in {"approve", "reject"} /\ Current(w)
  BY CommitterIsCurrent DEF CommitApprove, CommitReject
<1>2. /\ w.id \in Ids /\ w.amount \in Nat /\ reservation[w.id] # NoRow
      /\ reservation[w.id].status = "PENDING" /\ reservation[w.id] \in ReservationRow
  BY <1>1 DEF Work, Current, TypeOK
<1>3. charge[w.id] # NoRow => charge[w.id] \in ChargeRow
  BY <1>2 DEF TypeOK
<1> QED
  BY <1>2, <1>3 DEF RowsOK, ChargeFollowsReservation, ChargeRow, ChargeStatus

LEMMA PayWrites ==
  ASSUME IInv, NEW q \in Requests, CommitPay(q)
  PROVE  LET w == tx[q].work IN
         /\ w.id \in Ids /\ w.amount \in Nat
         /\ charge[w.id] = [amount |-> w.amount, status |-> "PENDING"]
         /\ charge[w.id] # NoRow
         /\ reservation[w.id] # NoRow /\ reservation[w.id].status = "APPROVED"
<1> DEFINE w == tx[q].work
<1> USE DEF IInv
<1>1. w \in Work /\ w.op = "pay" /\ Current(w)
  BY CommitterIsCurrent DEF CommitPay
<1>2. /\ w.id \in Ids /\ w.amount \in Nat
      /\ charge[w.id] = [amount |-> w.amount, status |-> "PENDING"]
  BY <1>1 DEF Work, Current
<1>3. charge[w.id] # NoRow
  BY <1>2, NoRowAssumption DEF ChargeRow, ChargeStatus
<1> QED
  BY <1>2, <1>3 DEF RowsOK, ChargeFollowsReservation

\* Reservations only move as the transition policy allows, and never to
\* another resource or slot.
THEOREM PolicyIsFollowed == Spec => StepsFollowPolicy
<1>1. ASSUME IInv, [Next]_vars PROVE [\A i \in Ids : FollowsPolicy(i)]_vars
  <2> SUFFICES ASSUME Next, NEW i \in Ids, reservation'[i] # reservation[i]
               PROVE  FollowsPolicy(i)
    BY <1>1 DEF FollowsPolicy
  <2> USE <1>1 DEF IInv
  <2>1. ASSUME NEW q \in Requests, CommitCreate(q) PROVE FollowsPolicy(i)
    BY <2>1 DEF CommitCreate, TypeOK, FollowsPolicy
  <2>2. ASSUME NEW q \in Requests, CommitApprove(q) \/ CommitReject(q)
        PROVE  FollowsPolicy(i)
    <3>1. PICK status \in {"APPROVED", "REJECTED"} :
            reservation' = [reservation EXCEPT ![tx[q].work.id].status = status]
      BY <2>2 DEF CommitApprove, CommitReject
    <3>2. i = tx[q].work.id
      BY <3>1 DEF TypeOK
    <3>3. /\ reservation[i] # NoRow /\ reservation[i].status = "PENDING"
          /\ reservation[i] \in ReservationRow
      BY <2>2, <3>2, ApproveWrites
    <3>4. reservation'[i] = [reservation[i] EXCEPT !.status = status]
      BY <3>1, <3>2 DEF TypeOK
    <3>5. /\ reservation'[i] # NoRow /\ reservation'[i].status = status
          /\ reservation'[i].resource = reservation[i].resource
          /\ reservation'[i].slot = reservation[i].slot
      BY <3>3, <3>4, StatusChanged DEF ReservationStatus
    <3> QED
      BY <3>3, <3>5 DEF FollowsPolicy, allowedTransitions, ReservationStatus
  <2>3. ASSUME NEW q \in Requests, CommitCancel(q) PROVE FollowsPolicy(i)
    BY <2>3, CancelWrites DEF CommitCancel, TypeOK, ReservationRow, FollowsPolicy
  <2>4. ASSUME NEW q \in Requests, CommitPay(q) PROVE FollowsPolicy(i)
    BY <2>4 DEF CommitPay
  <2> QED
    BY <2>1, <2>2, <2>3, <2>4, CommitCases
<1> QED
  BY <1>1, Invariant, PTL DEF Spec, StepsFollowPolicy

\* The amount of a charge never changes and a settled or cancelled charge is
\* final.
THEOREM ChargesStay == Spec => ChargesAreFinal
<1>1. ASSUME IInv, [Next]_vars PROVE [\A i \in Ids : KeepsCharge(i)]_vars
  <2> SUFFICES ASSUME Next, NEW i \in Ids, charge'[i] # charge[i]
               PROVE  KeepsCharge(i)
    BY <1>1 DEF KeepsCharge
  <2> USE <1>1 DEF IInv
  <2>1. ASSUME NEW q \in Requests, CommitCreate(q) \/ CommitReject(q)
        PROVE  KeepsCharge(i)
    BY <2>1 DEF CommitCreate, CommitReject
  <2>2. ASSUME NEW q \in Requests, CommitApprove(q) PROVE KeepsCharge(i)
    BY <2>2, ApproveWrites DEF CommitApprove, TypeOK, KeepsCharge
  <2>3. ASSUME NEW q \in Requests, CommitCancel(q) PROVE KeepsCharge(i)
    <3>1. /\ i = tx[q].work.id /\ charge[i] # NoRow /\ charge[i] \in ChargeRow
          /\ charge[i].status = "PENDING"
          /\ charge'[i] = [charge[i] EXCEPT !.status = "CANCELLED"]
      BY <2>3, CancelWrites DEF CommitCancel, TypeOK
    <3>2. charge'[i] \in ChargeRow /\ charge'[i].amount = charge[i].amount
      BY <3>1 DEF ChargeRow, ChargeStatus
    <3> QED
      BY <3>1, <3>2, NoRowAssumption DEF KeepsCharge
  <2>4. ASSUME NEW q \in Requests, CommitPay(q) PROVE KeepsCharge(i)
    <3>1. charge \in [Ids -> ChargeRow \cup {NoRow}]
      BY DEF TypeOK
    <3>2. charge' = [charge EXCEPT ![tx[q].work.id].status = "PAID"]
      BY <2>4 DEF CommitPay
    <3>3. i = tx[q].work.id
      BY <3>1, <3>2
    <3>4. /\ charge[i] = [amount |-> tx[q].work.amount, status |-> "PENDING"]
          /\ tx[q].work.amount \in Nat
      BY <2>4, <3>3, PayWrites
    <3>5. charge'[i] = [amount |-> tx[q].work.amount, status |-> "PAID"]
      BY <3>1, <3>2, <3>3, <3>4
    <3>6. charge'[i] \in ChargeRow
      BY <3>4, <3>5 DEF ChargeRow, ChargeStatus
    <3> QED
      BY <3>4, <3>5, <3>6, NoRowAssumption DEF KeepsCharge
  <2> QED
    BY <2>1, <2>2, <2>3, <2>4, CommitCases
<1> QED
  BY <1>1, Invariant, PTL DEF Spec, ChargesAreFinal

-----------------------------------------------------------------------------
(* The refinement Spec => ImplementsBook: the initial states map to the     *)
(* empty book, and every step maps to a step of the book or to a stutter.   *)

\* The book's values of an entry, read off its rows.
LEMMA EntryValues ==
  ASSUME NEW i \in Ids
  PROVE  /\ reservation[i] = NoRow => bookStage[i] = "new"
         /\ Blocks(i) => bookStage[i] = "held"
         /\ bookStage[i] = "held" => Blocks(i)
         /\ reservation[i] # NoRow =>
              bookPlace[i] = [resource |-> reservation[i].resource,
                              slot |-> reservation[i].slot]
         /\ charge[i] = NoRow => bookDebt[i] = "none"
         /\ charge[i] # NoRow /\ charge[i].status = "PENDING" => bookDebt[i] = "due"
         /\ charge[i] # NoRow /\ charge[i].status = "PAID" => bookDebt[i] = "settled"
         /\ charge[i] # NoRow /\ charge[i].status = "CANCELLED" => bookDebt[i] = "waived"
BY DEF bookStage, bookPlace, bookDebt, Blocks

\* The same of the state after a step.
LEMMA EntryValuesAfter ==
  ASSUME NEW i \in Ids
  PROVE  /\ reservation'[i] # NoRow /\ reservation'[i].status \in BLOCKING_STATUSES
              => bookStage'[i] = "held"
         /\ reservation'[i] # NoRow /\ reservation'[i].status \notin BLOCKING_STATUSES
              => bookStage'[i] = "gone"
         /\ reservation'[i] # NoRow =>
              bookPlace'[i] = [resource |-> reservation'[i].resource,
                               slot |-> reservation'[i].slot]
         /\ charge'[i] = NoRow => bookDebt'[i] = "none"
         /\ charge'[i] # NoRow /\ charge'[i].status = "PENDING" => bookDebt'[i] = "due"
         /\ charge'[i] # NoRow /\ charge'[i].status = "PAID" => bookDebt'[i] = "settled"
         /\ charge'[i] # NoRow /\ charge'[i].status = "CANCELLED" => bookDebt'[i] = "waived"
BY DEF bookStage, bookPlace, bookDebt

\* An entry whose rows a step leaves alone keeps its values.
LEMMA EntryKept ==
  ASSUME NEW i \in Ids
  PROVE  /\ reservation'[i] = reservation[i] =>
              bookStage'[i] = bookStage[i] /\ bookPlace'[i] = bookPlace[i]
         /\ charge'[i] = charge[i] => bookDebt'[i] = bookDebt[i]
BY DEF bookStage, bookPlace, bookDebt

\* What makes a mapped function the mapped function with one entry changed.
LEMMA BookDomains ==
  /\ bookStage = [i \in Ids |-> bookStage[i]]
  /\ bookStage' = [i \in Ids |-> bookStage'[i]]
  /\ bookPlace = [i \in Ids |-> bookPlace[i]]
  /\ bookPlace' = [i \in Ids |-> bookPlace'[i]]
  /\ bookDebt = [i \in Ids |-> bookDebt[i]]
  /\ bookDebt' = [i \in Ids |-> bookDebt'[i]]
BY DEF bookStage, bookPlace, bookDebt

LEMMA ReceiptsKept ==
  payment' = payment => bookReceipts' = bookReceipts
BY DEF bookReceipts

LEMMA BookInitially == Init => Book!BookInit
BY DEF Init, Book!BookInit, bookStage, bookPlace, bookDebt, bookReceipts

\* A created reservation is a slot held.
LEMMA CreateHolds ==
  ASSUME IInv, NEW q \in Requests, CommitCreate(q)
  PROVE  Book!BookNext
<1> DEFINE w == tx[q].work
           row == [resource |-> w.resource, slot |-> w.slot, status |-> "PENDING"]
<1> USE DEF IInv
<1>1. w \in Work /\ w.op = "create" /\ Available(w.resource, w.slot, NoRow)
  BY CommitterIsCurrent DEF CommitCreate, Current
<1>2. w.resource \in Resources /\ w.slot \in Slots /\ row \in ReservationRow
  BY <1>1 DEF Work, LegalSlots, ReservationRow, ReservationStatus
<1>3. PICK i \in Ids : /\ reservation[i] = NoRow
                      /\ reservation' = [reservation EXCEPT ![i] = row]
  BY DEF CommitCreate
<1>4. UNCHANGED <<charge, payment>>
  BY DEF CommitCreate
<1>5. /\ reservation'[i] = row /\ row # NoRow /\ row.status \in BLOCKING_STATUSES
      /\ \A j \in Ids \ {i} : reservation'[j] = reservation[j]
  BY <1>2, <1>3, NoRowAssumption DEF TypeOK, BLOCKING_STATUSES
<1>6. Book!Free(w.resource, w.slot)
  <2> SUFFICES ASSUME NEW j \in Ids, bookStage[j] = "held"
               PROVE  ~ (bookPlace[j].resource = w.resource
                          /\ Overlaps(bookPlace[j].slot, w.slot))
    BY DEF Book!Free, Book!Overlaps, Overlaps
  <2>1. Blocks(j) /\ j # NoRow
    BY EntryValues, NoRowAssumption
  <2>2. bookPlace[j] = [resource |-> reservation[j].resource,
                        slot |-> reservation[j].slot]
    BY <2>1, EntryValues DEF Blocks
  <2> QED
    BY <1>1, <2>1, <2>2 DEF Available
<1>7. bookStage[i] = "new" /\ bookStage' = [bookStage EXCEPT ![i] = "held"]
  <2>1. bookStage[i] = "new" /\ bookStage'[i] = "held"
    BY <1>3, <1>5, EntryValues, EntryValuesAfter
  <2>2. \A j \in Ids \ {i} : bookStage'[j] = bookStage[j]
    BY <1>5, EntryKept
  <2> QED
    BY <2>1, <2>2, BookDomains
<1>8. bookPlace' = [bookPlace EXCEPT ![i] = [resource |-> w.resource, slot |-> w.slot]]
  <2>1. bookPlace'[i] = [resource |-> w.resource, slot |-> w.slot]
    BY <1>5, EntryValuesAfter
  <2>2. \A j \in Ids \ {i} : bookPlace'[j] = bookPlace[j]
    BY <1>5, EntryKept
  <2> QED
    BY <2>1, <2>2, BookDomains
<1>9. bookDebt' = bookDebt /\ bookReceipts' = bookReceipts
  BY <1>4 DEF bookDebt, bookReceipts
<1>10. Book!Hold(i, w.resource, w.slot)
  BY <1>6, <1>7, <1>8, <1>9 DEF Book!Hold
<1> QED
  BY <1>2, <1>10 DEF Book!BookNext

\* Approving a priced reservation bills it; approving a free one changes
\* nothing in the book.
LEMMA ApproveBills ==
  ASSUME IInv, NEW q \in Requests, CommitApprove(q)
  PROVE  Book!BookNext \/ UNCHANGED Book!bookVars
<1> DEFINE w == tx[q].work
           bill == [amount |-> w.amount, status |-> "PENDING"]
<1> USE DEF IInv
<1>1. /\ w.id \in Ids /\ w.amount \in Nat
      /\ reservation[w.id] # NoRow /\ reservation[w.id] \in ReservationRow
      /\ reservation[w.id].status = "PENDING" /\ charge[w.id] = NoRow
  BY ApproveWrites
<1>2. /\ reservation' = [reservation EXCEPT ![w.id].status = "APPROVED"]
      /\ charge' = IF w.amount > 0 THEN [charge EXCEPT ![w.id] = bill] ELSE charge
      /\ payment' = payment
  BY DEF CommitApprove
<1>3. /\ reservation'[w.id] \in ReservationRow
      /\ reservation'[w.id].status = "APPROVED"
      /\ reservation'[w.id].resource = reservation[w.id].resource
      /\ reservation'[w.id].slot = reservation[w.id].slot
      /\ \A j \in Ids \ {w.id} : reservation'[j] = reservation[j]
  BY <1>1, <1>2 DEF TypeOK, ReservationRow, ReservationStatus
<1>4. reservation'[w.id] # NoRow
  BY <1>3, NoRowAssumption
<1>5. bookStage' = bookStage /\ bookStage[w.id] = "held"
  <2>1. bookStage[w.id] = "held" /\ bookStage'[w.id] = "held"
    BY <1>1, <1>3, <1>4, EntryValues, EntryValuesAfter DEF Blocks, BLOCKING_STATUSES
  <2>2. \A j \in Ids \ {w.id} : bookStage'[j] = bookStage[j]
    BY <1>3, EntryKept
  <2> QED
    BY <2>1, <2>2, BookDomains
<1>6. bookPlace' = bookPlace
  <2>1. /\ bookPlace[w.id] = [resource |-> reservation[w.id].resource,
                              slot |-> reservation[w.id].slot]
        /\ bookPlace'[w.id] = [resource |-> reservation'[w.id].resource,
                               slot |-> reservation'[w.id].slot]
    BY <1>1, <1>4, EntryValues, EntryValuesAfter
  <2>3. bookPlace'[w.id] = bookPlace[w.id]
    BY <1>3, <2>1
  <2>2. \A j \in Ids \ {w.id} : bookPlace'[j] = bookPlace[j]
    BY <1>3, EntryKept
  <2> QED
    BY <2>2, <2>3, BookDomains
<1>7. CASE w.amount > 0
  <2>1. /\ charge'[w.id] = bill
        /\ \A j \in Ids \ {w.id} : charge'[j] = charge[j]
    BY <1>1, <1>2, <1>7 DEF TypeOK
  <2>2. bill \in ChargeRow
    BY <1>1 DEF ChargeRow, ChargeStatus
  <2>3. bookDebt[w.id] = "none" /\ bookDebt'[w.id] = "due"
    <3>1. charge'[w.id] # NoRow /\ charge'[w.id].status = "PENDING"
      BY <2>1, <2>2, NoRowAssumption
    <3> QED
      BY <1>1, <3>1, EntryValues, EntryValuesAfter
  <2>4. \A j \in Ids \ {w.id} : bookDebt'[j] = bookDebt[j]
    BY <2>1, EntryKept
  <2>5. bookDebt' = [bookDebt EXCEPT ![w.id] = "due"]
    BY <2>3, <2>4, BookDomains
  <2>6. Book!Bill(w.id)
    BY <1>2, <1>5, <1>6, <2>3, <2>5, ReceiptsKept DEF Book!Bill
  <2> QED
    BY <1>1, <2>6 DEF Book!BookNext
<1>8. CASE ~ (w.amount > 0)
  <2>1. bookDebt' = bookDebt
    BY <1>2, <1>8 DEF bookDebt
  <2> QED
    BY <1>2, <1>5, <1>6, <2>1, ReceiptsKept DEF Book!bookVars
<1> QED
  BY <1>7, <1>8

\* A payment settles the entry it names, with a receipt nobody else has.
LEMMA PaySettles ==
  ASSUME IInv, NEW q \in Requests, CommitPay(q)
  PROVE  Book!BookNext
<1> DEFINE w == tx[q].work
           paid == [amount |-> w.amount, status |-> "PAID"]
<1> USE DEF IInv
<1>1. /\ w.id \in Ids /\ w.amount \in Nat /\ charge[w.id] # NoRow
      /\ charge[w.id] = [amount |-> w.amount, status |-> "PENDING"]
  BY PayWrites
<1>2. reservation[w.id] # NoRow /\ reservation[w.id].status = "APPROVED"
  BY <1>1 DEF RowsOK, ChargeFollowsReservation
<1>3. PICK p \in Payments, m \in Movements :
        /\ payment[p] = NoRow
        /\ payment' = [payment EXCEPT ![p] = [charge |-> w.id, amount |-> w.amount,
                                              movement |-> m]]
  BY DEF CommitPay
<1>4. /\ charge' = [charge EXCEPT ![w.id].status = "PAID"]
      /\ UNCHANGED reservation
  BY DEF CommitPay
<1>5. /\ charge'[w.id] = paid
      /\ \A j \in Ids \ {w.id} : charge'[j] = charge[j]
  BY <1>1, <1>4 DEF TypeOK
<1>6. charge'[w.id] # NoRow
  BY <1>1, <1>5, NoRowAssumption DEF ChargeRow, ChargeStatus
<1>7. bookStage' = bookStage /\ bookPlace' = bookPlace /\ bookStage[w.id] = "held"
  <2>1. Blocks(w.id)
    BY <1>2 DEF Blocks, BLOCKING_STATUSES
  <2> QED
    BY <1>1, <1>4, <2>1, EntryValues DEF bookStage, bookPlace
<1>8. bookDebt[w.id] = "due" /\ bookDebt' = [bookDebt EXCEPT ![w.id] = "settled"]
  <2>1. charge[w.id].status = "PENDING" /\ charge'[w.id].status = "PAID"
    BY <1>1, <1>5
  <2>2. bookDebt[w.id] = "due" /\ bookDebt'[w.id] = "settled"
    BY <1>1, <1>6, <2>1, EntryValues, EntryValuesAfter
  <2>3. \A j \in Ids \ {w.id} : bookDebt'[j] = bookDebt[j]
    BY <1>5, EntryKept
  <2> QED
    BY <2>2, <2>3, BookDomains
<1>9. \A j \in Ids : p \notin bookReceipts[j]
  BY <1>3 DEF bookReceipts
<1>10. bookReceipts' = [bookReceipts EXCEPT ![w.id] = {p}]
  <2>1. payment'[p] = [charge |-> w.id, amount |-> w.amount, movement |-> m]
    BY <1>3 DEF TypeOK
  <2>2. payment'[p] # NoRow /\ payment'[p].charge = w.id
    BY <1>1, <1>3, <2>1, NoRowAssumption DEF PaymentRow
  <2>3. \A o \in Payments \ {p} : payment'[o] = payment[o]
    BY <1>3 DEF TypeOK
  <2>4. \A o \in Payments : payment[o] # NoRow => payment[o].charge # w.id
    <3> SUFFICES ASSUME NEW o \in Payments, payment[o] # NoRow,
                        payment[o].charge = w.id
                 PROVE  FALSE
      OBVIOUS
    <3>1. charge[payment[o].charge] = [amount |-> payment[o].amount, status |-> "PAID"]
      BY DEF RowsOK, PaidOnce
    <3> QED
      BY <1>1, <3>1
  <2>5. ASSUME NEW j \in Ids
        PROVE  bookReceipts'[j] = IF j = w.id THEN {p} ELSE bookReceipts[j]
    <3>1. /\ bookReceipts'[j] = {o \in Payments : payment'[o] # NoRow /\ payment'[o].charge = j}
          /\ bookReceipts[j] = {o \in Payments : payment[o] # NoRow /\ payment[o].charge = j}
      BY DEF bookReceipts
    <3> QED
      BY <1>3, <2>2, <2>3, <2>4, <3>1
  <2> QED
    BY <2>5 DEF bookReceipts
<1>11. Book!Settle(w.id, p)
  BY <1>7, <1>8, <1>9, <1>10 DEF Book!Settle
<1> QED
  BY <1>1, <1>11 DEF Book!BookNext

\* A rejection or a cancellation gives the slot up and waives what is due.
LEMMA CloseReleases ==
  ASSUME IInv, NEW q \in Requests, CommitReject(q) \/ CommitCancel(q)
  PROVE  Book!BookNext
<1> DEFINE w == tx[q].work
<1> USE DEF IInv
<1>1. /\ w.id \in Ids /\ reservation[w.id] # NoRow
      /\ reservation[w.id] \in ReservationRow
      /\ reservation[w.id].status \in BLOCKING_STATUSES
  BY ApproveWrites, CancelWrites DEF BLOCKING_STATUSES
<1>2. PICK s \in {"REJECTED", "CANCELLED"} :
        reservation' = [reservation EXCEPT ![w.id].status = s]
  BY DEF CommitReject, CommitCancel
<1>3. /\ reservation'[w.id] \in ReservationRow
      /\ reservation'[w.id].status \notin BLOCKING_STATUSES
      /\ reservation'[w.id].resource = reservation[w.id].resource
      /\ reservation'[w.id].slot = reservation[w.id].slot
      /\ \A j \in Ids \ {w.id} : reservation'[j] = reservation[j]
  BY <1>1, <1>2 DEF TypeOK, ReservationRow, ReservationStatus, BLOCKING_STATUSES
<1>4. reservation'[w.id] # NoRow
  BY <1>3, NoRowAssumption
<1>5. bookStage[w.id] = "held" /\ bookStage' = [bookStage EXCEPT ![w.id] = "gone"]
  <2>1. bookStage[w.id] = "held" /\ bookStage'[w.id] = "gone"
    BY <1>1, <1>3, <1>4, EntryValues, EntryValuesAfter DEF Blocks
  <2>2. \A j \in Ids \ {w.id} : bookStage'[j] = bookStage[j]
    BY <1>3, EntryKept
  <2> QED
    BY <2>1, <2>2, BookDomains
<1>6. bookPlace' = bookPlace
  <2>1. /\ bookPlace[w.id] = [resource |-> reservation[w.id].resource,
                              slot |-> reservation[w.id].slot]
        /\ bookPlace'[w.id] = [resource |-> reservation'[w.id].resource,
                               slot |-> reservation'[w.id].slot]
    BY <1>1, <1>4, EntryValues, EntryValuesAfter
  <2>2. bookPlace'[w.id] = bookPlace[w.id]
    BY <1>3, <2>1
  <2>3. \A j \in Ids \ {w.id} : bookPlace'[j] = bookPlace[j]
    BY <1>3, EntryKept
  <2> QED
    BY <2>2, <2>3, BookDomains
<1>7. /\ bookDebt[w.id] # "settled"
      /\ bookDebt' = [bookDebt EXCEPT ![w.id] =
                         IF bookDebt[w.id] = "due" THEN "waived" ELSE bookDebt[w.id]]
  <2>1. CASE charge' = charge /\ bookDebt[w.id] \notin {"due", "settled"}
    <3>1. bookDebt' = bookDebt
      BY <2>1 DEF bookDebt
    <3> QED
      BY <2>1, <3>1, BookDomains
  <2>2. CASE /\ charge' = [charge EXCEPT ![w.id].status = "CANCELLED"]
             /\ charge[w.id] # NoRow /\ charge[w.id] \in ChargeRow
             /\ charge[w.id].status = "PENDING"
    <3>1. /\ charge'[w.id] = [charge[w.id] EXCEPT !.status = "CANCELLED"]
          /\ \A j \in Ids \ {w.id} : charge'[j] = charge[j]
      BY <1>1, <2>2 DEF TypeOK
    <3>2. charge'[w.id] \in ChargeRow /\ charge'[w.id].status = "CANCELLED"
      BY <2>2, <3>1 DEF ChargeRow, ChargeStatus
    <3>3. charge'[w.id] # NoRow
      BY <3>2, NoRowAssumption
    <3>4. bookDebt[w.id] = "due" /\ bookDebt'[w.id] = "waived"
      BY <1>1, <2>2, <3>2, <3>3, EntryValues, EntryValuesAfter
    <3>5. \A j \in Ids \ {w.id} : bookDebt'[j] = bookDebt[j]
      BY <3>1, EntryKept
    <3> QED
      BY <3>4, <3>5, BookDomains
  <2>3. ASSUME CommitReject(q)
        PROVE  charge' = charge /\ bookDebt[w.id] \notin {"due", "settled"}
    <3>1. bookDebt[w.id] = "none"
      BY <1>1, <2>3, ApproveWrites, EntryValues
    <3> QED
      BY <2>3, <3>1 DEF CommitReject
  <2>4. CASE CommitCancel(q) /\ w.amount > 0
    <3>1. /\ charge[w.id] # NoRow /\ charge[w.id] \in ChargeRow
          /\ charge[w.id].status = "PENDING"
      BY <2>4, CancelWrites
    <3>2. charge' = [charge EXCEPT ![w.id].status = "CANCELLED"]
      BY <2>4 DEF CommitCancel
    <3> QED
      BY <2>2, <3>1, <3>2
  <2>5. CASE CommitCancel(q) /\ ~ (w.amount > 0)
    <3>1. ~ (charge[w.id] # NoRow /\ charge[w.id].status \in {"PENDING", "PAID"})
      BY <2>5, CancelWrites
    <3>2. bookDebt[w.id] \notin {"due", "settled"}
      BY <1>1, <3>1 DEF bookDebt, RowsOK, ChargeFollowsReservation, TypeOK, ChargeRow,
                        ChargeStatus
    <3>3. charge' = charge
      BY <2>5 DEF CommitCancel
    <3> QED
      BY <2>1, <3>2, <3>3
  <2> QED
    BY <2>1, <2>3, <2>4, <2>5
<1>8. bookReceipts' = bookReceipts
  BY ReceiptsKept DEF CommitReject, CommitCancel
<1>9. Book!Release(w.id)
  BY <1>5, <1>6, <1>7, <1>8 DEF Book!Release
<1> QED
  BY <1>1, <1>9 DEF Book!BookNext

\* Every interleaving of the handlers is a history of the book: reservations
\* and payments keep their promise whatever races, retries and losses occur.
THEOREM BookIsImplemented == Spec => ImplementsBook
<1>1. ASSUME IInv, [Next]_vars PROVE [Book!BookNext]_(Book!bookVars)
  <2>1. CASE UNCHANGED <<reservation, charge, payment>>
    BY <2>1 DEF Book!bookVars, bookStage, bookPlace, bookDebt, bookReceipts
  <2>2. ASSUME NEW q \in Requests,
               \/ CommitCreate(q) \/ CommitApprove(q) \/ CommitReject(q)
               \/ CommitCancel(q) \/ CommitPay(q)
        PROVE  Book!BookNext \/ UNCHANGED Book!bookVars
    BY <1>1, <2>2, CreateHolds, ApproveBills, CloseReleases, PaySettles
  <2> QED
    BY <1>1, <2>1, <2>2, CommitCases DEF vars
<1> QED
  BY <1>1, BookInitially, Invariant, PTL DEF Spec, ImplementsBook, Book!BookSpec
=============================================================================
