--------------------------- MODULE Reservations ---------------------------
(* reservations.service.ts and the payment half of financial.service.ts:   *)
(* the reservations of the bookable resources, the charge an approval      *)
(* opens, the payment that settles it and the movement it posts.  They     *)
(* share rows, so one module holds them.                                   *)
(*                                                                         *)
(* A request is a handler running in the Node process.  Its work is the    *)
(* body of a Serializable transaction: Begin takes the snapshot, reads and  *)
(* checks; Commit<Op> writes everything at once, or SerializationFailure   *)
(* rolls it back and withSerializableTransaction tries again.  Any number  *)
(* of requests may be open between those two steps.                        *)
EXTENDS Integers, SerializableTx, ReservationRules

CONSTANTS Requests,    \* handlers in flight at once
          Resources,   \* rows of ReservableResource
          Ids,         \* ids of Reservation rows (and of their charges)
          Payments,    \* ids of Payment rows
          Movements,   \* ids of FinancialMovement rows
          Slots,       \* the [startAt, endAt] ranges asked for, in hours
          Amounts,     \* the amounts a cashier types
          Horizon,     \* last hour of the clock
          Tariffs,     \* the resource rows an operator may have left
          Catalogue    \* the row the seed writes for each resource

VARIABLES now, resource, reservation, charge, payment, movement, tx

db   == <<resource, reservation, charge, payment, movement>>
vars == <<now, resource, reservation, charge, payment, movement, tx>>

ASSUME SlotsAssumption == Slots \subseteq [startAt : Nat, endAt : Nat]
ASSUME AmountsAssumption == Amounts \subseteq Nat \ {0}
ASSUME HorizonAssumption == Horizon \in Nat

-----------------------------------------------------------------------------
(* Rows, requests and the work of an open transaction.                     *)

ChargeStatus == {"PENDING", "PAID", "CANCELLED"}

Tariff == [status : {"ACTIVE", "INACTIVE"}, pricingType : {"FREE", "FIXED"},
           price : Nat]

\* Only ranges assertTimeRange accepts are ever stored.
LegalSlots == {s \in Slots : s.endAt - s.startAt \in MinHours .. MaxHours}

ReservationRow == [resource : Resources, slot : LegalSlots, status : ReservationStatus]
ChargeRow      == [amount : Nat, status : ChargeStatus]
PaymentRow     == [charge : Ids, amount : Nat, movement : Movements]
MovementRow    == [type : {"INCOME", "EXPENSE"}, amount : Nat,
                   payment : Payments \cup {NoRow}]

ASSUME TariffsAssumption ==
  Tariffs \subseteq Tariff /\ Catalogue \in [Resources -> Tariff]

ASSUME NoRowAssumption ==
  /\ NoRow \notin Ids \cup Payments
  /\ NoRow \notin ReservationRow
  /\ NoRow \notin ChargeRow
  /\ NoRow \notin PaymentRow
  /\ NoRow \notin MovementRow

Request ==
  [op : {"create"}, resource : Resources, slot : Slots]
    \cup [op : {"approve", "reject", "cancel"}, id : Ids]
    \cup [op : {"pay"}, id : Ids, amount : Amounts]

\* What a transaction carries from its reads to its writes.  amount is the
\* price an approval charges, the pending charge a cancellation closes or
\* the payment, and 0 when there is none.
Work ==
  [op : {"create"}, id : {NoRow}, resource : Resources, slot : LegalSlots, amount : {0}]
    \cup [op : {"approve", "reject", "cancel", "pay"}, id : Ids,
          resource : Resources, slot : LegalSlots, amount : Nat]

Idle == [phase |-> "idle", attempt |-> 0, request |-> NoRow, work |-> NoRow,
         doomed |-> FALSE]

Waiting == [phase : {"waiting"}, attempt : 1 .. MaxAttempts, request : Request,
            work : {NoRow}, doomed : {FALSE}]

Open == [phase : {"open"}, attempt : 1 .. MaxAttempts, request : Request,
         work : Work, doomed : BOOLEAN]

Handler == {Idle} \cup Waiting \cup Open

Blocks(i) == reservation[i] # NoRow /\ reservation[i].status \in BLOCKING_STATUSES

\* findBlockingReservation(Excluding) finds no row.
Available(r, s, excluded) ==
  \A i \in Ids \ {excluded} :
    ~ (Blocks(i) /\ reservation[i].resource = r /\ Overlaps(reservation[i].slot, s))

PendingAmount(i) ==
  IF charge[i] # NoRow /\ charge[i].status = "PENDING" THEN charge[i].amount ELSE 0

-----------------------------------------------------------------------------
(* The footprint of a transaction: the hours of the resource its blocking  *)
(* query covers, and the rows it reads and updates.                        *)

Hours(r, s) == {<<r, h>> : h \in s.startAt .. (s.endAt - 1)}

ReservationKey(i) == <<"Reservation", i>>
ChargeKey(i)      == <<"FinancialCharge", i>>

Reads(w) ==
  CASE w.op = "create"  -> Hours(w.resource, w.slot)
    [] w.op = "approve" -> {ReservationKey(w.id)} \cup Hours(w.resource, w.slot)
    [] w.op = "reject"  -> {ReservationKey(w.id)}
    [] w.op = "cancel"  -> {ReservationKey(w.id), ChargeKey(w.id)}
    [] w.op = "pay"     -> {ChargeKey(w.id)}

Rows(w) ==
  CASE w.op = "create" -> {}
    [] w.op = "pay"    -> {ChargeKey(w.id)}
    [] OTHER -> {ReservationKey(w.id)}
                  \cup (IF w.amount > 0 THEN {ChargeKey(w.id)} ELSE {})

Marks(w) == IF w.op = "pay" THEN {} ELSE Hours(w.resource, w.slot)

Footprint(w) == [reads |-> Reads(w), rows |-> Rows(w), marks |-> Marks(w)]

-----------------------------------------------------------------------------
(* The early returns of each operation, on what its snapshot shows.        *)

Bookable(r) == resource[r].status = "ACTIVE"

CreateAllowed(r) ==
  /\ TimeRangeOk(r.slot, now)
  /\ Bookable(r.resource)
  /\ Available(r.resource, r.slot, NoRow)

\* Mutant: an approval that does not look at the status.
ApproveAnyStatus(r) ==
  /\ reservation[r.id] # NoRow
  /\ Available(reservation[r.id].resource, reservation[r.id].slot, r.id)
  /\ Bookable(reservation[r.id].resource)
  /\ PricingOk(resource[reservation[r.id].resource])

ApproveAllowed(r) ==
  /\ reservation[r.id] # NoRow
  /\ reservation[r.id].status = "PENDING"
  /\ Available(reservation[r.id].resource, reservation[r.id].slot, r.id)
  /\ Bookable(reservation[r.id].resource)
  /\ PricingOk(resource[reservation[r.id].resource])

RejectAllowed(r) ==
  /\ reservation[r.id] # NoRow
  /\ reservation[r.id].status = "PENDING"

\* Mutant: a cancellation of a reservation already paid.
CancelPaid(r) ==
  /\ reservation[r.id] # NoRow
  /\ "CANCELLED" \in allowedTransitions[reservation[r.id].status]

\* Mutant: a cancellation that does not ask the transition policy.
CancelAnyStatus(r) ==
  /\ reservation[r.id] # NoRow
  /\ charge[r.id] # NoRow => charge[r.id].status # "PAID"

CancelAllowed(r) ==
  /\ reservation[r.id] # NoRow
  /\ "CANCELLED" \in allowedTransitions[reservation[r.id].status]
  /\ charge[r.id] # NoRow => charge[r.id].status # "PAID"

\* Mutant: a payment of a charge in any status.
PayAnyStatus(r) ==
  /\ charge[r.id] # NoRow
  /\ charge[r.id].amount > 0
  /\ r.amount = charge[r.id].amount

PayAllowed(r) ==
  /\ charge[r.id] # NoRow
  /\ charge[r.id].status = "PENDING"
  /\ charge[r.id].amount > 0
  /\ r.amount = charge[r.id].amount

Allowed(r) ==
  \/ r.op = "create"  /\ CreateAllowed(r)
  \/ r.op = "approve" /\ ApproveAllowed(r)
  \/ r.op = "reject"  /\ RejectAllowed(r)
  \/ r.op = "cancel"  /\ CancelAllowed(r)
  \/ r.op = "pay"     /\ PayAllowed(r)

\* What the transaction has read and will use when it writes.
WorkOf(r) ==
  IF r.op = "create"
  THEN [op |-> "create", id |-> NoRow, resource |-> r.resource,
        slot |-> r.slot, amount |-> 0]
  ELSE [op |-> r.op, id |-> r.id,
        resource |-> reservation[r.id].resource,
        slot |-> reservation[r.id].slot,
        amount |-> CASE r.op = "approve" -> resource[reservation[r.id].resource].price
                     [] r.op = "reject"  -> 0
                     [] r.op = "cancel"  -> PendingAmount(r.id)
                     [] r.op = "pay"     -> r.amount]

-----------------------------------------------------------------------------
(* Handlers: arrival, snapshot, refusal, serialization failure, loss.      *)

Submit(q, r) ==
  /\ tx[q].phase = "idle"
  /\ tx' = [tx EXCEPT ![q] = [phase |-> "waiting", attempt |-> 1, request |-> r,
                              work |-> NoRow, doomed |-> FALSE]]
  /\ UNCHANGED <<now, db>>

Begin(q) ==
  /\ tx[q].phase = "waiting"
  /\ Allowed(tx[q].request)
  /\ tx' = [tx EXCEPT ![q].phase = "open", ![q].doomed = FALSE,
                      ![q].work = WorkOf(tx[q].request)]
  /\ UNCHANGED <<now, db>>

\* A check fails: the transaction writes nothing and the caller gets the error.
Refuse(q) ==
  /\ tx[q].phase = "waiting"
  /\ ~ Allowed(tx[q].request)
  /\ tx' = [tx EXCEPT ![q] = Idle]
  /\ UNCHANGED <<now, db>>

\* Mutant: one attempt too many.
FailureOffByOne(q) ==
  /\ tx[q].phase = "open"
  /\ IF tx[q].attempt > MaxAttempts
     THEN tx' = [tx EXCEPT ![q] = Idle]
     ELSE tx' = [tx EXCEPT ![q].phase = "waiting", ![q].work = NoRow,
                           ![q].doomed = FALSE,
                           ![q].attempt = tx[q].attempt + 1]
  /\ UNCHANGED <<now, db>>

\* P2034: tried again with a new snapshot, up to MaxAttempts times; then the
\* caller gets a ConflictException.
SerializationFailure(q) ==
  /\ tx[q].phase = "open"
  /\ IF tx[q].attempt = MaxAttempts
     THEN tx' = [tx EXCEPT ![q] = Idle]
     ELSE tx' = [tx EXCEPT ![q].phase = "waiting", ![q].work = NoRow,
                           ![q].doomed = FALSE,
                           ![q].attempt = tx[q].attempt + 1]
  /\ UNCHANGED <<now, db>>

\* The process dies or the connection drops: PostgreSQL rolls back.
Lose(q) ==
  /\ tx[q].phase # "idle"
  /\ tx' = [tx EXCEPT ![q] = Idle]
  /\ UNCHANGED <<now, db>>

\* q's commit answers its caller and condemns the open transactions it
\* conflicts with.
Committed(q) ==
  tx' = [p \in Requests |->
           IF p = q THEN Idle
           ELSE IF tx[p].phase = "open"
                     /\ Conflict(Footprint(tx[p].work), Footprint(tx[q].work))
                THEN [tx[p] EXCEPT !.doomed = TRUE]
                ELSE tx[p]]

MayCommit(q, op) ==
  tx[q].phase = "open" /\ ~ tx[q].doomed /\ tx[q].work.op = op

-----------------------------------------------------------------------------
(* The writes of each operation.                                           *)

CommitCreate(q) ==
  /\ MayCommit(q, "create")
  /\ \E i \in Ids :
       /\ reservation[i] = NoRow
       /\ reservation' =
            [reservation EXCEPT ![i] =
               [resource |-> tx[q].work.resource, slot |-> tx[q].work.slot,
                status |-> "PENDING"]]
  /\ Committed(q)
  /\ UNCHANGED <<now, resource, charge, payment, movement>>

CommitApprove(q) ==
  LET w == tx[q].work IN
  /\ MayCommit(q, "approve")
  /\ w.amount > 0 => charge[w.id] = NoRow   \* reservationId is unique
  /\ reservation' = [reservation EXCEPT ![w.id].status = "APPROVED"]
  /\ charge' = IF w.amount > 0
               THEN [charge EXCEPT ![w.id] = [amount |-> w.amount,
                                              status |-> "PENDING"]]
               ELSE charge
  /\ Committed(q)
  /\ UNCHANGED <<now, resource, payment, movement>>

CommitReject(q) ==
  LET w == tx[q].work IN
  /\ MayCommit(q, "reject")
  /\ reservation' = [reservation EXCEPT ![w.id].status = "REJECTED"]
  /\ Committed(q)
  /\ UNCHANGED <<now, resource, charge, payment, movement>>

CommitCancel(q) ==
  LET w == tx[q].work IN
  /\ MayCommit(q, "cancel")
  /\ reservation' = [reservation EXCEPT ![w.id].status = "CANCELLED"]
  /\ charge' = IF w.amount > 0
               THEN [charge EXCEPT ![w.id].status = "CANCELLED"]
               ELSE charge
  /\ Committed(q)
  /\ UNCHANGED <<now, resource, payment, movement>>

\* Mutant: an income movement that does not name its payment.
UnlinkedMovement(w, p) == [type |-> "INCOME", amount |-> w.amount, payment |-> NoRow]

\* The movement a payment posts.
PaymentMovement(w, p) == [type |-> "INCOME", amount |-> w.amount, payment |-> p]

CommitPay(q) ==
  LET w == tx[q].work IN
  /\ MayCommit(q, "pay")
  /\ \E p \in Payments, m \in Movements :
       /\ payment[p] = NoRow
       /\ movement[m] = NoRow
       /\ payment' = [payment EXCEPT ![p] = [charge |-> w.id, amount |-> w.amount,
                                             movement |-> m]]
       /\ movement' = [movement EXCEPT ![m] = PaymentMovement(w, p)]
  /\ charge' = [charge EXCEPT ![w.id].status = "PAID"]
  /\ Committed(q)
  /\ UNCHANGED <<now, resource, reservation>>

\* createMovement: a manual movement, one statement outside any transaction.
CreateMovement(m, type, amount) ==
  /\ movement[m] = NoRow
  /\ movement' = [movement EXCEPT ![m] = [type |-> type, amount |-> amount,
                                          payment |-> NoRow]]
  /\ UNCHANGED <<now, resource, reservation, charge, payment, tx>>

\* The seed writes its catalogue again over what operators changed.
Seed(r) ==
  /\ resource[r] # Catalogue[r]
  /\ resource' = [resource EXCEPT ![r] = Catalogue[r]]
  /\ UNCHANGED <<now, reservation, charge, payment, movement, tx>>

Tick ==
  /\ now < Horizon
  /\ now' = now + 1
  /\ UNCHANGED <<db, tx>>

-----------------------------------------------------------------------------
Init ==
  /\ now = 0
  /\ resource \in [Resources -> Tariffs]
  /\ reservation = [i \in Ids |-> NoRow]
  /\ charge = [i \in Ids |-> NoRow]
  /\ payment = [p \in Payments |-> NoRow]
  /\ movement = [m \in Movements |-> NoRow]
  /\ tx = [q \in Requests |-> Idle]

Next ==
  \/ \E q \in Requests, r \in Request : Submit(q, r)
  \/ \E q \in Requests : Begin(q)
  \/ \E q \in Requests : Refuse(q)
  \/ \E q \in Requests : SerializationFailure(q)
  \/ \E q \in Requests : Lose(q)
  \/ \E q \in Requests : CommitCreate(q)
  \/ \E q \in Requests : CommitApprove(q)
  \/ \E q \in Requests : CommitReject(q)
  \/ \E q \in Requests : CommitCancel(q)
  \/ \E q \in Requests : CommitPay(q)
  \/ \E m \in Movements, type \in {"INCOME", "EXPENSE"}, a \in Amounts :
       CreateMovement(m, type, a)
  \/ \E r \in Resources : Seed(r)
  \/ Tick

Spec == Init /\ [][Next]_vars

-----------------------------------------------------------------------------
(* Properties.                                                             *)

TypeOK ==
  /\ now \in 0 .. Horizon
  /\ resource \in [Resources -> Tariff]
  /\ reservation \in [Ids -> ReservationRow \cup {NoRow}]
  /\ charge \in [Ids -> ChargeRow \cup {NoRow}]
  /\ payment \in [Payments -> PaymentRow \cup {NoRow}]
  /\ movement \in [Movements -> MovementRow \cup {NoRow}]
  /\ tx \in [Requests -> Handler]

\* However many create and approve handlers race, no hour of a resource is
\* held by two blocking reservations (the overlap test of the two blocking
\* queries and the Serializable isolation of create, together).
NoDoubleBooking ==
  \A i, j \in Ids :
    i # j /\ Blocks(i) /\ Blocks(j) =>
      Hours(reservation[i].resource, reservation[i].slot)
        \cap Hours(reservation[j].resource, reservation[j].slot) = {}

\* A debt or a payment belongs to a reservation that stands, and a cancelled
\* reservation is owed nothing, whichever of approve, cancel and
\* recordPayment commits first.
ChargeFollowsReservation ==
  \A i \in Ids :
    charge[i] # NoRow =>
      /\ reservation[i] # NoRow
      /\ charge[i].amount > 0
      /\ charge[i].status \in {"PENDING", "PAID"} => reservation[i].status = "APPROVED"
      /\ charge[i].status = "CANCELLED" => reservation[i].status = "CANCELLED"

\* A charge is settled exactly when one payment of its whole amount exists:
\* two cashiers recording the same payment never both succeed.
PaidOnce ==
  /\ \A p \in Payments :
       payment[p] # NoRow =>
         /\ charge[payment[p].charge] = [amount |-> payment[p].amount, status |-> "PAID"]
         /\ \A o \in Payments \ {p} :
              payment[o] # NoRow => payment[o].charge # payment[p].charge
  /\ \A i \in Ids :
       charge[i] # NoRow /\ charge[i].status = "PAID" =>
         \E p \in Payments : payment[p] # NoRow /\ payment[p].charge = i

\* The book of movements and the payments agree: every payment has an income
\* movement of its amount that points back at it, and no other movement
\* claims a payment.
LedgerMatchesPayments ==
  /\ \A p \in Payments :
       payment[p] # NoRow =>
         movement[payment[p].movement] =
           [type |-> "INCOME", amount |-> payment[p].amount, payment |-> p]
  /\ \A m \in Movements :
       movement[m] # NoRow /\ movement[m].payment # NoRow =>
         /\ payment[movement[m].payment] # NoRow
         /\ payment[movement[m].payment].movement = m

\* An open transaction nothing has condemned would make the same decision
\* now as on its snapshot: what it is about to write is still right.
UndoomedIsCurrent ==
  \A q \in Requests :
    tx[q].phase = "open" /\ ~ tx[q].doomed =>
      LET w == tx[q].work IN
      /\ w.op = "create" => Available(w.resource, w.slot, NoRow)
      /\ w.op \in {"approve", "reject", "cancel"} => reservation[w.id] # NoRow
      /\ w.op \in {"approve", "reject"} => reservation[w.id].status = "PENDING"
      /\ w.op = "cancel" =>
           /\ "CANCELLED" \in allowedTransitions[reservation[w.id].status]
           /\ charge[w.id] # NoRow => charge[w.id].status # "PAID"
           /\ w.amount = PendingAmount(w.id)
      /\ w.op = "pay" => charge[w.id] = [amount |-> w.amount, status |-> "PENDING"]

\* A step moves a reservation as reservation-transition.policy.ts allows,
\* and never moves it to another resource or slot.
FollowsPolicy(i) ==
  reservation'[i] # reservation[i] =>
    IF reservation[i] = NoRow
    THEN reservation'[i].status = "PENDING"
    ELSE /\ reservation'[i].status \in allowedTransitions[reservation[i].status]
         /\ reservation'[i].resource = reservation[i].resource
         /\ reservation'[i].slot = reservation[i].slot

\* approve, reject and cancel, which check the status each in its own way,
\* together make only the moves reservation-transition.policy.ts allows.
StepsFollowPolicy == [][\A i \in Ids : FollowsPolicy(i)]_vars

\* A step leaves the amount of a charge alone, and a charge that was settled
\* or cancelled altogether.
KeepsCharge(i) ==
  charge[i] # NoRow =>
    /\ charge'[i] # NoRow
    /\ charge'[i].amount = charge[i].amount
    /\ charge[i].status # "PENDING" => charge'[i] = charge[i]

\* Money is final: the amount of a charge never changes, whatever the seed
\* does to prices, and a charge that was paid or cancelled stays so.
ChargesAreFinal == [][\A i \in Ids : KeepsCharge(i)]_vars
=============================================================================
