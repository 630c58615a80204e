----------------------------- MODULE Donations -----------------------------
(* donations.service.ts: donations, the income movement each one posts and  *)
(* the reversal a cancellation posts.  cancel and remove are Serializable   *)
(* and retried; update is a Read Committed transaction that reads the row,  *)
(* decides, and later updates whatever the row has become.  amount stands  *)
(* for the two fields a donation shares with its movement (amount and       *)
(* receivedAt); the descriptive fields are left out.                       *)
EXTENDS Integers, SerializableTx

CONSTANTS Requests,    \* handlers in flight at once
          DonationIds, \* ids of Donation rows
          MovementIds, \* ids of FinancialMovement rows
          Amounts,     \* the amounts typed
          NoRow,       \* the null of a row never written
          Deleted      \* a deleted row: the database never reuses an id

VARIABLES donation, movement, tx

vars == <<donation, movement, tx>>

ASSUME DonationAmountsAssumption == Amounts \subseteq Nat \ {0}

DonationRow == [amount : Amounts, status : {"CONFIRMED", "CANCELLED"},
                original : MovementIds, reversal : MovementIds \cup {NoRow}]

MovementRow == [type : {"INCOME", "EXPENSE"}, amount : Amounts,
                source : DonationIds, reversalOf : MovementIds \cup {NoRow}]

ASSUME DonationRowsAssumption ==
  /\ NoRow # Deleted
  /\ {NoRow, Deleted} \cap (DonationRow \cup MovementRow) = {}
  /\ NoRow \notin DonationIds \cup MovementIds

\* An update that names no amount has amount 0.
Request ==
  [op : {"update"}, id : DonationIds, amount : Amounts \cup {0}]
    \cup [op : {"cancel", "remove"}, id : DonationIds, amount : {0}]

\* What a transaction carries from its reads to its writes: the amount an
\* update will write (0 for none), the original movement, and its amount
\* as a cancellation read it.
Work == [op : {"update", "cancel", "remove"}, id : DonationIds,
         amount : Amounts \cup {0}, original : MovementIds]

Handler(phase, attempt, request, work, doomed) ==
  [phase |-> phase, attempt |-> attempt, request |-> request, work |-> work,
   doomed |-> doomed]

Idle == Handler("idle", 0, NoRow, NoRow, FALSE)

HandlerState ==
  {Idle}
    \cup [phase : {"waiting"}, attempt : 1 .. MaxAttempts, request : Request,
          work : {NoRow}, doomed : {FALSE}]
    \cup [phase : {"open"}, attempt : 1 .. MaxAttempts, request : Request,
          work : Work, doomed : BOOLEAN]

Exists(row) == row \notin {NoRow, Deleted}

Live(d) == Exists(donation[d]) /\ donation[d].status = "CONFIRMED"

MovementsOf(d) == {m \in MovementIds : Exists(movement[m]) /\ movement[m].source = d}

\* The validity check of the original movement, the same in all three.
OriginalValid(d) ==
  LET m == movement[donation[d].original] IN
  Exists(m) /\ m.type = "INCOME" /\ m.source = d

SameAmount(d) == movement[donation[d].original].amount = donation[d].amount

-----------------------------------------------------------------------------
(* The early returns.                                                      *)

\* Whether an update changes the amount it shares with the movement.
Changes(r) == r.amount # 0 /\ r.amount # donation[r.id].amount

UpdateAllowed(r) == Live(r.id) /\ (Changes(r) => OriginalValid(r.id))

\* Mutant: a cancellation that does not look at the status.
CancelAnyStatus(r) ==
  Exists(donation[r.id]) /\ OriginalValid(r.id) /\ SameAmount(r.id)

CancelAllowed(r) == Live(r.id) /\ OriginalValid(r.id) /\ SameAmount(r.id)

\* Mutant: a removal that does not look at the status or the other movements.
RemoveAnyStatus(r) ==
  Exists(donation[r.id]) /\ OriginalValid(r.id) /\ SameAmount(r.id)

RemoveAllowed(r) ==
  /\ Live(r.id)
  /\ donation[r.id].reversal = NoRow
  /\ OriginalValid(r.id) /\ SameAmount(r.id)
  /\ MovementsOf(r.id) = {donation[r.id].original}

Allowed(r) ==
  \/ r.op = "update" /\ UpdateAllowed(r)
  \/ r.op = "cancel" /\ CancelAllowed(r)
  \/ r.op = "remove" /\ RemoveAllowed(r)

AmountOf(r) ==
  CASE r.op = "update" -> IF Changes(r) THEN r.amount ELSE 0
    [] r.op = "cancel" -> movement[donation[r.id].original].amount
    [] r.op = "remove" -> 0

\* What the transaction has read and will use when it writes.
WorkOf(r) ==
  [op |-> r.op, id |-> r.id, original |-> donation[r.id].original,
   amount |-> AmountOf(r)]

-----------------------------------------------------------------------------
(* Handlers.                                                               *)

Submit(q, r) ==
  /\ tx[q].phase = "idle"
  /\ tx' = [tx EXCEPT ![q] = Handler("waiting", 1, r, NoRow, FALSE)]
  /\ UNCHANGED <<donation, movement>>

Begin(q) ==
  /\ tx[q].phase = "waiting"
  /\ Allowed(tx[q].request)
  /\ tx' = [tx EXCEPT ![q] = Handler("open", @.attempt, @.request, WorkOf(@.request), FALSE)]
  /\ UNCHANGED <<donation, movement>>

Refuse(q) ==
  /\ tx[q].phase = "waiting"
  /\ ~ Allowed(tx[q].request)
  /\ tx' = [tx EXCEPT ![q] = Idle]
  /\ UNCHANGED <<donation, movement>>

\* Mutant: one attempt too many.
FailureOffByOne(q) ==
  /\ tx[q].phase = "open"
  /\ tx[q].work.op \in {"cancel", "remove"}
  /\ IF tx[q].attempt > MaxAttempts
     THEN tx' = [tx EXCEPT ![q] = Idle]
     ELSE tx' = [tx EXCEPT ![q] = Handler("waiting", @.attempt + 1, @.request, NoRow, FALSE)]
  /\ UNCHANGED <<donation, movement>>

\* Mutant: the attempts are not counted.
FailureUncounted(q) ==
  /\ tx[q].phase = "open"
  /\ tx[q].work.op \in {"cancel", "remove"}
  /\ tx' = [tx EXCEPT ![q] = Handler("waiting", @.attempt, @.request, NoRow, FALSE)]
  /\ UNCHANGED <<donation, movement>>

\* P2034 of a Serializable transaction, tried again up to MaxAttempts times.
SerializationFailure(q) ==
  /\ tx[q].phase = "open"
  /\ tx[q].work.op \in {"cancel", "remove"}
  /\ IF tx[q].attempt = MaxAttempts
     THEN tx' = [tx EXCEPT ![q] = Idle]
     ELSE tx' = [tx EXCEPT ![q] = Handler("waiting", @.attempt + 1, @.request, NoRow, FALSE)]
  /\ UNCHANGED <<donation, movement>>

\* The process dies, the connection drops or the audit insert fails.
Lose(q) ==
  /\ tx[q].phase # "idle"
  /\ tx' = [tx EXCEPT ![q] = Idle]
  /\ UNCHANGED <<donation, movement>>

\* The rows a transaction reads and writes are those of its donation, always
\* together, so the donation's id stands for them.
Footprint(w) == [reads |-> {w.id}, rows |-> {w.id}, marks |-> {}]

\* q's commit answers its caller and, when it touched rows, condemns the
\* Serializable transactions open on them.
Committed(q, touched) ==
  tx' = [p \in Requests |->
           IF p = q THEN Idle
           ELSE IF /\ touched
                   /\ tx[p].phase = "open"
                   /\ tx[p].work.op \in {"cancel", "remove"}
                   /\ Conflict(Footprint(tx[p].work), Footprint(tx[q].work))
                THEN Handler("open", tx[p].attempt, tx[p].request, tx[p].work, TRUE)
                ELSE tx[p]]

-----------------------------------------------------------------------------
(* The writes of each operation.                                           *)

Donation(amount, status, original, reversal) ==
  [amount |-> amount, status |-> status, original |-> original, reversal |-> reversal]

\* The income movement of a new donation.
OriginalMovement(d, a) ==
  [type |-> "INCOME", amount |-> a, source |-> d, reversalOf |-> NoRow]

Create(d, m, a) ==
  /\ donation[d] = NoRow
  /\ movement[m] = NoRow
  /\ donation' = [donation EXCEPT ![d] = Donation(a, "CONFIRMED", m, NoRow)]
  /\ movement' = [movement EXCEPT ![m] = OriginalMovement(d, a)]
  /\ UNCHANGED tx

\* Mutant: an update that leaves the movement behind.
ForgetsMovement(w) == movement

\* The movement follows the donation.
FollowingMovement(w) == [movement EXCEPT ![w.original].amount = w.amount]

\* update's two statements, whatever became of the row since it was read.
\* With nothing to change it may send no UPDATE at all.
CommitUpdate(q) ==
  LET w == tx[q].work IN
  /\ tx[q].phase = "open" /\ w.op = "update"
  /\ Exists(donation[w.id])
  /\ IF w.amount = 0
     THEN UNCHANGED <<donation, movement>>
     ELSE /\ donation' = [donation EXCEPT ![w.id] =
                             Donation(w.amount, @.status, @.original, @.reversal)]
          /\ movement' = FollowingMovement(w)
  /\ \E touched \in BOOLEAN : (w.amount # 0 => touched) /\ Committed(q, touched)

\* update of a row deleted meanwhile: P2025, everything rolled back.
UpdateOfDeleted(q) ==
  LET w == tx[q].work IN
  /\ tx[q].phase = "open" /\ w.op = "update"
  /\ ~ Exists(donation[w.id])
  /\ tx' = [tx EXCEPT ![q] = Idle]
  /\ UNCHANGED <<donation, movement>>

CommitCancel(q) ==
  LET w == tx[q].work IN
  /\ tx[q].phase = "open" /\ w.op = "cancel" /\ ~ tx[q].doomed
  /\ \E m \in MovementIds :
       /\ movement[m] = NoRow
       /\ movement' = [movement EXCEPT ![m] =
                         [type |-> "EXPENSE", amount |-> w.amount,
                          source |-> w.id, reversalOf |-> w.original]]
       /\ donation' = [donation EXCEPT ![w.id] =
                         Donation(@.amount, "CANCELLED", @.original, m)]
  /\ Committed(q, TRUE)

CommitRemove(q) ==
  LET w == tx[q].work IN
  /\ tx[q].phase = "open" /\ w.op = "remove" /\ ~ tx[q].doomed
  /\ donation' = [donation EXCEPT ![w.id] = Deleted]
  /\ movement' = [movement EXCEPT ![w.original] = Deleted]
  /\ Committed(q, TRUE)

-----------------------------------------------------------------------------
Init ==
  /\ donation = [d \in DonationIds |-> NoRow]
  /\ movement = [m \in MovementIds |-> NoRow]
  /\ tx = [q \in Requests |-> Idle]

Next ==
  \/ \E d \in DonationIds, m \in MovementIds, a \in Amounts : Create(d, m, a)
  \/ \E q \in Requests, r \in Request : Submit(q, r)
  \/ \E q \in Requests :
       \/ Begin(q)
       \/ Refuse(q)
       \/ SerializationFailure(q)
       \/ Lose(q)
       \/ CommitUpdate(q)
       \/ UpdateOfDeleted(q)
       \/ CommitCancel(q)
       \/ CommitRemove(q)

Spec == Init /\ [][Next]_vars

\* A step of q's transaction other than its loss.
Progress(q) ==
  \/ Begin(q) \/ Refuse(q) \/ SerializationFailure(q)
  \/ CommitUpdate(q) \/ UpdateOfDeleted(q) \/ CommitCancel(q) \/ CommitRemove(q)

\* The event loop and the database keep serving a request taken in.
FairSpec == Spec /\ \A q \in Requests : WF_vars(Progress(q))

-----------------------------------------------------------------------------
(* Properties.                                                             *)

TypeOK ==
  /\ donation \in [DonationIds -> DonationRow \cup {NoRow, Deleted}]
  /\ movement \in [MovementIds -> MovementRow \cup {NoRow, Deleted}]
  /\ tx \in [Requests -> HandlerState]

\* Two updates, an update and a removal, an update and a cancellation: a
\* donation and its income movement always carry the same amount, though
\* update reads one and writes both at another moment.
AmountsAgree ==
  \A d \in DonationIds :
    Exists(donation[d]) =>
      movement[donation[d].original] = OriginalMovement(d, donation[d].amount)

\* Two cancellations never both post a reversal, and a donation is CANCELLED
\* exactly when its one reversal is in the ledger.
ReversedOnce ==
  \A d \in DonationIds :
    Exists(donation[d]) =>
      LET reversals == {m \in MovementsOf(d) : movement[m].type = "EXPENSE"} IN
      /\ reversals # {} <=> donation[d].status = "CANCELLED"
      /\ \A m \in reversals : /\ m = donation[d].reversal
                              /\ movement[m].reversalOf = donation[d].original

\* Removing a donation races with cancelling and editing it, and never leaves
\* money behind: every movement in the ledger belongs to a donation.
NoOrphanMovement ==
  \A m \in MovementIds :
    Exists(movement[m]) =>
      /\ Exists(donation[movement[m].source])
      /\ m \in {donation[movement[m].source].original,
                donation[movement[m].source].reversal}

\* What a step does to a cancelled donation and to its reversal.
KeepsCancellation(d) ==
  Exists(donation[d]) /\ donation[d].status = "CANCELLED" =>
    /\ Exists(donation'[d])
    /\ donation'[d].status = "CANCELLED"
    /\ donation'[d].reversal = donation[d].reversal
    /\ movement'[donation[d].reversal] = movement[donation[d].reversal]

\* A cancellation is never undone: no later remove, update or second cancel
\* deletes the donation, revives it or touches its reversal.
CancellationIsFinal == [][\A d \in DonationIds : KeepsCancellation(d)]_vars

\* However often the database fails a cancellation or a removal, and however
\* the others race with it, the caller gets an answer.
EveryRequestIsAnswered ==
  \A q \in Requests : tx[q].phase # "idle" ~> tx[q].phase = "idle"

\* "Una donación cancelada no puede editarse": no step changes its amount.
CancelledIsNotEdited ==
  [][\A d \in DonationIds :
       Exists(donation[d]) /\ donation[d].status = "CANCELLED" =>
         donation'[d].amount = donation[d].amount]_vars
=============================================================================
