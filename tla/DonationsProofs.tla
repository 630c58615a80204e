--------------------------- MODULE DonationsProofs ---------------------------
(* The money of every donation stays explained, for any number of handlers,  *)
(* donations, movements, amounts and attempts.                               *)
EXTENDS Donations, TLAPS

\* The reversal a donation names is the expense it posted, and only a
\* cancelled donation names one.
ReversalsPosted ==
  \A d \in DonationIds :
    Exists(donation[d]) =>
      /\ donation[d].status = "CANCELLED" <=> donation[d].reversal # NoRow
      /\ donation[d].reversal # NoRow =>
           /\ Exists(movement[donation[d].reversal])
           /\ movement[donation[d].reversal].type = "EXPENSE"
           /\ movement[donation[d].reversal].source = d
           /\ movement[donation[d].reversal].reversalOf = donation[d].original

\* A row a transaction has read keeps its original movement.
StillLinked(w) ==
  /\ donation[w.id] # NoRow
  /\ Exists(donation[w.id]) => donation[w.id].original = w.original

\* A cancellation or a removal that nothing has doomed would decide the same.
StillCurrent(w) ==
  /\ Live(w.id)
  /\ w.op = "cancel" => w.amount = donation[w.id].amount

WorkIsLinked ==
  \A q \in Requests, w \in Work : tx[q].phase = "open" /\ tx[q].work = w => StillLinked(w)

UndoomedAreCurrent ==
  \A q \in Requests, w \in Work :
    /\ tx[q].phase = "open" /\ ~ tx[q].doomed /\ tx[q].work = w
    /\ w.op \in {"cancel", "remove"}
    => StillCurrent(w)

RowsTyped ==
  /\ donation \in [DonationIds -> DonationRow \cup {NoRow, Deleted}]
  /\ movement \in [MovementIds -> MovementRow \cup {NoRow, Deleted}]

RowsOK == RowsTyped /\ AmountsAgree /\ ReversalsPosted /\ NoOrphanMovement

IInv == TypeOK /\ RowsOK /\ WorkIsLinked /\ UndoomedAreCurrent

-----------------------------------------------------------------------------
(* The shapes of the records.                                                *)

LEMMA IdleHandler == Idle \in HandlerState /\ Idle.phase = "idle"
BY DEF HandlerState, Idle, Handler

LEMMA HandlerFields ==
  ASSUME NEW h \in HandlerState
  PROVE  /\ h.phase \in {"idle", "waiting", "open"}
         /\ h.phase # "idle" => h.attempt \in 1 .. MaxAttempts /\ h.request \in Request
         /\ h.phase = "open" => h.work \in Work
<1>1. CASE h = Idle
  BY <1>1, IdleHandler
<1>2. CASE h \in [phase : {"waiting"}, attempt : 1 .. MaxAttempts, request : Request,
                  work : {NoRow}, doomed : {FALSE}]
  BY <1>2
<1>3. CASE h \in [phase : {"open"}, attempt : 1 .. MaxAttempts, request : Request,
                  work : Work, doomed : BOOLEAN]
  BY <1>3
<1> QED
  BY <1>1, <1>2, <1>3 DEF HandlerState

LEMMA OtherHandlers ==
  ASSUME NEW n \in 1 .. MaxAttempts, NEW r \in Request
  PROVE  /\ Handler("waiting", n, r, NoRow, FALSE) \in HandlerState
         /\ \A w \in Work : /\ Handler("open", n, r, w, FALSE) \in HandlerState
                            /\ Handler("open", n, r, w, TRUE) \in HandlerState
BY DEF HandlerState, Handler

LEMMA RequestFields ==
  ASSUME NEW r \in Request
  PROVE  /\ r.op \in {"update", "cancel", "remove"} /\ r.id \in DonationIds
         /\ r.amount \in Amounts \cup {0}
BY DEF Request

LEMMA WorkFields ==
  ASSUME NEW w \in Work
  PROVE  /\ w.op \in {"update", "cancel", "remove"} /\ w.id \in DonationIds
         /\ w.amount \in Amounts \cup {0} /\ w.original \in MovementIds
BY DEF Work

LEMMA NotNull ==
  /\ \A r \in DonationRow \cup MovementRow : Exists(r)
  /\ \A m \in MovementIds : m # NoRow
  /\ ~ Exists(NoRow) /\ ~ Exists(Deleted) /\ NoRow # Deleted
BY DonationRowsAssumption DEF Exists

LEMMA DonationFields ==
  ASSUME NEW r \in DonationRow
  PROVE  /\ r.amount \in Amounts /\ r.status \in {"CONFIRMED", "CANCELLED"}
         /\ r.original \in MovementIds /\ r.reversal \in MovementIds \cup {NoRow}
BY DEF DonationRow

LEMMA MovementFields ==
  ASSUME NEW r \in MovementRow
  PROVE  /\ r.type \in {"INCOME", "EXPENSE"} /\ r.amount \in Amounts
         /\ r.source \in DonationIds /\ r.reversalOf \in MovementIds \cup {NoRow}
BY DEF MovementRow

LEMMA RowsThatExist ==
  ASSUME RowsTyped
  PROVE  /\ \A d \in DonationIds : Exists(donation[d]) => donation[d] \in DonationRow
         /\ \A m \in MovementIds : Exists(movement[m]) => movement[m] \in MovementRow
BY DEF RowsTyped, Exists

\* What holds of the original movement of a donation.
LEMMA OriginalFields ==
  ASSUME RowsTyped, AmountsAgree, NEW d \in DonationIds, Exists(donation[d])
  PROVE  LET m == donation[d].original IN
         /\ m \in MovementIds /\ movement[m] \in MovementRow
         /\ movement[m].type = "INCOME" /\ movement[m].source = d
         /\ movement[m].amount = donation[d].amount
<1>1. donation[d] \in DonationRow
  BY RowsThatExist
<1>2. movement[donation[d].original] = OriginalMovement(d, donation[d].amount)
  BY DEF AmountsAgree
<1>3. OriginalMovement(d, donation[d].amount) \in MovementRow
  BY <1>1, DonationFields DEF OriginalMovement, MovementRow
<1> QED
  BY <1>1, <1>2, <1>3, DonationFields DEF OriginalMovement

-----------------------------------------------------------------------------
(* Steps that write no row, and commits.                                     *)

LEMMA QuietStep ==
  ASSUME IInv, UNCHANGED <<donation, movement>>,
         NEW q \in Requests, NEW h \in HandlerState, tx' = [tx EXCEPT ![q] = h],
         h.phase = "open" =>
           /\ StillLinked(h.work)
           /\ h.work.op \in {"cancel", "remove"} => StillCurrent(h.work)
  PROVE  IInv'
<1>1. tx \in [Requests -> HandlerState]
  BY DEF IInv, TypeOK
<1>2. tx' \in [Requests -> HandlerState]
  BY <1>1
<1>3. \A p \in Requests : tx'[p] = IF p = q THEN h ELSE tx[p]
  BY <1>1
<1>4. \A w \in Work : /\ StillLinked(w) => StillLinked(w)'
                      /\ StillCurrent(w) => StillCurrent(w)'
  BY DEF StillLinked, StillCurrent, Live, Exists
<1>5. WorkIsLinked'
  BY <1>3, <1>4 DEF IInv, WorkIsLinked
<1>6. UndoomedAreCurrent'
  BY <1>3, <1>4 DEF IInv, UndoomedAreCurrent
<1>7. RowsOK'
  BY DEF IInv, RowsOK, RowsTyped, AmountsAgree, ReversalsPosted, NoOrphanMovement, Exists
<1> QED
  BY <1>2, <1>5, <1>6, <1>7 DEF IInv, TypeOK, RowsOK, RowsTyped

\* The commit of q touches no donation but its own, whose original stays.
OthersKept(id) ==
  /\ \A d \in DonationIds : d # id => donation'[d] = donation[d]
  /\ donation'[id] # NoRow
  /\ Exists(donation'[id]) => /\ Exists(donation[id])
                              /\ donation'[id].original = donation[id].original

LEMMA CommitStep ==
  ASSUME IInv, NEW q \in Requests, tx[q].phase = "open", NEW touched \in BOOLEAN,
         Committed(q, touched), RowsOK',
         OthersKept(tx[q].work.id), ~ touched => donation' = donation
  PROVE  IInv'
<1>1. tx \in [Requests -> HandlerState]
  BY DEF IInv, TypeOK
<1> DEFINE id == tx[q].work.id
<1>2. id \in DonationIds
  BY <1>1, HandlerFields, WorkFields
<1>3. ASSUME NEW w \in Work, StillLinked(w) PROVE StillLinked(w)'
  <2>1. CASE w.id = id
    BY <1>3, <2>1 DEF OthersKept, StillLinked
  <2>2. CASE w.id # id
    BY <1>3, <2>2, WorkFields DEF OthersKept, StillLinked, Exists
  <2> QED
    BY <2>1, <2>2
<1>4. ASSUME NEW w \in Work, StillCurrent(w), w.id # id \/ ~ touched
      PROVE  StillCurrent(w)'
  BY <1>4, WorkFields DEF OthersKept, StillCurrent, Live, Exists
<1>5. ASSUME NEW p \in Requests
      PROVE  /\ tx'[p] \in HandlerState
             /\ \A w \in Work : tx'[p].phase = "open" /\ tx'[p].work = w => StillLinked(w)'
             /\ \A w \in Work :
                  /\ tx'[p].phase = "open" /\ ~ tx'[p].doomed /\ tx'[p].work = w
                  /\ w.op \in {"cancel", "remove"}
                  => StillCurrent(w)'
  <2> DEFINE condemned == /\ touched
                          /\ tx[p].phase = "open"
                          /\ tx[p].work.op \in {"cancel", "remove"}
                          /\ Conflict(Footprint(tx[p].work), Footprint(tx[q].work))
  <2>0. tx'[p] = IF p = q THEN Idle
                 ELSE IF condemned
                      THEN Handler("open", tx[p].attempt, tx[p].request, tx[p].work, TRUE)
                      ELSE tx[p]
    BY DEF Committed
  <2>1. CASE p = q
    <3>1. tx'[p] = Idle
      BY <2>0, <2>1
    <3>2. tx'[p] \in HandlerState /\ tx'[p].phase = "idle"
      BY <3>1, IdleHandler
    <3> QED
      BY <3>2
  <2>2. CASE p # q /\ condemned
    <3>1. tx'[p] = Handler("open", tx[p].attempt, tx[p].request, tx[p].work, TRUE)
      BY <2>0, <2>2
    <3>2. tx[p] \in HandlerState /\ tx[p].phase = "open"
      BY <1>1, <2>2
    <3>3. tx[p].attempt \in 1 .. MaxAttempts /\ tx[p].request \in Request /\ tx[p].work \in Work
      BY <3>2, HandlerFields
    <3>4. tx'[p] \in HandlerState
      BY <3>1, <3>3, OtherHandlers
    <3>5. tx'[p].doomed = TRUE /\ tx'[p].work = tx[p].work
      BY <3>1 DEF Handler
    <3>6. \A w \in Work : tx'[p].work = w => StillLinked(w)
      BY <3>2, <3>5 DEF IInv, WorkIsLinked
    <3> QED
      BY <1>3, <3>4, <3>5, <3>6
  <2>3. CASE p # q /\ ~ condemned
    <3>1. tx'[p] = tx[p]
      BY <2>0, <2>3
    <3>2. ASSUME NEW w \in Work, tx[p].phase = "open", tx[p].work = w PROVE StillLinked(w)'
      BY <1>3, <3>2 DEF IInv, WorkIsLinked
    <3>3. ASSUME NEW w \in Work, tx[p].phase = "open", ~ tx[p].doomed, tx[p].work = w,
                 w.op \in {"cancel", "remove"}
          PROVE  StillCurrent(w)'
      <4>1. StillCurrent(w)
        BY <3>3 DEF IInv, UndoomedAreCurrent
      <4>2. w.id = id => Conflict(Footprint(w), Footprint(tx[q].work))
        BY DEF Conflict, Footprint
      <4>3. w.id # id \/ ~ touched
        BY <2>3, <3>3, <4>2
      <4> QED
        BY <1>4, <4>1, <4>3
    <3> QED
      BY <1>1, <3>1, <3>2, <3>3
  <2> QED
    BY <2>1, <2>2, <2>3
<1>6. tx' \in [Requests -> HandlerState]
  BY <1>5 DEF Committed
<1>7. WorkIsLinked' /\ UndoomedAreCurrent'
  BY <1>5 DEF WorkIsLinked, UndoomedAreCurrent
<1> QED
  BY <1>6, <1>7 DEF IInv, TypeOK, RowsOK, RowsTyped

-----------------------------------------------------------------------------
(* The steps that write rows, one by one.                                    *)

LEMMA CreateStep ==
  ASSUME IInv, NEW d \in DonationIds, NEW m \in MovementIds, NEW a \in Amounts,
         Create(d, m, a)
  PROVE  IInv'
<1> DEFINE row == Donation(a, "CONFIRMED", m, NoRow)
           mov == OriginalMovement(d, a)
<1>1. donation[d] = NoRow /\ movement[m] = NoRow /\ tx' = tx
  BY DEF Create
<1>2. /\ row \in DonationRow /\ row.amount = a /\ row.status = "CONFIRMED"
      /\ row.original = m /\ row.reversal = NoRow
  BY DEF Donation, DonationRow
<1>3. mov \in MovementRow /\ mov.source = d
  BY DEF OriginalMovement, MovementRow
<1>4. donation' = [donation EXCEPT ![d] = row] /\ movement' = [movement EXCEPT ![m] = mov]
  BY DEF Create
<1> HIDE DEF row
<1>5. RowsTyped
  BY DEF IInv, RowsOK
<1>6. /\ RowsTyped'
      /\ \A x \in DonationIds : donation'[x] = IF x = d THEN row ELSE donation[x]
      /\ \A x \in MovementIds : movement'[x] = IF x = m THEN mov ELSE movement[x]
  BY <1>2, <1>3, <1>4, <1>5 DEF RowsTyped
<1>7. ~ Exists(donation[d]) /\ ~ Exists(movement[m]) /\ Exists(row) /\ Exists(mov)
  BY <1>1, <1>2, <1>3, NotNull
<1>8. AmountsAgree'
  <2> SUFFICES ASSUME NEW x \in DonationIds, Exists(donation'[x])
               PROVE  movement'[donation'[x].original] = OriginalMovement(x, donation'[x].amount)
    BY DEF AmountsAgree, Exists, OriginalMovement
  <2>1. CASE x = d
    BY <1>2, <1>6, <2>1
  <2>2. CASE x # d
    <3>1. donation'[x] = donation[x] /\ Exists(donation[x])
      BY <1>6, <2>2
    <3>2. donation[x].original \in MovementIds /\ donation[x].original # m
      BY <1>5, <1>7, <3>1, OriginalFields, NotNull DEF IInv, RowsOK
    <3> QED
      BY <1>6, <3>1, <3>2 DEF IInv, RowsOK, AmountsAgree
  <2> QED
    BY <2>1, <2>2
<1>9. ReversalsPosted'
  <2> SUFFICES ASSUME NEW x \in DonationIds, Exists(donation'[x])
               PROVE  /\ donation'[x].status = "CANCELLED" <=> donation'[x].reversal # NoRow
                      /\ donation'[x].reversal # NoRow =>
                           /\ Exists(movement'[donation'[x].reversal])
                           /\ movement'[donation'[x].reversal].type = "EXPENSE"
                           /\ movement'[donation'[x].reversal].source = x
                           /\ movement'[donation'[x].reversal].reversalOf
                                = donation'[x].original
    BY DEF ReversalsPosted, Exists
  <2>1. CASE x = d
    BY <1>2, <1>6, <2>1
  <2>2. CASE x # d
    <3>1. donation'[x] = donation[x] /\ Exists(donation[x])
      BY <1>6, <2>2
    <3>2. donation[x].reversal # NoRow => /\ donation[x].reversal \in MovementIds
                                          /\ donation[x].reversal # m
      BY <1>5, <1>7, <3>1, RowsThatExist, DonationFields DEF IInv, RowsOK, ReversalsPosted
    <3> QED
      BY <1>6, <3>1, <3>2 DEF IInv, RowsOK, ReversalsPosted
  <2> QED
    BY <2>1, <2>2
<1>10. NoOrphanMovement'
  <2> SUFFICES ASSUME NEW x \in MovementIds, Exists(movement'[x])
               PROVE  /\ Exists(donation'[movement'[x].source])
                      /\ x \in {donation'[movement'[x].source].original,
                                donation'[movement'[x].source].reversal}
    BY DEF NoOrphanMovement, Exists
  <2>1. CASE x = m
    BY <1>2, <1>3, <1>6, <1>7, <2>1
  <2>2. CASE x # m
    <3>1. movement'[x] = movement[x] /\ Exists(movement[x])
      BY <1>6, <2>2
    <3>2. movement[x].source \in DonationIds
      BY <1>5, <3>1, RowsThatExist, MovementFields
    <3>3. Exists(donation[movement[x].source])
      BY <3>1 DEF IInv, RowsOK, NoOrphanMovement
    <3>4. donation'[movement[x].source] = donation[movement[x].source]
      BY <1>6, <1>7, <3>2, <3>3
    <3> QED
      BY <3>1, <3>3, <3>4 DEF IInv, RowsOK, NoOrphanMovement
  <2> QED
    BY <2>1, <2>2
<1>11. ASSUME NEW w \in Work
       PROVE  StillLinked(w) => StillLinked(w)' /\ (StillCurrent(w) => StillCurrent(w)')
  BY <1>1, <1>6, WorkFields DEF StillLinked, StillCurrent, Live, Exists
<1>12. WorkIsLinked'
  BY <1>1, <1>11 DEF IInv, WorkIsLinked
<1>13. UndoomedAreCurrent'
  BY <1>1, <1>11 DEF IInv, UndoomedAreCurrent, WorkIsLinked
<1> QED
  BY <1>1, <1>6, <1>8, <1>9, <1>10, <1>12, <1>13 DEF IInv, TypeOK, RowsOK, RowsTyped

\* What the handler that commits knows of its donation.
LEMMA CommitterKnows ==
  ASSUME IInv, NEW q \in Requests, tx[q].phase = "open"
  PROVE  /\ tx[q].work \in Work /\ tx[q].work.id \in DonationIds
         /\ StillLinked(tx[q].work)
         /\ ~ tx[q].doomed /\ tx[q].work.op \in {"cancel", "remove"}
              => StillCurrent(tx[q].work)
<1>1. tx[q].work \in Work
  BY HandlerFields DEF IInv, TypeOK
<1> QED
  BY <1>1, WorkFields DEF IInv, WorkIsLinked, UndoomedAreCurrent

\* The donation an open update writes to, and its movement.
LEMMA UpdateWrites ==
  ASSUME IInv, NEW q \in Requests, CommitUpdate(q), tx[q].work.amount # 0
  PROVE  LET w == tx[q].work IN
         /\ RowsTyped' /\ Exists(donation[w.id])
         /\ \A d \in DonationIds : d # w.id => donation'[d] = donation[d]
         /\ donation'[w.id] \in DonationRow
         /\ donation'[w.id].amount = w.amount
         /\ donation'[w.id].status = donation[w.id].status
         /\ donation'[w.id].original = donation[w.id].original
         /\ donation'[w.id].reversal = donation[w.id].reversal
         /\ w.original = donation[w.id].original
         /\ \A m \in MovementIds : m # w.original => movement'[m] = movement[m]
         /\ movement'[w.original] = OriginalMovement(w.id, w.amount)
<1> DEFINE w == tx[q].work
           row == Donation(w.amount, donation[w.id].status, donation[w.id].original,
                           donation[w.id].reversal)
<1>1. w \in Work /\ w.id \in DonationIds /\ StillLinked(w) /\ Exists(donation[w.id])
  BY CommitterKnows DEF CommitUpdate
<1>2. w.amount \in Amounts
  BY <1>1, WorkFields
<1>3. /\ donation' = [donation EXCEPT ![w.id] = row]
      /\ movement' = [movement EXCEPT ![w.original].amount = w.amount]
  BY DEF CommitUpdate, FollowingMovement
<1>4. RowsTyped /\ AmountsAgree
  BY DEF IInv, RowsOK
<1>5. donation[w.id] \in DonationRow /\ w.original = donation[w.id].original
  BY <1>1, <1>4, RowsThatExist DEF StillLinked
<1>6. /\ row \in DonationRow /\ row.amount = w.amount
      /\ row.status = donation[w.id].status /\ row.original = donation[w.id].original
      /\ row.reversal = donation[w.id].reversal
  BY <1>2, <1>5, DonationFields DEF Donation, DonationRow
<1> HIDE DEF row, w
<1>7. movement[w.original] = OriginalMovement(w.id, donation[w.id].amount)
  BY <1>1, <1>4, <1>5 DEF AmountsAgree
<1>8. w.original \in MovementIds
  BY <1>5, DonationFields
<1>9. movement'[w.original] = OriginalMovement(w.id, w.amount)
  <2>1. movement'[w.original] = [movement[w.original] EXCEPT !.amount = w.amount]
    BY <1>3, <1>4, <1>8 DEF RowsTyped
  <2> QED
    BY <1>7, <2>1 DEF OriginalMovement
<1>10. OriginalMovement(w.id, w.amount) \in MovementRow
  BY <1>1, <1>2 DEF OriginalMovement, MovementRow
<1>11. \A m \in MovementIds : m # w.original => movement'[m] = movement[m]
  BY <1>3, <1>4 DEF RowsTyped
<1>12. movement' \in [MovementIds -> MovementRow \cup {NoRow, Deleted}]
  <2>1. movement' = [m \in MovementIds |-> movement'[m]]
    BY <1>3, <1>4 DEF RowsTyped
  <2>2. \A m \in MovementIds : movement'[m] \in MovementRow \cup {NoRow, Deleted}
    BY <1>4, <1>9, <1>10, <1>11 DEF RowsTyped
  <2> QED
    BY <2>1, <2>2
<1>13. /\ donation' \in [DonationIds -> DonationRow \cup {NoRow, Deleted}]
       /\ \A d \in DonationIds : donation'[d] = IF d = w.id THEN row ELSE donation[d]
  BY <1>1, <1>3, <1>4, <1>6 DEF RowsTyped
<1> QED
  BY <1>1, <1>5, <1>6, <1>9, <1>11, <1>12, <1>13 DEF RowsTyped, w

LEMMA UpdateCommits ==
  ASSUME IInv, NEW q \in Requests, CommitUpdate(q)
  PROVE  IInv'
<1> DEFINE w == tx[q].work
<1>1. PICK touched \in BOOLEAN : (w.amount # 0 => touched) /\ Committed(q, touched)
  BY DEF CommitUpdate
<1>2. tx[q].phase = "open" /\ w.id \in DonationIds /\ StillLinked(w)
  BY CommitterKnows DEF CommitUpdate
<1>3. CASE w.amount = 0
  <2>1. UNCHANGED <<donation, movement>>
    BY <1>3 DEF CommitUpdate
  <2>2. RowsOK'
    BY <2>1 DEF IInv, RowsOK, RowsTyped, AmountsAgree, ReversalsPosted, NoOrphanMovement,
       Exists
  <2>3. OthersKept(w.id)
    BY <1>2, <2>1 DEF OthersKept, StillLinked, Exists
  <2> QED
    BY <1>1, <1>2, <2>1, <2>2, <2>3, CommitStep
<1>4. CASE w.amount # 0
  <2>1. /\ RowsTyped' /\ Exists(donation[w.id])
        /\ \A d \in DonationIds : d # w.id => donation'[d] = donation[d]
        /\ donation'[w.id] \in DonationRow
        /\ donation'[w.id].amount = w.amount
        /\ donation'[w.id].status = donation[w.id].status
        /\ donation'[w.id].original = donation[w.id].original
        /\ donation'[w.id].reversal = donation[w.id].reversal
        /\ w.original = donation[w.id].original
        /\ \A m \in MovementIds : m # w.original => movement'[m] = movement[m]
        /\ movement'[w.original] = OriginalMovement(w.id, w.amount)
    BY <1>4, UpdateWrites
  <2> HIDE DEF w
  <2>2. RowsTyped /\ AmountsAgree /\ ReversalsPosted /\ NoOrphanMovement
    BY DEF IInv, RowsOK
  <2>3. ASSUME NEW d \in DonationIds, d # w.id, Exists(donation[d])
        PROVE  donation[d].original # w.original /\ donation[d].original \in MovementIds
    BY <1>2, <2>1, <2>2, <2>3, OriginalFields
  <2>4. ASSUME NEW d \in DonationIds, Exists(donation[d]), donation[d].reversal # NoRow
        PROVE  /\ donation[d].reversal # w.original
               /\ donation[d].reversal \in MovementIds
    <3>1. movement[donation[d].reversal].type = "EXPENSE"
      BY <2>2, <2>4 DEF ReversalsPosted
    <3>2. movement[w.original].type = "INCOME"
      BY <1>2, <2>1, <2>2, OriginalFields
    <3> QED
      BY <2>2, <2>4, <3>1, <3>2, RowsThatExist, DonationFields
  <2>5. AmountsAgree'
    <3> SUFFICES ASSUME NEW d \in DonationIds, Exists(donation'[d])
                 PROVE  movement'[donation'[d].original]
                          = OriginalMovement(d, donation'[d].amount)
      BY DEF AmountsAgree, Exists, OriginalMovement
    <3>1. CASE d = w.id
      BY <2>1, <3>1
    <3>2. CASE d # w.id
      <4>1. donation'[d] = donation[d] /\ Exists(donation[d])
        BY <2>1, <3>2
      <4>2. movement'[donation[d].original] = movement[donation[d].original]
        BY <2>1, <2>3, <3>2, <4>1
      <4> QED
        BY <2>2, <4>1, <4>2 DEF AmountsAgree
    <3> QED
      BY <3>1, <3>2
  <2>6. ReversalsPosted'
    <3> SUFFICES ASSUME NEW d \in DonationIds, Exists(donation'[d])
                 PROVE  /\ donation'[d].status = "CANCELLED" <=> donation'[d].reversal # NoRow
                        /\ donation'[d].reversal # NoRow =>
                             /\ Exists(movement'[donation'[d].reversal])
                             /\ movement'[donation'[d].reversal].type = "EXPENSE"
                             /\ movement'[donation'[d].reversal].source = d
                             /\ movement'[donation'[d].reversal].reversalOf
                                  = donation'[d].original
      BY DEF ReversalsPosted, Exists
    <3>1. /\ Exists(donation[d]) /\ donation'[d].status = donation[d].status
          /\ donation'[d].original = donation[d].original
          /\ donation'[d].reversal = donation[d].reversal
      BY <2>1
    <3>2. donation[d].reversal # NoRow
            => movement'[donation[d].reversal] = movement[donation[d].reversal]
      BY <2>1, <2>4, <3>1
    <3> QED
      BY <2>2, <3>1, <3>2 DEF ReversalsPosted
  <2>7. NoOrphanMovement'
    <3> SUFFICES ASSUME NEW m \in MovementIds, Exists(movement'[m])
                 PROVE  /\ Exists(donation'[movement'[m].source])
                        /\ m \in {donation'[movement'[m].source].original,
                                  donation'[movement'[m].source].reversal}
      BY DEF NoOrphanMovement, Exists
    <3>1. CASE m = w.original
      <4>1. movement'[m].source = w.id
        BY <2>1, <3>1 DEF OriginalMovement
      <4> QED
        BY <2>1, <3>1, <4>1, NotNull
    <3>2. CASE m # w.original
      <4>1. movement'[m] = movement[m] /\ Exists(movement[m])
        BY <2>1, <3>2
      <4>2. movement[m].source \in DonationIds
        BY <2>2, <4>1, RowsThatExist, MovementFields
      <4>3. /\ donation'[movement[m].source].original = donation[movement[m].source].original
            /\ donation'[movement[m].source].reversal = donation[movement[m].source].reversal
        BY <2>1, <4>2
      <4>4. Exists(donation[movement[m].source]) => Exists(donation'[movement[m].source])
        BY <2>1, <4>2, NotNull
      <4> QED
        BY <2>2, <4>1, <4>3, <4>4 DEF NoOrphanMovement
    <3> QED
      BY <3>1, <3>2
  <2>8. RowsOK'
    BY <2>1, <2>5, <2>6, <2>7 DEF RowsOK
  <2>9. OthersKept(w.id)
    BY <2>1, NotNull DEF OthersKept
  <2>10. touched = TRUE
    BY <1>1, <1>4 DEF w
  <2>11. OthersKept(tx[q].work.id) /\ (~ touched => donation' = donation)
    BY <2>9, <2>10 DEF w
  <2> QED
    BY <1>1, <1>2, <2>8, <2>11, CommitStep
<1> QED
  BY <1>3, <1>4

LEMMA CancelCommits ==
  ASSUME IInv, NEW q \in Requests, CommitCancel(q)
  PROVE  IInv'
<1> DEFINE w == tx[q].work
<1>1. PICK m \in MovementIds :
        /\ movement[m] = NoRow
        /\ movement' = [movement EXCEPT ![m] = [type |-> "EXPENSE", amount |-> w.amount,
                                                source |-> w.id, reversalOf |-> w.original]]
        /\ donation' = [donation EXCEPT ![w.id] =
                          Donation(@.amount, "CANCELLED", @.original, m)]
  BY DEF CommitCancel
<1>2. /\ w \in Work /\ w.id \in DonationIds /\ StillLinked(w) /\ StillCurrent(w)
      /\ w.op = "cancel" /\ tx[q].phase = "open" /\ Committed(q, TRUE)
  BY CommitterKnows DEF CommitCancel
<1> DEFINE mov == [type |-> "EXPENSE", amount |-> w.amount, source |-> w.id,
                   reversalOf |-> w.original]
           row == Donation(donation[w.id].amount, "CANCELLED", donation[w.id].original, m)
<1>3. movement' = [movement EXCEPT ![m] = mov] /\ donation' = [donation EXCEPT ![w.id] = row]
  BY <1>1
<1>4. RowsTyped /\ AmountsAgree /\ ReversalsPosted /\ NoOrphanMovement
  BY DEF IInv, RowsOK
<1>5. /\ Exists(donation[w.id]) /\ donation[w.id] \in DonationRow
      /\ donation[w.id].status = "CONFIRMED" /\ donation[w.id].reversal = NoRow
      /\ w.amount = donation[w.id].amount /\ w.original = donation[w.id].original
  BY <1>2, <1>4, RowsThatExist DEF StillCurrent, StillLinked, Live, ReversalsPosted
<1>6. /\ row \in DonationRow /\ row.amount = donation[w.id].amount
      /\ row.status = "CANCELLED" /\ row.reversal = m /\ m # NoRow
      /\ row.original = donation[w.id].original
  BY <1>5, DonationFields, NotNull DEF Donation, DonationRow
<1>7. /\ mov \in MovementRow /\ mov.type = "EXPENSE" /\ mov.source = w.id
      /\ mov.reversalOf = w.original
  BY <1>2, <1>5, DonationFields DEF MovementRow
<1>8. movement[m] = NoRow
  BY <1>1
<1> HIDE DEF w, mov, row
<1>9. /\ RowsTyped'
      /\ \A d \in DonationIds : donation'[d] = IF d = w.id THEN row ELSE donation[d]
      /\ \A x \in MovementIds : movement'[x] = IF x = m THEN mov ELSE movement[x]
  BY <1>2, <1>3, <1>4, <1>6, <1>7 DEF RowsTyped
<1>10. ~ Exists(movement[m]) /\ Exists(mov) /\ Exists(row)
  BY <1>6, <1>7, <1>8, NotNull
<1>11. ASSUME NEW d \in DonationIds, Exists(donation[d])
       PROVE  /\ donation[d].original \in MovementIds /\ donation[d].original # m
              /\ donation[d].reversal # NoRow =>
                   donation[d].reversal \in MovementIds /\ donation[d].reversal # m
  <2>1. donation[d].original \in MovementIds /\ donation[d].original # m
    BY <1>4, <1>10, <1>11, OriginalFields, NotNull
  <2>2. donation[d].reversal # NoRow =>
          donation[d].reversal \in MovementIds /\ donation[d].reversal # m
    BY <1>4, <1>10, <1>11, RowsThatExist, DonationFields DEF ReversalsPosted
  <2> QED
    BY <2>1, <2>2
<1>12. AmountsAgree'
  <2> SUFFICES ASSUME NEW d \in DonationIds, Exists(donation'[d])
               PROVE  movement'[donation'[d].original]
                        = OriginalMovement(d, donation'[d].amount)
    BY DEF AmountsAgree, Exists, OriginalMovement
  <2>1. /\ Exists(donation[d]) /\ donation'[d].original = donation[d].original
        /\ donation'[d].amount = donation[d].amount
    BY <1>5, <1>6, <1>9
  <2>2. movement'[donation[d].original] = movement[donation[d].original]
    BY <1>9, <1>11, <2>1
  <2> QED
    BY <1>4, <2>1, <2>2 DEF AmountsAgree
<1>13. ReversalsPosted'
  <2> SUFFICES ASSUME NEW d \in DonationIds, Exists(donation'[d])
               PROVE  /\ donation'[d].status = "CANCELLED" <=> donation'[d].reversal # NoRow
                      /\ donation'[d].reversal # NoRow =>
                           /\ Exists(movement'[donation'[d].reversal])
                           /\ movement'[donation'[d].reversal].type = "EXPENSE"
                           /\ movement'[donation'[d].reversal].source = d
                           /\ movement'[donation'[d].reversal].reversalOf
                                = donation'[d].original
    BY DEF ReversalsPosted, Exists
  <2>1. CASE d = w.id
    BY <1>5, <1>6, <1>7, <1>9, <1>10, <2>1
  <2>2. CASE d # w.id
    <3>1. donation'[d] = donation[d] /\ Exists(donation[d])
      BY <1>9, <2>2
    <3>2. donation[d].reversal # NoRow
            => movement'[donation[d].reversal] = movement[donation[d].reversal]
      BY <1>9, <1>11, <3>1
    <3> QED
      BY <1>4, <3>1, <3>2 DEF ReversalsPosted
  <2> QED
    BY <2>1, <2>2
<1>14. NoOrphanMovement'
  <2> SUFFICES ASSUME NEW x \in MovementIds, Exists(movement'[x])
               PROVE  /\ Exists(donation'[movement'[x].source])
                      /\ x \in {donation'[movement'[x].source].original,
                                donation'[movement'[x].source].reversal}
    BY DEF NoOrphanMovement, Exists
  <2>1. CASE x = m
    BY <1>2, <1>6, <1>7, <1>9, <1>10, <2>1
  <2>2. CASE x # m
    <3>1. movement'[x] = movement[x] /\ Exists(movement[x])
      BY <1>9, <2>2
    <3>2. movement[x].source \in DonationIds
      BY <1>4, <3>1, RowsThatExist, MovementFields
    <3>3. /\ Exists(donation[movement[x].source])
          /\ x \in {donation[movement[x].source].original,
                    donation[movement[x].source].reversal}
      BY <1>4, <3>1 DEF NoOrphanMovement
    <3>4. CASE movement[x].source = w.id
      <4>1. x \in {donation[w.id].original, NoRow}
        BY <1>5, <3>3, <3>4
      <4>2. x = donation[w.id].original
        BY <4>1, NotNull
      <4> QED
        BY <1>2, <1>6, <1>9, <1>10, <3>1, <3>4, <4>2
    <3>5. CASE movement[x].source # w.id
      BY <1>9, <3>1, <3>2, <3>3, <3>5
    <3> QED
      BY <3>4, <3>5
  <2> QED
    BY <2>1, <2>2
<1>15. RowsOK'
  BY <1>9, <1>12, <1>13, <1>14 DEF RowsOK
<1>16. OthersKept(tx[q].work.id)
  BY <1>2, <1>5, <1>6, <1>9, NotNull DEF OthersKept, w
<1> QED
  BY <1>2, <1>15, <1>16, CommitStep

LEMMA RemoveCommits ==
  ASSUME IInv, NEW q \in Requests, CommitRemove(q)
  PROVE  IInv'
<1> DEFINE w == tx[q].work
<1>1. /\ w \in Work /\ w.id \in DonationIds /\ StillLinked(w) /\ StillCurrent(w)
      /\ tx[q].phase = "open" /\ Committed(q, TRUE)
      /\ donation' = [donation EXCEPT ![w.id] = Deleted]
      /\ movement' = [movement EXCEPT ![w.original] = Deleted]
  BY CommitterKnows DEF CommitRemove
<1>2. RowsTyped /\ AmountsAgree /\ ReversalsPosted /\ NoOrphanMovement
  BY DEF IInv, RowsOK
<1>3. /\ Exists(donation[w.id]) /\ donation[w.id].reversal = NoRow
      /\ w.original = donation[w.id].original
  BY <1>1, <1>2 DEF StillCurrent, StillLinked, Live, ReversalsPosted, RowsTyped, DonationRow,
     Exists
<1> HIDE DEF w
<1>4. w.original \in MovementIds /\ movement[w.original].type = "INCOME"
      /\ movement[w.original].source = w.id
  BY <1>1, <1>2, <1>3, OriginalFields
<1>5. /\ RowsTyped'
      /\ \A d \in DonationIds : donation'[d] = IF d = w.id THEN Deleted ELSE donation[d]
      /\ \A x \in MovementIds :
           movement'[x] = IF x = w.original THEN Deleted ELSE movement[x]
  BY <1>1, <1>2, <1>4 DEF RowsTyped
<1>6. ASSUME NEW d \in DonationIds, Exists(donation'[d])
      PROVE  /\ d # w.id /\ donation'[d] = donation[d]
             /\ donation[d].original \in MovementIds /\ donation[d].original # w.original
             /\ donation[d].reversal # NoRow =>
                  donation[d].reversal \in MovementIds /\ donation[d].reversal # w.original
  <2>1. d # w.id /\ donation'[d] = donation[d]
    BY <1>5, <1>6, NotNull
  <2>2. donation[d].original \in MovementIds /\ donation[d].original # w.original
    BY <1>2, <1>4, <1>6, <2>1, OriginalFields
  <2>3. donation[d].reversal # NoRow =>
          donation[d].reversal \in MovementIds /\ donation[d].reversal # w.original
    BY <1>2, <1>4, <1>6, <2>1, RowsThatExist, DonationFields DEF ReversalsPosted
  <2> QED
    BY <2>1, <2>2, <2>3
<1>7. AmountsAgree'
  <2> SUFFICES ASSUME NEW d \in DonationIds, Exists(donation'[d])
               PROVE  movement'[donation'[d].original]
                        = OriginalMovement(d, donation'[d].amount)
    BY DEF AmountsAgree, Exists, OriginalMovement
  <2>1. movement'[donation[d].original] = movement[donation[d].original]
    BY <1>5, <1>6
  <2> QED
    BY <1>2, <1>6, <2>1 DEF AmountsAgree
<1>8. ReversalsPosted'
  <2> SUFFICES ASSUME NEW d \in DonationIds, Exists(donation'[d])
               PROVE  /\ donation'[d].status = "CANCELLED" <=> donation'[d].reversal # NoRow
                      /\ donation'[d].reversal # NoRow =>
                           /\ Exists(movement'[donation'[d].reversal])
                           /\ movement'[donation'[d].reversal].type = "EXPENSE"
                           /\ movement'[donation'[d].reversal].source = d
                           /\ movement'[donation'[d].reversal].reversalOf
                                = donation'[d].original
    BY DEF ReversalsPosted, Exists
  <2>1. donation[d].reversal # NoRow
          => movement'[donation[d].reversal] = movement[donation[d].reversal]
    BY <1>5, <1>6
  <2> QED
    BY <1>2, <1>6, <2>1 DEF ReversalsPosted
<1>9. NoOrphanMovement'
  <2> SUFFICES ASSUME NEW x \in MovementIds, Exists(movement'[x])
               PROVE  /\ Exists(donation'[movement'[x].source])
                      /\ x \in {donation'[movement'[x].source].original,
                                donation'[movement'[x].source].reversal}
    BY DEF NoOrphanMovement, Exists
  <2>1. x # w.original /\ movement'[x] = movement[x]
    BY <1>5, NotNull
  <2>2. movement[x].source \in DonationIds
    BY <1>2, <2>1, RowsThatExist, MovementFields
  <2>3. /\ Exists(donation[movement[x].source])
        /\ x \in {donation[movement[x].source].original,
                  donation[movement[x].source].reversal}
    BY <1>2, <2>1 DEF NoOrphanMovement
  <2>4. movement[x].source # w.id
    BY <1>3, <2>1, <2>3, NotNull
  <2> QED
    BY <1>5, <2>1, <2>2, <2>3, <2>4
<1>10. RowsOK'
  BY <1>5, <1>7, <1>8, <1>9 DEF RowsOK
<1>11. OthersKept(tx[q].work.id)
  BY <1>1, <1>5, NotNull DEF OthersKept, w
<1> QED
  BY <1>1, <1>10, <1>11, CommitStep

-----------------------------------------------------------------------------
(* The steps that write no row.                                              *)

LEMMA SubmitStep ==
  ASSUME IInv, NEW q \in Requests, NEW r \in Request, Submit(q, r)
  PROVE  IInv'
<1> DEFINE h == Handler("waiting", 1, r, NoRow, FALSE)
<1>0. 1 \in 1 .. MaxAttempts
  BY AttemptsAssumption
<1>1. h \in HandlerState
  BY <1>0, OtherHandlers
<1>2. tx' = [tx EXCEPT ![q] = h] /\ UNCHANGED <<donation, movement>>
  BY DEF Submit
<1>3. h.phase = "waiting"
  BY DEF Handler
<1> HIDE DEF h
<1> QED
  BY <1>1, <1>2, <1>3, QuietStep

LEMMA BeginStep ==
  ASSUME IInv, NEW q \in Requests, Begin(q)
  PROVE  IInv'
<1> DEFINE r == tx[q].request
           w == WorkOf(r)
           h == Handler("open", tx[q].attempt, r, w, FALSE)
<1>1. tx[q] \in HandlerState /\ tx[q].phase = "waiting"
  BY DEF IInv, TypeOK, Begin
<1>2. tx[q].attempt \in 1 .. MaxAttempts /\ r \in Request
  BY <1>1, HandlerFields
<1>3. Allowed(r)
  BY DEF Begin
<1>4. tx' = [tx EXCEPT ![q] = h] /\ UNCHANGED <<donation, movement>>
  BY DEF Begin, IInv, TypeOK
<1>5. h.phase = "open" /\ h.work = w
  BY DEF Handler
<1>6. /\ w.op = r.op /\ w.id = r.id /\ w.original = donation[r.id].original
      /\ w.amount = AmountOf(r)
  BY DEF WorkOf
<1> HIDE DEF h, r
<1>7. r.id \in DonationIds /\ r.op \in {"update", "cancel", "remove"}
      /\ r.amount \in Amounts \cup {0}
  BY <1>2, RequestFields
<1>8. Live(r.id)
  BY <1>3 DEF Allowed, UpdateAllowed, CancelAllowed, RemoveAllowed
<1>9. Exists(donation[r.id]) /\ donation[r.id] # NoRow
  BY <1>8, NotNull DEF Live
<1>10. /\ donation[r.id].original \in MovementIds
       /\ movement[donation[r.id].original].amount = donation[r.id].amount
       /\ donation[r.id].amount \in Amounts
  BY <1>7, <1>9, OriginalFields, RowsThatExist, DonationFields DEF IInv, RowsOK
<1>11. w.amount \in Amounts \cup {0} /\ (r.op = "cancel" => w.amount = donation[r.id].amount)
  <2>1. CASE r.op = "update"
    BY <1>6, <1>7, <2>1 DEF AmountOf
  <2>2. CASE r.op = "cancel"
    BY <1>6, <1>10, <2>2 DEF AmountOf
  <2>3. CASE r.op = "remove"
    BY <1>6, <2>3 DEF AmountOf
  <2> QED
    BY <1>7, <2>1, <2>2, <2>3
<1>12. w \in Work
  BY <1>6, <1>7, <1>10, <1>11 DEF Work, WorkOf
<1> HIDE DEF w
<1>13. StillLinked(w) /\ StillCurrent(w)
  BY <1>6, <1>8, <1>9, <1>11 DEF StillLinked, StillCurrent
<1>14. h \in HandlerState
  BY <1>2, <1>12, OtherHandlers DEF h
<1> QED
  BY <1>4, <1>5, <1>13, <1>14, QuietStep

LEMMA SerializationFailureStep ==
  ASSUME IInv, NEW q \in Requests, SerializationFailure(q)
  PROVE  IInv'
<1> DEFINE h == Handler("waiting", tx[q].attempt + 1, tx[q].request, NoRow, FALSE)
<1>1. tx \in [Requests -> HandlerState] /\ UNCHANGED <<donation, movement>>
  BY DEF IInv, TypeOK, SerializationFailure
<1>2. tx[q] \in HandlerState /\ tx[q].phase = "open"
  BY <1>1 DEF SerializationFailure
<1>3. tx[q].attempt \in 1 .. MaxAttempts /\ tx[q].request \in Request
  BY <1>2, HandlerFields
<1>4. CASE tx[q].attempt = MaxAttempts
  BY <1>1, <1>4, IdleHandler, QuietStep DEF SerializationFailure
<1>5. CASE tx[q].attempt # MaxAttempts
  <2>1. tx[q].attempt + 1 \in 1 .. MaxAttempts
    BY <1>3, <1>5, AttemptsAssumption
  <2>2. h \in HandlerState
    BY <1>3, <2>1, OtherHandlers
  <2>3. tx' = [tx EXCEPT ![q] = h]
    BY <1>1, <1>5 DEF SerializationFailure
  <2>4. h.phase = "waiting"
    BY DEF Handler
  <2> HIDE DEF h
  <2> QED
    BY <1>1, <2>2, <2>3, <2>4, QuietStep
<1> QED
  BY <1>4, <1>5

LEMMA EndStep ==
  ASSUME IInv, NEW q \in Requests, Refuse(q) \/ Lose(q) \/ UpdateOfDeleted(q)
  PROVE  IInv'
<1>1. tx' = [tx EXCEPT ![q] = Idle] /\ UNCHANGED <<donation, movement>>
  BY DEF Refuse, Lose, UpdateOfDeleted
<1> QED
  BY <1>1, IdleHandler, QuietStep

-----------------------------------------------------------------------------
LEMMA InitHolds == Init => IInv
<1> SUFFICES ASSUME Init PROVE IInv
  OBVIOUS
<1>1. TypeOK /\ RowsTyped
  BY IdleHandler DEF Init, TypeOK, RowsTyped
<1>2. /\ \A d \in DonationIds : ~ Exists(donation[d])
      /\ \A m \in MovementIds : ~ Exists(movement[m])
      /\ \A q \in Requests : tx[q].phase = "idle"
  BY IdleHandler, NotNull DEF Init
<1> QED
  BY <1>1, <1>2 DEF IInv, RowsOK, AmountsAgree, ReversalsPosted, NoOrphanMovement,
     WorkIsLinked, UndoomedAreCurrent

LEMMA Inductive == IInv /\ [Next]_vars => IInv'
<1> SUFFICES ASSUME IInv, [Next]_vars PROVE IInv'
  OBVIOUS
<1>1. ASSUME NEW d \in DonationIds, NEW m \in MovementIds, NEW a \in Amounts, Create(d, m, a)
      PROVE  IInv'
  BY <1>1, CreateStep
<1>2. ASSUME NEW q \in Requests, NEW r \in Request, Submit(q, r) PROVE IInv'
  BY <1>2, SubmitStep
<1>3. ASSUME NEW q \in Requests, Begin(q) PROVE IInv'
  BY <1>3, BeginStep
<1>4. ASSUME NEW q \in Requests, Refuse(q) \/ Lose(q) \/ UpdateOfDeleted(q) PROVE IInv'
  BY <1>4, EndStep
<1>5. ASSUME NEW q \in Requests, SerializationFailure(q) PROVE IInv'
  BY <1>5, SerializationFailureStep
<1>6. ASSUME NEW q \in Requests, CommitUpdate(q) PROVE IInv'
  BY <1>6, UpdateCommits
<1>7. ASSUME NEW q \in Requests, CommitCancel(q) PROVE IInv'
  BY <1>7, CancelCommits
<1>8. ASSUME NEW q \in Requests, CommitRemove(q) PROVE IInv'
  BY <1>8, RemoveCommits
<1>9. ASSUME UNCHANGED vars PROVE IInv'
  BY <1>9 DEF vars, IInv, TypeOK, RowsOK, RowsTyped, AmountsAgree, ReversalsPosted,
     NoOrphanMovement, WorkIsLinked, UndoomedAreCurrent, StillLinked, StillCurrent, Live,
     Exists
<1> QED
  BY <1>1, <1>2, <1>3, <1>4, <1>5, <1>6, <1>7, <1>8, <1>9 DEF Next

LEMMA Holds == Spec => []IInv
BY InitHolds, Inductive, PTL DEF Spec

\* Rows and handlers keep the shapes donations.service.ts gives them, retries
\* within MaxAttempts included.
THEOREM TypeCorrect == Spec => []TypeOK
<1>1. IInv => TypeOK
  BY DEF IInv
<1> QED
  BY <1>1, Holds, PTL

\* update, which reads the donation at one moment and writes it and its movement
\* at another, never lets the two amounts part.
THEOREM MovementsFollow == Spec => []AmountsAgree
<1>1. IInv => AmountsAgree
  BY DEF IInv, RowsOK
<1> QED
  BY <1>1, Holds, PTL

\* remove leaves no movement in the ledger without its donation, whatever it
\* raced with.
THEOREM NothingOrphaned == Spec => []NoOrphanMovement
<1>1. IInv => NoOrphanMovement
  BY DEF IInv, RowsOK
<1> QED
  BY <1>1, Holds, PTL

\* Any number of cancellations of a donation post one reversal, and it is
\* CANCELLED exactly when they have.
THEOREM OneReversal == Spec => []ReversedOnce
<1>1. ASSUME IInv PROVE ReversedOnce
  <2>1. RowsTyped /\ AmountsAgree /\ ReversalsPosted /\ NoOrphanMovement
    BY <1>1 DEF IInv, RowsOK
  <2> SUFFICES ASSUME NEW d \in DonationIds, Exists(donation[d])
               PROVE  LET reversals == {m \in MovementsOf(d) : movement[m].type = "EXPENSE"} IN
                      /\ reversals # {} <=> donation[d].status = "CANCELLED"
                      /\ \A m \in reversals :
                           /\ m = donation[d].reversal
                           /\ movement[m].reversalOf = donation[d].original
    BY DEF ReversedOnce
  <2>2. ASSUME NEW m \in MovementIds
        PROVE  m \in MovementsOf(d) /\ movement[m].type = "EXPENSE"
                 <=> m = donation[d].reversal
    <3>1. ASSUME m \in MovementsOf(d), movement[m].type = "EXPENSE"
          PROVE  m = donation[d].reversal
      <4>1. m \in {donation[d].original, donation[d].reversal}
        BY <2>1, <3>1 DEF MovementsOf, NoOrphanMovement
      <4>2. movement[donation[d].original].type = "INCOME"
        BY <2>1, OriginalFields
      <4> QED
        BY <3>1, <4>1, <4>2
    <3>2. ASSUME m = donation[d].reversal
          PROVE  m \in MovementsOf(d) /\ movement[m].type = "EXPENSE"
      <4>1. donation[d].reversal # NoRow
        BY <3>2, NotNull
      <4> QED
        BY <2>1, <3>2, <4>1 DEF MovementsOf, ReversalsPosted
    <3> QED
      BY <3>1, <3>2
  <2>3. donation[d].reversal \in MovementIds \cup {NoRow}
    BY <2>1, RowsThatExist, DonationFields
  <2>4. donation[d].status = "CANCELLED" <=> donation[d].reversal # NoRow
    BY <2>1 DEF ReversalsPosted
  <2>5. donation[d].reversal # NoRow =>
          movement[donation[d].reversal].reversalOf = donation[d].original
    BY <2>1 DEF ReversalsPosted
  <2>6. MovementsOf(d) \subseteq MovementIds
    BY DEF MovementsOf
  <2> QED
    BY <2>2, <2>3, <2>4, <2>5, <2>6, NotNull
<1> QED
  BY <1>1, Holds, PTL

-----------------------------------------------------------------------------
LEMMA CancellationKept ==
  ASSUME IInv, [Next]_vars, NEW d \in DonationIds
  PROVE  KeepsCancellation(d)
<1> SUFFICES ASSUME Exists(donation[d]), donation[d].status = "CANCELLED"
             PROVE  /\ Exists(donation'[d])
                    /\ donation'[d].status = "CANCELLED"
                    /\ donation'[d].reversal = donation[d].reversal
                    /\ movement'[donation[d].reversal] = movement[donation[d].reversal]
  BY DEF KeepsCancellation
<1> DEFINE v == donation[d].reversal
<1>1. RowsTyped /\ AmountsAgree /\ ReversalsPosted
  BY DEF IInv, RowsOK
<1>2. /\ v \in MovementIds /\ Exists(movement[v]) /\ movement[v].type = "EXPENSE"
      /\ donation[d] # NoRow
  BY <1>1, RowsThatExist, DonationFields, NotNull DEF ReversalsPosted
<1> HIDE DEF v
<1>3. ASSUME NEW x \in DonationIds, NEW m \in MovementIds, NEW a \in Amounts, Create(x, m, a)
      PROVE  donation'[d] = donation[d] /\ movement'[v] = movement[v]
  <2>1. x # d /\ m # v
    BY <1>2, <1>3, NotNull DEF Create
  <2> QED
    BY <1>1, <1>3, <2>1 DEF Create, RowsTyped
<1>4. ASSUME NEW x \in DonationIds, Exists(donation[x])
      PROVE  donation[x].original # v
  BY <1>1, <1>2, <1>4, OriginalFields
<1>5. ASSUME NEW q \in Requests, CommitUpdate(q)
      PROVE  /\ Exists(donation'[d]) /\ donation'[d].status = donation[d].status
             /\ donation'[d].reversal = v /\ movement'[v] = movement[v]
  <2>1. CASE tx[q].work.amount = 0
    BY <1>5, <2>1 DEF CommitUpdate, Exists, v
  <2>2. CASE tx[q].work.amount # 0
    <3> DEFINE w == tx[q].work
    <3>1. /\ Exists(donation[w.id]) /\ w.original = donation[w.id].original
          /\ \A x \in DonationIds : x # w.id => donation'[x] = donation[x]
          /\ donation'[w.id] \in DonationRow
          /\ donation'[w.id].status = donation[w.id].status
          /\ donation'[w.id].reversal = donation[w.id].reversal
          /\ \A m \in MovementIds : m # w.original => movement'[m] = movement[m]
      BY <1>5, <2>2, UpdateWrites
    <3>2. w.id \in DonationIds
      BY <1>5, CommitterKnows DEF CommitUpdate
    <3> HIDE DEF w
    <3>3. v # w.original
      BY <1>4, <3>1, <3>2
    <3>4. movement'[v] = movement[v]
      BY <1>2, <3>1, <3>3
    <3>5. CASE d = w.id
      BY <3>1, <3>4, <3>5, NotNull DEF v
    <3>6. CASE d # w.id
      BY <3>1, <3>4, <3>6 DEF v
    <3> QED
      BY <3>5, <3>6
  <2> QED
    BY <2>1, <2>2
<1>6. ASSUME NEW q \in Requests, CommitCancel(q)
      PROVE  donation'[d] = donation[d] /\ movement'[v] = movement[v]
  <2>1. StillCurrent(tx[q].work)
    BY <1>6, CommitterKnows DEF CommitCancel
  <2>2. tx[q].work.id # d
    BY <2>1 DEF StillCurrent, Live
  <2>3. PICK m \in MovementIds :
          /\ movement[m] = NoRow
          /\ movement' = [movement EXCEPT ![m] =
               [type |-> "EXPENSE", amount |-> tx[q].work.amount,
                source |-> tx[q].work.id, reversalOf |-> tx[q].work.original]]
    BY <1>6 DEF CommitCancel
  <2>4. m # v
    BY <1>2, <2>3, NotNull
  <2>5. movement'[v] = movement[v]
    BY <1>1, <1>2, <2>3, <2>4 DEF RowsTyped
  <2>6. donation'[d] = donation[d]
    BY <1>1, <1>6, <2>2 DEF CommitCancel, RowsTyped
  <2> QED
    BY <2>5, <2>6
<1>7. ASSUME NEW q \in Requests, CommitRemove(q)
      PROVE  donation'[d] = donation[d] /\ movement'[v] = movement[v]
  <2> DEFINE w == tx[q].work
  <2>1. StillCurrent(w) /\ StillLinked(w) /\ w.id \in DonationIds
    BY <1>7, CommitterKnows DEF CommitRemove
  <2>2. /\ donation' = [donation EXCEPT ![w.id] = Deleted]
        /\ movement' = [movement EXCEPT ![w.original] = Deleted]
    BY <1>7 DEF CommitRemove
  <2> HIDE DEF w
  <2>3. w.id # d /\ Exists(donation[w.id]) /\ w.original = donation[w.id].original
    BY <2>1 DEF StillCurrent, StillLinked, Live
  <2>4. w.original # v
    BY <1>4, <2>1, <2>3
  <2> QED
    BY <1>1, <1>2, <2>2, <2>3, <2>4 DEF RowsTyped
<1>8. CASE UNCHANGED <<donation, movement>>
  BY <1>8 DEF Exists
<1>9. ASSUME UNCHANGED vars PROVE UNCHANGED <<donation, movement>>
  BY <1>9 DEF vars
<1>10. ASSUME NEW q \in Requests,
              \/ Begin(q) \/ Refuse(q) \/ SerializationFailure(q) \/ Lose(q)
              \/ UpdateOfDeleted(q)
       PROVE  UNCHANGED <<donation, movement>>
  BY <1>10 DEF Begin, Refuse, SerializationFailure, Lose, UpdateOfDeleted
<1>11. ASSUME NEW q \in Requests, NEW r \in Request, Submit(q, r)
       PROVE  UNCHANGED <<donation, movement>>
  BY <1>11 DEF Submit
<1>12. CASE donation'[d] = donation[d] /\ movement'[v] = movement[v]
  BY <1>12 DEF Exists, v
<1>13. CASE /\ Exists(donation'[d]) /\ donation'[d].status = donation[d].status
            /\ donation'[d].reversal = v /\ movement'[v] = movement[v]
  BY <1>13 DEF v
<1> QED
  BY <1>3, <1>5, <1>6, <1>7, <1>8, <1>9, <1>10, <1>11, <1>12, <1>13 DEF Next

\* Once CANCELLED, a donation and its reversal outlive every later edit,
\* removal and cancellation.
THEOREM CancellationStays == Spec => CancellationIsFinal
<1>1. IInv /\ [Next]_vars => [\A d \in DonationIds : KeepsCancellation(d)]_vars
  BY CancellationKept
<1> QED
  BY <1>1, Holds, PTL DEF Spec, CancellationIsFinal
=============================================================================
