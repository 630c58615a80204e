----------------------- MODULE ReservationRefinement -----------------------
(* The transactional handlers of Reservations implement ReservationBook.   *)
EXTENDS Reservations

\* A row is an entry of the book: it holds its slot while it blocks it.
bookStage ==
  [i \in Ids |-> IF reservation[i] = NoRow THEN "new"
                 ELSE IF reservation[i].status \in BLOCKING_STATUSES THEN "held"
                 ELSE "gone"]

bookPlace ==
  [i \in Ids |-> IF reservation[i] = NoRow THEN NoRow
                 ELSE [resource |-> reservation[i].resource,
                       slot |-> reservation[i].slot]]

bookDebt ==
  [i \in Ids |-> IF charge[i] = NoRow THEN "none"
                 ELSE IF charge[i].status = "PENDING" THEN "due"
                 ELSE IF charge[i].status = "PAID" THEN "settled"
                 ELSE "waived"]

bookReceipts ==
  [i \in Ids |-> {p \in Payments : payment[p] # NoRow /\ payment[p].charge = i}]

Book == INSTANCE ReservationBook
          WITH stage <- bookStage, place <- bookPlace,
               debt <- bookDebt, receipts <- bookReceipts

\* Every interleaving of create, approve, reject, cancel and recordPayment,
\* with their retries and losses, is a history of the book: one step of a
\* handler changes at most one entry, in a way the book allows at that moment.
ImplementsBook == Book!BookSpec
=============================================================================
