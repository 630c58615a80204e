--------------------------- MODULE InventoryStock ---------------------------
(* The stock of inventory items, the movements that explain it and the      *)
(* loans that take from it: inventory-movements, inventory-loans and the    *)
(* activation of inventory-items.  Every handler is a Read Committed        *)
(* transaction (setActive not even that): Begin is its reads and checks,   *)
(* Commit<Op> its writes, which the lock of the item's row makes one step.  *)
(* A refused request changes nothing and has no action.                    *)
EXTENDS Integers, FiniteSets, FiniteSetsExt

CONSTANTS Requests,    \* handlers in flight at once
          Items,       \* ids of InventoryItem rows
          Loans,       \* ids of InventoryLoan rows
          Movements,   \* ids of InventoryMovement rows
          Quantities,  \* the quantities typed for entries, exits and loans
          Counts,      \* the stock counts typed for adjustments
          NoRow

VARIABLES item, loan, movement, tx

rows == <<item, loan, movement>>
vars == <<item, loan, movement, tx>>

ASSUME QuantitiesAssumption ==
  /\ Quantities \subseteq Nat \ {0}
  /\ Counts \subseteq Nat

ItemRow == [stock : Nat, status : {"ACTIVE", "INACTIVE"}]

LoanStatus == {"ACTIVE", "RETURNED", "CANCELLED"}

LoanRow == [item : Items, quantity : Quantities, status : LoanStatus]

\* delta is quantityDelta; loan stands for the reference to the loan.
MovementRow == [item : Items, delta : Int \ {0}, loan : Loans \cup {NoRow},
                reason : {"entry", "exit", "adjustment", "lend", "return", "cancel"}]

ASSUME InventoryRowsAssumption ==
  NoRow \notin ItemRow \cup LoanRow \cup MovementRow \cup Loans

\* n is the quantity or the new count; seen the stock as it was read.
Work ==
  [op : {"entry", "exit", "adjust", "lend"}, item : Items, loan : {NoRow},
   n : Quantities \cup Counts, seen : Nat]
    \cup [op : {"return", "cancel"}, item : Items, loan : Loans,
          n : Quantities, seen : {0}]
    \cup [op : {"activate", "deactivate"}, item : Items, loan : {NoRow},
          n : {0}, seen : {0}]

Idle == [phase |-> "idle", work |-> NoRow]

Exists(row) == row # NoRow

ActiveItem(i) == Exists(item[i]) /\ item[i].status = "ACTIVE"

ActiveLoans(i) ==
  {l \in Loans : Exists(loan[l]) /\ loan[l].item = i /\ loan[l].status = "ACTIVE"}

-----------------------------------------------------------------------------
(* The reads and checks of each operation.                                 *)

StockWork(op, i, n) ==
  [op |-> op, item |-> i, loan |-> NoRow, n |-> n, seen |-> item[i].stock]

Opens(q, w) ==
  /\ tx[q].phase = "idle"
  /\ tx' = [tx EXCEPT ![q] = [phase |-> "open", work |-> w]]
  /\ UNCHANGED rows

BeginEntry(q, i, n) ==
  ActiveItem(i) /\ Opens(q, StockWork("entry", i, n))

BeginExit(q, i, n) ==
  ActiveItem(i) /\ item[i].stock >= n /\ Opens(q, StockWork("exit", i, n))

BeginAdjustment(q, i, n) ==
  ActiveItem(i) /\ n # item[i].stock /\ Opens(q, StockWork("adjust", i, n))

BeginLoan(q, i, n) ==
  ActiveItem(i) /\ item[i].stock >= n /\ Opens(q, StockWork("lend", i, n))

\* return and cancel read the loan and carry its item and quantity.
BeginClose(q, op, l) ==
  /\ Exists(loan[l])
  /\ loan[l].status = "ACTIVE"
  /\ Opens(q, [op |-> op, item |-> loan[l].item, loan |-> l,
               n |-> loan[l].quantity, seen |-> 0])

\* setActive reads the status; a deactivation has the loans yet to count.
BeginSetActive(q, i, op) ==
  /\ tx[q].phase = "idle"
  /\ Exists(item[i])
  /\ item[i].status = (IF op = "activate" THEN "INACTIVE" ELSE "ACTIVE")
  /\ tx' = [tx EXCEPT ![q] =
              [phase |-> IF op = "activate" THEN "open" ELSE "counting",
               work |-> [op |-> op, item |-> i, loan |-> NoRow, n |-> 0, seen |-> 0]]]
  /\ UNCHANGED rows

CountLoans(q) ==
  /\ tx[q].phase = "counting"
  /\ tx' = [tx EXCEPT ![q] =
              IF ActiveLoans(tx[q].work.item) = {}
              THEN [phase |-> "open", work |-> tx[q].work]
              ELSE Idle]
  /\ UNCHANGED rows

\* The process dies or the connection drops before the commit.
Lose(q) ==
  /\ tx[q].phase # "idle"
  /\ tx' = [tx EXCEPT ![q] = Idle]
  /\ UNCHANGED rows

-----------------------------------------------------------------------------
(* The writes.                                                             *)

Posts(m, i, delta, l, reason) ==
  /\ movement[m] = NoRow
  /\ movement' = [movement EXCEPT ![m] =
                    [item |-> i, delta |-> delta, loan |-> l, reason |-> reason]]

Ends(q, op) ==
  /\ tx[q].phase = "open"
  /\ tx[q].work.op = op
  /\ tx' = [tx EXCEPT ![q] = Idle]

\* create of inventory-items: the row and its initial entry.
CreateItem(i, m, n) ==
  /\ item[i] = NoRow
  /\ item' = [item EXCEPT ![i] = [stock |-> n, status |-> "ACTIVE"]]
  /\ IF n > 0 THEN Posts(m, i, n, NoRow, "entry") ELSE UNCHANGED movement
  /\ UNCHANGED <<loan, tx>>

CommitEntry(q, m) ==
  LET w == tx[q].work IN
  /\ Ends(q, "entry")
  /\ item' = [item EXCEPT ![w.item].stock = @ + w.n]
  /\ Posts(m, w.item, w.n, NoRow, "entry")
  /\ UNCHANGED loan

\* Mutant: a decrement that trusts the stock it read.
TakesUnguarded(w) == w.seen >= w.n

\* The guard of the decrementing updateMany, on the row as it is now.
TakesStock(w) == item[w.item].stock >= w.n

CommitExit(q, m) ==
  LET w == tx[q].work IN
  /\ Ends(q, "exit")
  /\ TakesStock(w)
  /\ item' = [item EXCEPT ![w.item].stock = @ - w.n]
  /\ Posts(m, w.item, 0 - w.n, NoRow, "exit")
  /\ UNCHANGED loan

\* Mutant: an adjustment that does not ask whether the stock is still the same.
AdjustsAnyway(w) == TRUE

\* The optimistic guard of the adjusting updateMany.
StillAsSeen(w) == item[w.item].stock = w.seen

CommitAdjustment(q, m) ==
  LET w == tx[q].work IN
  /\ Ends(q, "adjust")
  /\ StillAsSeen(w)
  /\ item' = [item EXCEPT ![w.item].stock = w.n]
  /\ Posts(m, w.item, w.n - w.seen, NoRow, "adjustment")
  /\ UNCHANGED loan

CommitLoan(q, l, m) ==
  LET w == tx[q].work IN
  /\ Ends(q, "lend")
  /\ TakesStock(w)
  /\ loan[l] = NoRow
  /\ loan' = [loan EXCEPT ![l] = [item |-> w.item, quantity |-> w.n,
                                  status |-> "ACTIVE"]]
  /\ item' = [item EXCEPT ![w.item].stock = @ - w.n]
  /\ Posts(m, w.item, 0 - w.n, l, "lend")

\* The guard of exit, loan or adjustment fails at the write: rolled back.
RefuseAtWrite(q) ==
  LET w == tx[q].work IN
  /\ tx[q].phase = "open"
  /\ \/ w.op \in {"exit", "lend"} /\ ~ TakesStock(w)
     \/ w.op = "adjust" /\ ~ StillAsSeen(w)
  /\ tx' = [tx EXCEPT ![q] = Idle]
  /\ UNCHANGED rows

ClosedStatus(op) == IF op = "return" THEN "RETURNED" ELSE "CANCELLED"

\* Mutant: a database without that CHECK.
NoEvidenceCheck(l, op) == TRUE

\* CHECK InventoryLoan_status_evidence_check: a row may be closed again as it
\* was, but it cannot be both returned and cancelled.
EvidenceCheck(l, op) == loan[l].status \in {"ACTIVE", ClosedStatus(op)}

\* return and cancel: the increment, the movement and the loan's new status,
\* with no condition on the status the loan has now.
CommitClose(q, op, m) ==
  LET w == tx[q].work IN
  /\ Ends(q, op)
  /\ EvidenceCheck(w.loan, op)
  /\ item' = [item EXCEPT ![w.item].stock = @ + w.n]
  /\ loan' = [loan EXCEPT ![w.loan].status = ClosedStatus(op)]
  /\ Posts(m, w.item, w.n, w.loan, op)

\* The CHECK refuses the row: the whole transaction is rolled back.
CloseRolledBack(q, op) ==
  /\ Ends(q, op)
  /\ ~ EvidenceCheck(tx[q].work.loan, op)
  /\ UNCHANGED rows

CommitSetActive(q, op) ==
  LET w == tx[q].work IN
  /\ Ends(q, op)
  /\ item' = [item EXCEPT ![w.item].status =
                IF op = "activate" THEN "ACTIVE" ELSE "INACTIVE"]
  /\ UNCHANGED <<loan, movement>>

-----------------------------------------------------------------------------
Init ==
  /\ item = [i \in Items |-> NoRow]
  /\ loan = [l \in Loans |-> NoRow]
  /\ movement = [m \in Movements |-> NoRow]
  /\ tx = [q \in Requests |-> Idle]

Begins(q) ==
  \/ \E i \in Items, n \in Quantities :
       BeginEntry(q, i, n) \/ BeginExit(q, i, n) \/ BeginLoan(q, i, n)
  \/ \E i \in Items, n \in Counts : BeginAdjustment(q, i, n)
  \/ \E l \in Loans, op \in {"return", "cancel"} : BeginClose(q, op, l)
  \/ \E i \in Items, op \in {"activate", "deactivate"} : BeginSetActive(q, i, op)

Commits(q) ==
  \/ \E m \in Movements :
       \/ CommitEntry(q, m) \/ CommitExit(q, m) \/ CommitAdjustment(q, m)
       \/ \E l \in Loans : CommitLoan(q, l, m)
       \/ \E op \in {"return", "cancel"} : CommitClose(q, op, m)
  \/ \E op \in {"activate", "deactivate"} : CommitSetActive(q, op)

Next ==
  \/ \E i \in Items, m \in Movements, n \in Counts : CreateItem(i, m, n)
  \/ \E q \in Requests :
       \/ Begins(q)
       \/ CountLoans(q)
       \/ Commits(q)
       \/ RefuseAtWrite(q)
       \/ \E op \in {"return", "cancel"} : CloseRolledBack(q, op)
       \/ Lose(q)

Spec == Init /\ [][Next]_vars

-----------------------------------------------------------------------------
(* Properties.                                                             *)

\* Types, and with them that the stock never goes negative however exits,
\* loans and adjustments interleave.
TypeOK ==
  /\ item \in [Items -> ItemRow \cup {NoRow}]
  /\ loan \in [Loans -> LoanRow \cup {NoRow}]
  /\ movement \in [Movements -> MovementRow \cup {NoRow}]
  /\ \A q \in Requests :
       \/ tx[q] = Idle
       \/ tx[q].phase \in {"counting", "open"} /\ tx[q].work \in Work

MovementsOf(i) == {m \in Movements : Exists(movement[m]) /\ movement[m].item = i}

\* The stock of an item is the sum of its movements: an adjustment computed
\* from a stale count is refused, never applied on top of another change.
StockIsExplained ==
  \A i \in Items :
    Exists(item[i]) =>
      item[i].stock = MapThenSumSet(LAMBDA m : movement[m].delta, MovementsOf(i))

Posted(l, reason) ==
  {m \in Movements : Exists(movement[m]) /\ movement[m].loan = l
                     /\ movement[m].reason = reason}

\* A loan's status agrees with the movements posted for it: a loan is never
\* both returned and cancelled, though neither handler looks at the status
\* again when it writes.
StatusHasEvidence ==
  \A l \in Loans :
    Exists(loan[l]) =>
      /\ Cardinality(Posted(l, "lend")) = 1
      /\ Posted(l, "return") # {} <=> loan[l].status = "RETURNED"
      /\ Posted(l, "cancel") # {} <=> loan[l].status = "CANCELLED"

\* "does not allow returning a loan twice", nor cancelling one twice: what
\* was lent comes back to the stock once.
ComesBackOnce ==
  \A l \in Loans : Cardinality(Posted(l, "return") \cup Posted(l, "cancel")) <= 1
=============================================================================
