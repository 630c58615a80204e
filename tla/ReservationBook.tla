-------------------------- MODULE ReservationBook --------------------------
(* What reservations and payments promise, with no transaction, retry or    *)
(* lock: a book in which somebody holds a slot nobody else holds, may be    *)
(* billed for it once, pays it once, and gives it up unless it was paid.   *)
EXTENDS ReservationRules

CONSTANTS Resources, Ids, Payments, Slots

VARIABLES stage,      \* of each entry: "new", then "held", then "gone"
          place,      \* the resource and slot an entry holds
          debt,       \* what the entry owes: "none", "due", "settled", "waived"
          receipts    \* the payments received for it

bookVars == <<stage, place, debt, receipts>>

Free(r, s) ==
  \A i \in Ids :
    stage[i] = "held" => ~ (place[i].resource = r /\ Overlaps(place[i].slot, s))

Hold(i, r, s) ==
  /\ stage[i] = "new"
  /\ Free(r, s)
  /\ stage' = [stage EXCEPT ![i] = "held"]
  /\ place' = [place EXCEPT ![i] = [resource |-> r, slot |-> s]]
  /\ UNCHANGED <<debt, receipts>>

Bill(i) ==
  /\ stage[i] = "held"
  /\ debt[i] = "none"
  /\ debt' = [debt EXCEPT ![i] = "due"]
  /\ UNCHANGED <<stage, place, receipts>>

Settle(i, p) ==
  /\ stage[i] = "held"
  /\ debt[i] = "due"
  /\ \A j \in Ids : p \notin receipts[j]
  /\ debt' = [debt EXCEPT ![i] = "settled"]
  /\ receipts' = [receipts EXCEPT ![i] = {p}]
  /\ UNCHANGED <<stage, place>>

Release(i) ==
  /\ stage[i] = "held"
  /\ debt[i] # "settled"
  /\ stage' = [stage EXCEPT ![i] = "gone"]
  /\ debt' = [debt EXCEPT ![i] = IF debt[i] = "due" THEN "waived" ELSE debt[i]]
  /\ UNCHANGED <<place, receipts>>

BookInit ==
  /\ stage = [i \in Ids |-> "new"]
  /\ place = [i \in Ids |-> NoRow]
  /\ debt = [i \in Ids |-> "none"]
  /\ receipts = [i \in Ids |-> {}]

BookNext ==
  \E i \in Ids :
    \/ \E r \in Resources, s \in Slots : Hold(i, r, s)
    \/ Bill(i)
    \/ \E p \in Payments : Settle(i, p)
    \/ Release(i)

BookSpec == BookInit /\ [][BookNext]_bookVars
=============================================================================
