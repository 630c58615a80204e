--------------------------- MODULE MCReservations ---------------------------
(* Small instances of Reservations: slots that overlap and one that is too  *)
(* long, tariffs of every kind, and as many rows as the races need.         *)
EXTENDS ReservationRefinement, TLC

CONSTANTS q1, q2, salon, i1, i2, p1, p2, m1, m2

Slot(from, to) == [startAt |-> from, endAt |-> to]
MCSlots == {Slot(0, 1), Slot(0, 2), Slot(0, 3)}

Fixed(p) == [status |-> "ACTIVE", pricingType |-> "FIXED", price |-> p]
MCTariffs ==
  {Fixed(5),
   [status |-> "ACTIVE", pricingType |-> "FREE", price |-> 0],
   [status |-> "INACTIVE", pricingType |-> "FIXED", price |-> 5]}
MCCatalogue == [r \in Resources |-> Fixed(5)]
MCAmounts == {5}

RowsAlike == Permutations(Requests) \cup Permutations(Ids)
               \cup Permutations(Payments) \cup Permutations(Movements)
=============================================================================
