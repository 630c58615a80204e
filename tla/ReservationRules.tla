------------------------- MODULE ReservationRules -------------------------
(* The pure rules of the reservations component: the statuses that block a *)
(* slot, the transition policy, the overlap test, the validation of a time *)
(* range and the validation of a resource's pricing.                       *)
EXTENDS Integers

CONSTANTS MinHours,   \* shortest reservation (one hour)
          MaxHours,   \* longest reservation (twelve hours)
          NoRow       \* the null a lookup of a missing row returns

ASSUME HoursAssumption == /\ MinHours \in Nat \ {0}
                          /\ MaxHours \in Nat
                          /\ MinHours <= MaxHours

ReservationStatus ==
  {"PENDING", "APPROVED", "REJECTED", "CANCELLED", "CONFIRMED", "COMPLETED"}

BLOCKING_STATUSES == {"PENDING", "APPROVED", "CONFIRMED"}

\* The statuses each status may move to.
allowedTransitions ==
  [from \in ReservationStatus |->
     CASE from = "PENDING" -> {"APPROVED", "REJECTED", "CANCELLED"}
       [] from \in {"APPROVED", "CONFIRMED"} -> {"CANCELLED"}
       [] OTHER -> {}]

\* The overlap predicate of both blocking queries: half-open ranges.
Overlaps(s, t) == s.startAt < t.endAt /\ s.endAt > t.startAt

\* assertTimeRange: a range that starts now or later, of a legal length.
TimeRangeOk(s, now) ==
  /\ s.startAt < s.endAt
  /\ s.startAt >= now
  /\ s.endAt - s.startAt \in MinHours .. MaxHours

\* A FREE resource has no price, a FIXED one has a positive price (0 is null).
PricingOk(res) ==
  \/ res.pricingType = "FREE" /\ res.price = 0
  \/ res.pricingType = "FIXED" /\ res.price > 0
=============================================================================
