---------------------------- MODULE MCDonations ----------------------------
(* Small instances of Donations.                                           *)
EXTENDS Donations, TLC

CONSTANTS q1, q2, q3, d1, d2, m1, m2, m3, m4

RowsAlike == Permutations(Requests) \cup Permutations(DonationIds)
               \cup Permutations(MovementIds)
=============================================================================
