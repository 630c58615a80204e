---------------------- MODULE MCAbsenceJustifications ----------------------
(* Small instances of AbsenceJustifications.                               *)
EXTENDS AbsenceJustifications, TLC

CONSTANTS q1, q2, r1, r2, ana

HandlersAlike == Permutations(Requests) \cup Permutations(Reviews)
=============================================================================
