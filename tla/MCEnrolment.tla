----------------------------- MODULE MCEnrolment -----------------------------
(* Small instances of Enrolment.                                           *)
EXTENDS Enrolment, TLC

CONSTANTS q1, q2, u1, u2, r1, r2, t1, t2, t3, e1, e2, i1, i2

\* Handlers, rows, addresses and people are interchangeable.
Symmetry == Permutations(Requests) \cup Permutations(Users)
              \cup Permutations(UserRequests) \cup Permutations(Tokens)
              \cup Permutations(Emails) \cup Permutations(Identities)
=============================================================================
