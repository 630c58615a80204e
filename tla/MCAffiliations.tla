---------------------------- MODULE MCAffiliations ----------------------------
(* Small instances of Affiliations.                                         *)
EXTENDS Affiliations, TLC

CONSTANTS q1, q2, q3, p1, p2, r1, r2, r3, e1, e2

\* Handlers, people, rows and addresses are interchangeable.
Symmetry == Permutations(Requests) \cup Permutations(Persons)
              \cup Permutations(RequestIds) \cup Permutations(Emails)
=============================================================================
