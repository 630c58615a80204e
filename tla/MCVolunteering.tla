--------------------------- MODULE MCVolunteering ---------------------------
(* Small instances of Volunteering.                                        *)
EXTENDS Volunteering, TLC

CONSTANTS q1, q2, o1, a1, a2, a3, p1, p2, p3, mail, phone

\* An e-mail, a phone, and both: the last one duplicates the other two.
Contacts == {{mail}, {phone}, {mail, phone}}

\* Handlers are interchangeable, and so are applications.
Symmetry == Permutations(Requests) \cup Permutations(Applications)
=============================================================================
