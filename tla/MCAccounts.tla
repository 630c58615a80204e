----------------------------- MODULE MCAccounts -----------------------------
(* Small instances of Accounts.                                            *)
EXTENDS Accounts, TLC

CONSTANTS q1, q2, u1, u2, s1, s2, t1, t2

\* Handlers, users, sessions and tokens are interchangeable.
Symmetry == Permutations(Requests) \cup Permutations(Users)
              \cup Permutations(Sessions) \cup Permutations(ResetTokens)
=============================================================================
