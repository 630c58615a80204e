-------------------------- MODULE MCInventoryStock --------------------------
(* Small instances of InventoryStock.                                      *)
EXTENDS InventoryStock, TLC

CONSTANTS q1, q2, q3, silla, l1, l2, m1, m2, m3, m4

RowsAlike == Permutations(Requests) \cup Permutations(Loans)
               \cup Permutations(Movements)
=============================================================================
