---------------------------- MODULE MCAssemblies ----------------------------
(* Small instances of Assemblies.                                          *)
EXTENDS Assemblies, TLC

CONSTANTS q1, q2, ana, luis

Alike == Permutations(Requests) \cup Permutations(Affiliates)
=============================================================================
