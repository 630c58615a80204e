-------------------------- MODULE SerializableTx --------------------------
(* What the services rely on when they run prisma.$transaction at isolation *)
(* level Serializable on PostgreSQL.  A transaction reads one snapshot.     *)
(* When it and a transaction that committed after that snapshot            *)
(*   - both wrote a row (first updater wins), or                           *)
(*   - each read something the other wrote (a cycle of two                 *)
(*     rw-antidependencies),                                               *)
(* the database fails it with a serialization error, Prisma's P2034.       *)
(* Longer cycles, which PostgreSQL also refuses, are let through, and a    *)
(* P2034 may strike a transaction that conflicts with nothing (false        *)
(* positives, deadlocks): the model has every behaviour of the database.   *)
EXTENDS Naturals

CONSTANT MaxAttempts   \* attempts of withSerializableTransaction (3)

ASSUME AttemptsAssumption == MaxAttempts \in Nat \ {0}

\* A footprint [reads, rows, marks]: what a transaction read (rows, and the
\* keys its predicates cover), the existing rows it updates, and the
\* predicate keys its writes fall under.
Writes(f) == f.rows \cup f.marks

\* Mutant: the isolation level RepeatableRead, which lets write skew through.
ConflictRepeatableRead(f, g) == f.rows \cap g.rows # {}

\* Mutant: the default isolation level, where no transaction is refused.
ConflictReadCommitted(f, g) == FALSE

\* A transaction of footprint f must fail once one of footprint g, begun
\* before f's commit, commits after f's snapshot.
Conflict(f, g) ==
  \/ f.rows \cap g.rows # {}
  \/ f.reads \cap Writes(g) # {} /\ g.reads \cap Writes(f) # {}
=============================================================================
