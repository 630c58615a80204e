------------------------ MODULE InventoryStockProofs ------------------------
(* The stock of every item is the sum of its movements and the status of    *)
(* every loan has its evidence, for any number of handlers, items, loans    *)
(* and movements.  What a sum over a finite set does when an element is     *)
(* added is proved first: a least counterexample (WFMin) takes the place of *)
(* induction.                                                               *)
EXTENDS InventoryStock, FiniteSetTheorems, TLAPS

TxState == {Idle} \cup [phase : {"counting", "open"}, work : Work]

RowsTyped ==
  /\ item \in [Items -> ItemRow \cup {NoRow}]
  /\ loan \in [Loans -> LoanRow \cup {NoRow}]
  /\ movement \in [Movements -> MovementRow \cup {NoRow}]

\* Foreign keys: the item of a loan, the item and the loan of a movement.
ParentsThere ==
  /\ \A l \in Loans : Exists(loan[l]) => Exists(item[loan[l].item])
  /\ \A m \in Movements :
       Exists(movement[m]) =>
         /\ Exists(item[movement[m].item])
         /\ movement[m].loan # NoRow => Exists(loan[movement[m].loan])

\* Only finitely many movements are ever posted, so they have a sum.
FinitelyPosted == IsFiniteSet({m \in Movements : Exists(movement[m])})

RowsOK ==
  RowsTyped /\ ParentsThere /\ FinitelyPosted /\ StockIsExplained /\ StatusHasEvidence

\* What a handler read and no later step can take from it: its item, its
\* loan, a quantity that is one, a count that differs from the stock it saw.
Grounded(w) ==
  /\ Exists(item[w.item])
  /\ w.op \in {"entry", "exit", "lend"} => w.n \in Quantities
  /\ w.op = "adjust" => w.n # w.seen
  /\ w.op \in {"return", "cancel"} => Exists(loan[w.loan])

WorkIsGrounded ==
  \A q \in Requests, w \in Work : tx[q].phase # "idle" /\ tx[q].work = w => Grounded(w)

IInv == RowsOK /\ tx \in [Requests -> TxState] /\ WorkIsGrounded

-----------------------------------------------------------------------------
(* Sums over finite sets.                                                   *)

\* What StockIsExplained adds up.
Total(g, S) == MapThenSumSet(LAMBDA m : g[m].delta, S)

StockIsTotal ==
  \A i \in Items : Exists(item[i]) => item[i].stock = Total(movement, MovementsOf(i))

LEMMA ExplainedIsTotal == StockIsExplained <=> StockIsTotal
BY Zenon DEF StockIsExplained, StockIsTotal, Total

\* F sums f over the subsets of M, in whatever order.
Additive(F, f, M) ==
  /\ F \in [SUBSET M -> Int]
  /\ F[{}] = 0
  /\ \A S \in SUBSET M : \A x \in S : F[S] = f[x] + F[S \ {x}]

LEMMA MinimalSubset ==
  ASSUME NEW S, IsFiniteSet(S), NEW T, T \subseteq SUBSET S, T # {}
  PROVE  \E s \in T : \A t \in T : t \subseteq s => t = s
<1>1. IsWellFoundedOn(StrictSubsetOrdering(S), FiniteSubsetsOf(S))
  BY FS_StrictSubsetOrderingWellFounded
<1>2. T \subseteq FiniteSubsetsOf(S)
  BY FS_FiniteSubsetsOfFinite
<1>3. PICK s \in T : \A t \in T : ~ (<<t, s>> \in StrictSubsetOrdering(S))
  BY <1>1, <1>2, WFMin
<1> QED
  BY <1>3, Zenon DEF StrictSubsetOrdering

LEMMA AdditiveRestricts ==
  ASSUME NEW f, NEW M, NEW F, Additive(F, f, M), NEW S \in SUBSET M
  PROVE  Additive([s \in SUBSET S |-> F[s]], f, S)
BY DEF Additive

LEMMA AdditiveExtends ==
  ASSUME NEW S, NEW x \in S, NEW f \in [S -> Int],
         NEW F, Additive(F, f, S \ {x})
  PROVE  \E G : Additive(G, f, S)
<1> DEFINE G == [s \in SUBSET S |-> IF x \in s THEN f[x] + F[s \ {x}] ELSE F[s]]
<1>1. ASSUME NEW s \in SUBSET S PROVE s \ {x} \in SUBSET (S \ {x}) /\ (x \notin s => s \in SUBSET (S \ {x}))
  OBVIOUS
<1>2. G \in [SUBSET S -> Int]
  BY <1>1 DEF Additive
<1>3. G[{}] = 0
  BY DEF Additive
<1>4. ASSUME NEW s \in SUBSET S, NEW y \in s
      PROVE  G[s] = f[y] + G[s \ {y}]
  <2>1. CASE y = x
    BY <2>1
  <2>2. CASE y # x /\ x \notin s
    <3>1. s \in SUBSET (S \ {x}) /\ G[s] = F[s] /\ G[s \ {y}] = F[s \ {y}]
      BY <2>2
    <3> QED
      BY <3>1 DEF Additive
  <2>3. CASE y # x /\ x \in s
    <3>1. G[s] = f[x] + F[s \ {x}] /\ G[s \ {y}] = f[x] + F[(s \ {y}) \ {x}]
      BY <2>3
    <3>2. F[s \ {x}] = f[y] + F[(s \ {x}) \ {y}]
      BY <1>1, <2>3 DEF Additive
    <3>3. (s \ {x}) \ {y} = (s \ {y}) \ {x} /\ (s \ {y}) \ {x} \in SUBSET (S \ {x})
      OBVIOUS
    <3> DEFINE rest == F[(s \ {y}) \ {x}]
    <3>4. f[x] \in Int /\ f[y] \in Int /\ rest \in Int
      BY <3>3 DEF Additive
    <3>5. G[s] = f[x] + (f[y] + rest) /\ G[s \ {y}] = f[x] + rest
      BY <3>1, <3>2, <3>3, Zenon
    <3> HIDE DEF rest, G
    <3> QED
      BY <3>4, <3>5
  <2> QED
    BY <2>1, <2>2, <2>3
<1> HIDE DEF G
<1> QED
  BY <1>2, <1>3, <1>4 DEF Additive

\* Every finite family of integers has a sum.
LEMMA AdditiveExists ==
  ASSUME NEW M, IsFiniteSet(M), NEW f \in [M -> Int]
  PROVE  \E F : Additive(F, f, M)
<1> DEFINE without == {s \in SUBSET M : ~ \E F : Additive(F, f, s)}
<1> SUFFICES ASSUME without # {}
             PROVE  FALSE
  BY Zenon
<1>1. without \subseteq SUBSET M
  OBVIOUS
<1>2. PICK s \in without : \A t \in without : t \subseteq s => t = s
  <2> HIDE DEF without
  <2> QED
    BY <1>1, MinimalSubset
<1>3. CASE s = {}
  <2> DEFINE Z == [t \in SUBSET {} |-> 0]
  <2>1. Additive(Z, f, {})
    BY DEF Additive
  <2> QED
    BY <1>2, <1>3, <2>1
<1>4. CASE s # {}
  <2>1. PICK x \in s : TRUE
    BY <1>4
  <2>2. s \ {x} \notin without /\ s \ {x} \in SUBSET M
    BY <1>2
  <2>3. PICK F : Additive(F, f, s \ {x})
    BY <2>2
  <2> DEFINE h == [y \in s |-> f[y]]
  <2>4. h \in [s -> Int] /\ Additive(F, h, s \ {x})
    BY <1>2, <2>3 DEF Additive
  <2>5. PICK G : Additive(G, h, s)
    BY <2>4, AdditiveExtends
  <2>6. Additive(G, f, s)
    BY <2>5 DEF Additive
  <2> QED
    BY <1>2, <2>6
<1> QED
  BY <1>3, <1>4

LEMMA TotalIs ==
  ASSUME NEW M, IsFiniteSet(M), NEW f, NEW F, Additive(F, f, M),
         NEW g, \A m \in M : g[m].delta = f[m]
  PROVE  Total(g, M) = F[M]
<1> DEFINE Folds(iter) ==
      iter = [S \in SUBSET M |->
                IF S = {} THEN 0
                ELSE g[CHOOSE x \in S : TRUE].delta + iter[S \ {CHOOSE x \in S : TRUE}]]
<1>1. Total(g, M) = (CHOOSE iter : Folds(iter))[M]
  BY DEF Total, MapThenSumSet, MapThenFoldSet
<1>2. Folds(F)
  <2>1. F = [S \in SUBSET M |-> F[S]] /\ F[{}] = 0
    BY DEF Additive
  <2>2. ASSUME NEW S \in SUBSET M, S # {}
        PROVE  F[S] = g[CHOOSE x \in S : TRUE].delta + F[S \ {CHOOSE x \in S : TRUE}]
    BY <2>2 DEF Additive
  <2> QED
    BY <2>1, <2>2
<1>3. ASSUME NEW iter, Folds(iter) PROVE iter = F
  <2> DEFINE off == {S \in SUBSET M : iter[S] # F[S]}
  <2>1. off = {}
    <3> SUFFICES ASSUME off # {} PROVE FALSE
      OBVIOUS
    <3>1. off \subseteq SUBSET M
      OBVIOUS
    <3>2. PICK S \in off : \A t \in off : t \subseteq S => t = S
      <4> HIDE DEF off, Folds
      <4> QED
        BY <3>1, MinimalSubset
    <3>3. S # {}
      BY <1>3, <3>2 DEF Additive
    <3> DEFINE x == CHOOSE x \in S : TRUE
    <3>4. x \in S
      BY <3>3
    <3>5. iter[S] = g[x].delta + iter[S \ {x}]
      BY <1>3, <3>2, <3>3
    <3>6. F[S] = g[x].delta + F[S \ {x}]
      BY <3>2, <3>4 DEF Additive
    <3>7. iter[S \ {x}] = F[S \ {x}]
      BY <3>2, <3>4
    <3> QED
      BY <3>2, <3>5, <3>6, <3>7
  <2>2. iter = [S \in SUBSET M |-> iter[S]] /\ F = [S \in SUBSET M |-> F[S]]
    BY <1>3, Zenon DEF Additive
  <2> HIDE DEF Folds
  <2> QED
    BY <2>1, <2>2
<1> HIDE DEF Folds
<1>4. (CHOOSE iter : Folds(iter)) = F
  BY <1>2, <1>3
<1> QED
  BY <1>1, <1>4

\* A sum depends only on what is summed, and is an integer.
LEMMA TotalKept ==
  ASSUME NEW S, IsFiniteSet(S), NEW g, NEW h,
         \A m \in S : g[m].delta \in Int /\ h[m].delta = g[m].delta
  PROVE  Total(g, S) \in Int /\ Total(h, S) = Total(g, S)
<1> DEFINE f == [m \in S |-> g[m].delta]
<1>1. f \in [S -> Int] /\ \A m \in S : g[m].delta = f[m] /\ h[m].delta = f[m]
  OBVIOUS
<1> HIDE DEF f
<1>2. PICK F : Additive(F, f, S)
  BY <1>1, AdditiveExists
<1>3. Total(g, S) = F[S] /\ Total(h, S) = F[S]
  BY <1>1, <1>2, TotalIs
<1> QED
  BY <1>2, <1>3 DEF Additive

\* One more element adds its own delta.
LEMMA TotalGrows ==
  ASSUME NEW S, IsFiniteSet(S), NEW x, x \notin S, NEW g, NEW h, h[x].delta \in Int,
         \A m \in S : g[m].delta \in Int /\ h[m].delta = g[m].delta
  PROVE  Total(h, S \cup {x}) = Total(g, S) + h[x].delta
<1> DEFINE M == S \cup {x}
           f == [m \in M |-> h[m].delta]
<1>1. f \in [M -> Int] /\ \A m \in M : h[m].delta = f[m]
  OBVIOUS
<1>2. f[x] = h[x].delta /\ x \in M /\ M \ {x} = S /\ S \in SUBSET M
  OBVIOUS
<1>3. IsFiniteSet(M)
  BY FS_AddElement
<1> HIDE DEF f, M
<1>4. PICK F : Additive(F, f, M)
  BY <1>1, <1>3, AdditiveExists
<1>5. Total(h, M) = F[M]
  BY <1>1, <1>3, <1>4, TotalIs
<1>6. Total(h, S) = F[S]
  <2> DEFINE G == [s \in SUBSET S |-> F[s]]
  <2>1. S \in SUBSET M
    BY <1>2
  <2>2. Additive(G, f, S)
    BY <1>4, <2>1, AdditiveRestricts
  <2>3. G[S] = F[S]
    OBVIOUS
  <2>4. \A m \in S : h[m].delta = f[m]
    BY <1>1, <1>2
  <2> HIDE DEF G
  <2> QED
    BY <2>2, <2>3, <2>4, TotalIs
<1>7. F[M] = f[x] + F[S] /\ f[x] \in Int /\ F[S] \in Int
  BY <1>1, <1>2, <1>4 DEF Additive
<1>8. Total(h, S) = Total(g, S)
  BY TotalKept
<1> QED
  BY <1>2, <1>5, <1>6, <1>7, <1>8 DEF M

LEMMA TotalOfNone ==
  ASSUME NEW g
  PROVE  Total(g, {}) = 0
<1> DEFINE f == [m \in {} |-> 0]
<1>1. f \in [{} -> Int]
  OBVIOUS
<1> HIDE DEF f
<1>2. PICK F : Additive(F, f, {})
  BY <1>1, AdditiveExists, FS_EmptySet
<1> QED
  BY <1>2, TotalIs, FS_EmptySet DEF Additive

-----------------------------------------------------------------------------
(* The shapes of the records.                                               *)

LEMMA QuantitiesArePositive == \A n \in Quantities : n \in Nat /\ n > 0
BY QuantitiesAssumption

LEMMA ItemFields ==
  ASSUME NEW row \in ItemRow
  PROVE  row.stock \in Nat /\ row.status \in {"ACTIVE", "INACTIVE"} /\ row # NoRow
BY InventoryRowsAssumption DEF ItemRow

LEMMA LoanFields ==
  ASSUME NEW row \in LoanRow
  PROVE  /\ row.item \in Items /\ row.quantity \in Quantities
         /\ row.status \in LoanStatus /\ row # NoRow
BY InventoryRowsAssumption DEF LoanRow

LEMMA MovementFields ==
  ASSUME NEW row \in MovementRow
  PROVE  /\ row.item \in Items /\ row.delta \in Int \ {0}
         /\ row.loan \in Loans \cup {NoRow} /\ row # NoRow
BY InventoryRowsAssumption DEF MovementRow

LEMMA WorkFields ==
  ASSUME NEW w \in Work
  PROVE  /\ w.item \in Items /\ w.n \in Nat /\ w.seen \in Nat
         /\ w.op \in {"return", "cancel"} => w.loan \in Loans /\ w.n \in Quantities
<1>1. CASE w \in [op : {"entry", "exit", "adjust", "lend"}, item : Items, loan : {NoRow},
                  n : Quantities \cup Counts, seen : Nat]
  BY <1>1, QuantitiesAssumption
<1>2. CASE w \in [op : {"return", "cancel"}, item : Items, loan : Loans,
                  n : Quantities, seen : {0}]
  <2>1. w.item \in Items /\ w.loan \in Loans /\ w.n \in Quantities /\ w.seen = 0
    BY <1>2
  <2>2. w.n \in Nat /\ w.seen \in Nat
    BY <2>1, QuantitiesArePositive
  <2> QED
    BY <2>1, <2>2
<1>3. CASE w \in [op : {"activate", "deactivate"}, item : Items, loan : {NoRow},
                  n : {0}, seen : {0}]
  BY <1>3
<1> QED
  BY <1>1, <1>2, <1>3 DEF Work

LEMMA IdleState == Idle \in TxState /\ Idle.phase = "idle"
BY DEF TxState, Idle

LEMMA StateFields ==
  ASSUME NEW s \in TxState, s.phase # "idle"
  PROVE  s.phase \in {"counting", "open"} /\ s.work \in Work
BY DEF TxState, Idle

\* What the handler that writes knows.
LEMMA WriterKnows ==
  ASSUME IInv, NEW q \in Requests, tx[q].phase # "idle"
  PROVE  /\ tx[q].work \in Work /\ Grounded(tx[q].work)
         /\ tx[q].work.item \in Items
         /\ item[tx[q].work.item] \in ItemRow
<1>1. tx[q].work \in Work
  BY StateFields DEF IInv
<1>2. Grounded(tx[q].work)
  BY <1>1 DEF IInv, WorkIsGrounded
<1> QED
  BY <1>1, <1>2, WorkFields DEF Grounded, Exists, IInv, RowsOK, RowsTyped

-----------------------------------------------------------------------------
(* Writes of items and movements.                                           *)

RowsStay ==
  /\ \A i \in Items : Exists(item[i]) => Exists(item'[i])
  /\ \A l \in Loans : Exists(loan[l]) => Exists(loan'[l])

LEMMA StockWritten ==
  ASSUME RowsTyped, NEW i \in Items, item[i] \in ItemRow, NEW n \in Nat,
         item' = [item EXCEPT ![i].stock = n]
  PROVE  /\ item' \in [Items -> ItemRow \cup {NoRow}]
         /\ item'[i].stock = n /\ item'[i] \in ItemRow
         /\ \A j \in Items \ {i} : item'[j] = item[j]
BY DEF RowsTyped, ItemRow

\* A movement posted: the sum of its item takes its delta, no other changes.
LEMMA MovementPosted ==
  ASSUME RowsTyped, FinitelyPosted, NEW m \in Movements, NEW row \in MovementRow,
         movement[m] = NoRow, movement' = [movement EXCEPT ![m] = row]
  PROVE  /\ movement' \in [Movements -> MovementRow \cup {NoRow}]
         /\ FinitelyPosted'
         /\ \A i \in Items :
              Total(movement', MovementsOf(i)')
                = Total(movement, MovementsOf(i)) + (IF i = row.item THEN row.delta ELSE 0)
<1>1. movement' \in [Movements -> MovementRow \cup {NoRow}]
  BY DEF RowsTyped
<1>2. \A x \in Movements : movement'[x] = IF x = m THEN row ELSE movement[x]
  BY DEF RowsTyped
<1>3. row # NoRow /\ row.delta \in Int
  BY MovementFields
<1>4. FinitelyPosted'
  <2> DEFINE posted == {x \in Movements : Exists(movement[x])}
  <2>1. {x \in Movements : Exists(movement'[x])} = posted \cup {m}
    BY <1>2, <1>3 DEF Exists
  <2>2. IsFiniteSet(posted)
    BY DEF FinitelyPosted
  <2> HIDE DEF posted
  <2>3. IsFiniteSet(posted \cup {m})
    BY <2>2, FS_AddElement
  <2> QED
    BY <2>1, <2>3 DEF FinitelyPosted
<1>5. ASSUME NEW i \in Items
      PROVE  Total(movement', MovementsOf(i)')
               = Total(movement, MovementsOf(i)) + (IF i = row.item THEN row.delta ELSE 0)
  <2> DEFINE S == MovementsOf(i)
             posted == {x \in Movements : Exists(movement[x])}
  <2>1. IsFiniteSet(S)
    <3>1. S \in SUBSET posted
      BY DEF MovementsOf
    <3>2. IsFiniteSet(posted)
      BY DEF FinitelyPosted
    <3> HIDE DEF S, posted
    <3> QED
      BY <3>1, <3>2, FS_Subset
  <2>2. m \notin S /\ S \subseteq Movements
    BY DEF MovementsOf, Exists
  <2>3. \A x \in S : movement[x].delta \in Int /\ movement'[x].delta = movement[x].delta
    <3> SUFFICES ASSUME NEW x \in S
                 PROVE  movement[x].delta \in Int /\ movement'[x] = movement[x]
      OBVIOUS
    <3>1. movement[x] \in MovementRow
      BY DEF MovementsOf, Exists, RowsTyped
    <3> QED
      BY <3>1, <1>2, <2>2, MovementFields
  <2>4. MovementsOf(i)' = IF i = row.item THEN S \cup {m} ELSE S
    BY <1>2, <1>3 DEF MovementsOf, Exists
  <2>5. movement'[m].delta = row.delta
    BY <1>2
  <2> HIDE DEF S
  <2>6. Total(movement, S) \in Int /\ Total(movement', S) = Total(movement, S)
    BY <2>1, <2>3, TotalKept
  <2>7. CASE i = row.item
    <3> DEFINE g == movement
               h == movement'
    <3>1. /\ m \notin S /\ h[m].delta \in Int
          /\ \A x \in S : g[x].delta \in Int /\ h[x].delta = g[x].delta
      BY <1>3, <2>2, <2>3, <2>5
    <3> HIDE DEF g, h
    <3>2. Total(h, S \cup {m}) = Total(g, S) + h[m].delta
      BY <2>1, <3>1, TotalGrows
    <3> QED
      BY <2>4, <2>5, <2>7, <3>2 DEF S, g, h
  <2>8. CASE i # row.item
    BY <2>4, <2>6, <2>8 DEF S
  <2> QED
    BY <2>7, <2>8
<1> QED
  BY <1>1, <1>4, <1>5

\* A stock changed by what the posted movement says stays explained.
LEMMA StockMoved ==
  ASSUME RowsTyped, FinitelyPosted, StockIsExplained,
         NEW i \in Items, item[i] \in ItemRow, NEW m \in Movements, NEW row \in MovementRow,
         row.item = i, item[i].stock + row.delta \in Nat,
         item' = [item EXCEPT ![i].stock = item[i].stock + row.delta],
         movement[m] = NoRow, movement' = [movement EXCEPT ![m] = row]
  PROVE  /\ item' \in [Items -> ItemRow \cup {NoRow}]
         /\ movement' \in [Movements -> MovementRow \cup {NoRow}]
         /\ FinitelyPosted' /\ StockIsExplained'
         /\ \A j \in Items : Exists(item[j]) <=> Exists(item'[j])
<1> DEFINE n == item[i].stock + row.delta
<1>1. /\ item' \in [Items -> ItemRow \cup {NoRow}]
      /\ item'[i].stock = n /\ item'[i] \in ItemRow
      /\ \A j \in Items \ {i} : item'[j] = item[j]
  BY StockWritten
<1>2. /\ movement' \in [Movements -> MovementRow \cup {NoRow}]
      /\ FinitelyPosted'
      /\ \A j \in Items :
           Total(movement', MovementsOf(j)')
             = Total(movement, MovementsOf(j)) + (IF j = row.item THEN row.delta ELSE 0)
  BY MovementPosted
<1>3. \A j \in Items : Exists(item[j]) <=> Exists(item'[j])
  BY <1>1, ItemFields DEF Exists
<1>4. ASSUME NEW j \in Items, Exists(item'[j])
      PROVE  item'[j].stock = Total(movement', MovementsOf(j)')
  <2>1. item[j] \in ItemRow /\ item[j].stock = Total(movement, MovementsOf(j))
    BY <1>3, <1>4 DEF StockIsExplained, Total, Exists, RowsTyped
  <2>2. item[j].stock \in Int /\ row.delta \in Int
    BY <2>1, ItemFields, MovementFields
  <2>3. CASE j = i
    BY <1>1, <1>2, <2>1, <2>2, <2>3
  <2>4. CASE j # i
    <3>1. item'[j] = item[j]
      BY <1>1, <2>4
    <3> DEFINE t == Total(movement, MovementsOf(j))
    <3>2. t \in Int
      BY <2>1, <2>2
    <3>3. Total(movement', MovementsOf(j)') = t + 0
      BY <1>2, <2>4
    <3> HIDE DEF t
    <3>4. t + 0 = t
      BY <3>2
    <3> QED
      BY <2>1, <3>1, <3>3, <3>4, Zenon DEF t
  <2> QED
    BY <2>3, <2>4
<1>5. StockIsTotal'
  BY <1>4 DEF StockIsTotal
<1>6. StockIsExplained'
  BY <1>5, ExplainedIsTotal, PTL
<1> QED
  BY <1>1, <1>2, <1>3, <1>6

\* The evidence stays while the loans and what is posted for them stay.
LEMMA EvidenceKept ==
  ASSUME StatusHasEvidence, UNCHANGED loan,
         \A l \in Loans, kind \in {"lend", "return", "cancel"} :
           Posted(l, kind)' = Posted(l, kind)
  PROVE  StatusHasEvidence'
<1> SUFFICES ASSUME NEW l \in Loans, Exists(loan'[l])
             PROVE  /\ Cardinality(Posted(l, "lend")') = 1
                    /\ Posted(l, "return")' # {} <=> loan'[l].status = "RETURNED"
                    /\ Posted(l, "cancel")' # {} <=> loan'[l].status = "CANCELLED"
  BY DEF StatusHasEvidence
<1>1. loan' = loan /\ Exists(loan[l])
  OBVIOUS
<1>2. /\ Posted(l, "lend")' = Posted(l, "lend")
      /\ Posted(l, "return")' = Posted(l, "return")
      /\ Posted(l, "cancel")' = Posted(l, "cancel")
  OBVIOUS
<1> QED
  BY <1>1, <1>2 DEF StatusHasEvidence

LEMMA PostedKept ==
  ASSUME UNCHANGED movement
  PROVE  \A l \in Loans, kind \in {"lend", "return", "cancel"} :
           Posted(l, kind)' = Posted(l, kind)
BY DEF Posted

\* The evidence of every loan after a movement is posted.
LEMMA EvidencePosted ==
  ASSUME RowsTyped, NEW m \in Movements, NEW row \in MovementRow,
         movement[m] = NoRow, movement' = [movement EXCEPT ![m] = row]
  PROVE  \A l \in Loans, reason \in {"lend", "return", "cancel"} :
           Posted(l, reason)'
             = IF row.loan = l /\ row.reason = reason THEN Posted(l, reason) \cup {m}
               ELSE Posted(l, reason)
<1>1. \A x \in Movements : movement'[x] = IF x = m THEN row ELSE movement[x]
  BY DEF RowsTyped
<1> QED
  BY <1>1, MovementFields DEF Posted, Exists

-----------------------------------------------------------------------------
(* Steps of the handlers.                                                   *)

LEMMA GroundedStays ==
  ASSUME NEW w \in Work, Grounded(w), RowsStay
  PROVE  Grounded(w)'
BY WorkFields DEF Grounded, RowsStay

\* q's step takes its handler to h, and the rows may only gain.
LEMMA HandlerStep ==
  ASSUME IInv, RowsOK', RowsStay, NEW q \in Requests, NEW h \in TxState,
         tx' = [tx EXCEPT ![q] = h], h.phase # "idle" => Grounded(h.work)'
  PROVE  IInv'
<1>1. tx \in [Requests -> TxState]
  BY DEF IInv
<1>2. \A p \in Requests : tx'[p] = IF p = q THEN h ELSE tx[p]
  BY <1>1
<1>3. WorkIsGrounded'
  <2> SUFFICES ASSUME NEW p \in Requests, NEW w \in Work, tx'[p].phase # "idle",
                      tx'[p].work = w
               PROVE  Grounded(w)'
    BY DEF WorkIsGrounded
  <2>1. CASE p = q
    BY <1>2, <2>1
  <2>2. CASE p # q
    <3>1. Grounded(w)
      BY <1>2, <2>2 DEF IInv, WorkIsGrounded
    <3> QED
      BY <3>1, GroundedStays
  <2> QED
    BY <2>1, <2>2
<1> QED
  BY <1>1, <1>3 DEF IInv

LEMMA RowsUnchanged ==
  ASSUME RowsOK, UNCHANGED rows
  PROVE  RowsOK' /\ RowsStay
<1>1. UNCHANGED <<item, loan, movement>>
  BY DEF rows
<1>2. RowsTyped' /\ ParentsThere' /\ FinitelyPosted' /\ RowsStay
  BY <1>1 DEF RowsOK, RowsTyped, ParentsThere, FinitelyPosted, RowsStay
<1>3. StockIsTotal'
  <2>1. StockIsTotal
    BY ExplainedIsTotal DEF RowsOK
  <2> QED
    BY <1>1, <2>1 DEF StockIsTotal, MovementsOf
<1>4. StockIsExplained'
  BY <1>3, ExplainedIsTotal, PTL
<1>5. StatusHasEvidence'
  BY <1>1, PostedKept, EvidenceKept DEF RowsOK
<1> QED
  BY <1>2, <1>4, <1>5 DEF RowsOK

\* A handler gives up, or its write is refused.
LEMMA IdleStep ==
  ASSUME IInv, NEW q \in Requests, tx' = [tx EXCEPT ![q] = Idle], UNCHANGED rows
  PROVE  IInv'
BY RowsUnchanged, IdleState, HandlerStep DEF IInv

\* A handler has read, or has counted the loans.
LEMMA ReadStep ==
  ASSUME IInv, NEW q \in Requests, NEW w \in Work, Grounded(w),
         NEW p \in {"counting", "open"},
         tx' = [tx EXCEPT ![q] = [phase |-> p, work |-> w]], UNCHANGED rows
  PROVE  IInv'
<1> DEFINE h == [phase |-> p, work |-> w]
<1>1. h \in TxState /\ h.work = w
  BY DEF TxState
<1>2. RowsOK' /\ RowsStay
  BY RowsUnchanged DEF IInv
<1>3. Grounded(w)'
  BY <1>2, GroundedStays
<1> HIDE DEF h
<1>4. h.phase # "idle" => Grounded(h.work)'
  BY <1>1, <1>3
<1>5. tx' = [tx EXCEPT ![q] = h]
  BY DEF h
<1> QED
  BY <1>1, <1>2, <1>4, <1>5, HandlerStep

LEMMA StockRead ==
  ASSUME IInv, NEW q \in Requests, NEW op \in {"entry", "exit", "adjust", "lend"},
         NEW i \in Items, ActiveItem(i), NEW n \in Quantities \cup Counts,
         op # "adjust" => n \in Quantities, op = "adjust" => n # item[i].stock,
         Opens(q, StockWork(op, i, n))
  PROVE  IInv'
<1> DEFINE w == StockWork(op, i, n)
<1>1. item[i] \in ItemRow
  BY DEF ActiveItem, Exists, IInv, RowsOK, RowsTyped
<1>2. w \in Work
  BY <1>1, ItemFields DEF StockWork, Work
<1>3. w.op = op /\ w.item = i /\ w.n = n /\ w.seen = item[i].stock
  BY DEF StockWork
<1>4. tx' = [tx EXCEPT ![q] = [phase |-> "open", work |-> w]] /\ UNCHANGED rows
  BY DEF Opens
<1> HIDE DEF w
<1>5. Grounded(w)
  BY <1>3 DEF Grounded, ActiveItem
<1> QED
  BY <1>2, <1>4, <1>5, ReadStep

LEMMA CloseRead ==
  ASSUME IInv, NEW q \in Requests, NEW op \in {"return", "cancel"}, NEW l \in Loans,
         BeginClose(q, op, l)
  PROVE  IInv'
<1> DEFINE w == [op |-> op, item |-> loan[l].item, loan |-> l,
                 n |-> loan[l].quantity, seen |-> 0]
<1>1. loan[l] \in LoanRow
  BY DEF BeginClose, Exists, IInv, RowsOK, RowsTyped
<1>2. w \in Work
  BY <1>1, LoanFields DEF Work
<1>3. Exists(item[loan[l].item]) /\ Exists(loan[l])
  BY DEF BeginClose, IInv, RowsOK, ParentsThere
<1>4. w.op = op /\ w.item = loan[l].item /\ w.loan = l
  OBVIOUS
<1>5. tx' = [tx EXCEPT ![q] = [phase |-> "open", work |-> w]] /\ UNCHANGED rows
  BY DEF BeginClose, Opens
<1> HIDE DEF w
<1>6. Grounded(w)
  BY <1>3, <1>4 DEF Grounded
<1> QED
  BY <1>2, <1>5, <1>6, ReadStep

LEMMA SetActiveRead ==
  ASSUME IInv, NEW q \in Requests, NEW i \in Items, NEW op \in {"activate", "deactivate"},
         BeginSetActive(q, i, op)
  PROVE  IInv'
<1> DEFINE w == [op |-> op, item |-> i, loan |-> NoRow, n |-> 0, seen |-> 0]
           p == IF op = "activate" THEN "open" ELSE "counting"
<1>1. w \in Work /\ p \in {"counting", "open"}
  BY DEF Work
<1>2. w.op = op /\ w.item = i
  OBVIOUS
<1>3. tx' = [tx EXCEPT ![q] = [phase |-> p, work |-> w]] /\ UNCHANGED rows
      /\ Exists(item[i])
  BY DEF BeginSetActive
<1> HIDE DEF w, p
<1>4. Grounded(w)
  BY <1>2, <1>3 DEF Grounded
<1> QED
  BY <1>1, <1>3, <1>4, ReadStep

LEMMA CountStep ==
  ASSUME IInv, NEW q \in Requests, CountLoans(q)
  PROVE  IInv'
<1> DEFINE w == tx[q].work
<1>1. w \in Work /\ Grounded(w)
  BY WriterKnows DEF CountLoans
<1> HIDE DEF w
<1>2. \/ tx' = [tx EXCEPT ![q] = [phase |-> "open", work |-> w]]
      \/ tx' = [tx EXCEPT ![q] = Idle]
  BY DEF CountLoans, w
<1>3. UNCHANGED rows
  BY DEF CountLoans
<1> QED
  BY <1>1, <1>2, <1>3, IdleStep, ReadStep

-----------------------------------------------------------------------------
(* Commits.                                                                 *)

\* The end of a handler whose writes left the rows sound.
LEMMA CommitStep ==
  ASSUME IInv, RowsOK', RowsStay, NEW q \in Requests, tx' = [tx EXCEPT ![q] = Idle]
  PROVE  IInv'
BY IdleState, HandlerStep

\* The item and the loan of every movement are still there.
LEMMA MovementParents ==
  ASSUME RowsTyped, ParentsThere, RowsStay, NEW m \in Movements, NEW row \in MovementRow,
         movement' = [movement EXCEPT ![m] = row], Exists(item'[row.item]),
         row.loan # NoRow => Exists(loan'[row.loan])
  PROVE  \A x \in Movements :
           Exists(movement'[x]) =>
             /\ Exists(item'[movement'[x].item])
             /\ movement'[x].loan # NoRow => Exists(loan'[movement'[x].loan])
<1> SUFFICES ASSUME NEW x \in Movements, Exists(movement'[x])
             PROVE  /\ Exists(item'[movement'[x].item])
                    /\ movement'[x].loan # NoRow => Exists(loan'[movement'[x].loan])
  OBVIOUS
<1>1. movement'[x] = IF x = m THEN row ELSE movement[x]
  BY DEF RowsTyped
<1>2. CASE x = m
  BY <1>1, <1>2
<1>3. CASE x # m
  <2>1. movement'[x] = movement[x] /\ movement[x] \in MovementRow
    BY <1>1, <1>3 DEF RowsTyped, Exists
  <2>2. movement[x].item \in Items /\ movement[x].loan \in Loans \cup {NoRow}
    BY <2>1, MovementFields
  <2>3. Exists(item[movement[x].item])
        /\ (movement[x].loan # NoRow => Exists(loan[movement[x].loan]))
    BY <2>1 DEF ParentsThere
  <2> QED
    BY <2>1, <2>2, <2>3 DEF RowsStay
<1> QED
  BY <1>2, <1>3

\* A movement that is no loan's: entries, exits, adjustments.
LEMMA LooseMovement ==
  ASSUME RowsOK, NEW i \in Items, item[i] \in ItemRow, NEW m \in Movements,
         NEW delta \in Int \ {0}, NEW reason \in {"entry", "exit", "adjustment"},
         item[i].stock + delta \in Nat,
         item' = [item EXCEPT ![i].stock = item[i].stock + delta],
         Posts(m, i, delta, NoRow, reason), UNCHANGED loan
  PROVE  RowsOK' /\ RowsStay
<1> DEFINE row == [item |-> i, delta |-> delta, loan |-> NoRow, reason |-> reason]
<1>1. row \in MovementRow
  BY DEF MovementRow
<1>2. row.item = i /\ row.delta = delta /\ row.loan = NoRow
  OBVIOUS
<1>3. movement[m] = NoRow /\ movement' = [movement EXCEPT ![m] = row]
  BY DEF Posts
<1> HIDE DEF row
<1>4. /\ item' \in [Items -> ItemRow \cup {NoRow}]
      /\ movement' \in [Movements -> MovementRow \cup {NoRow}]
      /\ FinitelyPosted' /\ StockIsExplained'
      /\ \A j \in Items : Exists(item[j]) <=> Exists(item'[j])
  <2>1. item' = [item EXCEPT ![i].stock = item[i].stock + row.delta]
        /\ item[i].stock + row.delta \in Nat
    BY <1>2
  <2> QED
    BY <1>1, <1>2, <1>3, <2>1, StockMoved DEF RowsOK
<1>5. RowsTyped'
  BY <1>4 DEF RowsOK, RowsTyped
<1>6. RowsStay
  BY <1>4 DEF RowsStay
<1>7. ParentsThere'
  <2>1. Exists(item'[row.item])
    BY <1>2, <1>4, ItemFields DEF Exists
  <2>2. \A l \in Loans : Exists(loan'[l]) => Exists(item'[loan'[l].item])
    BY <1>4, LoanFields DEF RowsOK, RowsTyped, ParentsThere, Exists
  <2> QED
    BY <1>1, <1>2, <1>3, <1>6, <2>1, <2>2, MovementParents DEF RowsOK, ParentsThere
<1>8. StatusHasEvidence'
  <2>1. RowsTyped /\ \A l \in Loans : row.loan # l
    BY <1>2, InventoryRowsAssumption DEF RowsOK
  <2>2. \A l \in Loans, kind \in {"lend", "return", "cancel"} : Posted(l, kind)' = Posted(l, kind)
    BY <1>1, <1>3, <2>1, EvidencePosted
  <2> QED
    BY <2>2, EvidenceKept DEF RowsOK
<1> QED
  BY <1>4, <1>5, <1>6, <1>7, <1>8 DEF RowsOK

\* A loan's new row: lent, or closed as the CHECK on the evidence allows.
Evidenced(l, reason, lent) ==
  IF reason = "lend" THEN loan[l] = NoRow /\ lent.status = "ACTIVE"
  ELSE /\ Exists(loan[l]) /\ lent.status = ClosedStatus(reason)
       /\ loan[l].status \in {"ACTIVE", lent.status}

\* A movement of a loan, with the loan's new row.
LEMMA LoanMovement ==
  ASSUME RowsOK, NEW i \in Items, item[i] \in ItemRow, NEW m \in Movements,
         NEW delta \in Int \ {0}, NEW reason \in {"lend", "return", "cancel"},
         item[i].stock + delta \in Nat,
         item' = [item EXCEPT ![i].stock = item[i].stock + delta],
         NEW l \in Loans, Posts(m, i, delta, l, reason),
         NEW lent \in LoanRow, loan' = [loan EXCEPT ![l] = lent], Exists(item[lent.item]),
         Evidenced(l, reason, lent)
  PROVE  RowsOK' /\ RowsStay
<1> DEFINE row == [item |-> i, delta |-> delta, loan |-> l, reason |-> reason]
<1>1. row \in MovementRow
  BY DEF MovementRow
<1>2. row.item = i /\ row.delta = delta /\ row.loan = l /\ row.reason = reason
  OBVIOUS
<1>3. movement[m] = NoRow /\ movement' = [movement EXCEPT ![m] = row]
  BY DEF Posts
<1> HIDE DEF row
<1>4. /\ item' \in [Items -> ItemRow \cup {NoRow}]
      /\ movement' \in [Movements -> MovementRow \cup {NoRow}]
      /\ FinitelyPosted' /\ StockIsExplained'
      /\ \A j \in Items : Exists(item[j]) <=> Exists(item'[j])
  <2>1. item' = [item EXCEPT ![i].stock = item[i].stock + row.delta]
        /\ item[i].stock + row.delta \in Nat
    BY <1>2
  <2> QED
    BY <1>1, <1>2, <1>3, <2>1, StockMoved DEF RowsOK
<1>5. /\ loan' \in [Loans -> LoanRow \cup {NoRow}]
      /\ \A x \in Loans : loan'[x] = IF x = l THEN lent ELSE loan[x]
      /\ Exists(lent)
  BY LoanFields DEF RowsOK, RowsTyped, Exists
<1>6. RowsTyped' /\ RowsStay
  BY <1>4, <1>5 DEF RowsOK, RowsTyped, RowsStay
<1>7. ParentsThere'
  <2>1. Exists(item'[row.item]) /\ Exists(loan'[row.loan])
    BY <1>2, <1>4, <1>5, ItemFields DEF Exists
  <2>2. ASSUME NEW x \in Loans, Exists(loan'[x])
        PROVE  Exists(item'[loan'[x].item])
    <3>1. CASE x = l
      BY <1>4, <1>5, <3>1, LoanFields
    <3>2. CASE x # l
      <4>1. loan'[x] = loan[x] /\ loan[x] \in LoanRow
        BY <1>5, <2>2, <3>2 DEF Exists, RowsOK, RowsTyped
      <4> QED
        BY <1>4, <2>2, <4>1, LoanFields DEF RowsOK, ParentsThere
    <3> QED
      BY <3>1, <3>2
  <2> QED
    BY <1>1, <1>2, <1>3, <1>6, <2>1, <2>2, MovementParents DEF RowsOK, ParentsThere
<1>8. StatusHasEvidence'
  <2>1. \A x \in Loans, kind \in {"lend", "return", "cancel"} :
          Posted(x, kind)' = IF x = l /\ kind = reason THEN Posted(x, kind) \cup {m}
                             ELSE Posted(x, kind)
    <3>1. \A x \in Loans, kind \in {"lend", "return", "cancel"} :
            Posted(x, kind)'
              = IF row.loan = x /\ row.reason = kind THEN Posted(x, kind) \cup {m}
                ELSE Posted(x, kind)
      <4>1. RowsTyped
        BY DEF RowsOK
      <4> QED
        BY <1>1, <1>3, <4>1, EvidencePosted
    <3> QED
      BY <1>2, <3>1
  <2>2. ASSUME NEW x \in Loans, Exists(loan'[x])
        PROVE  /\ Cardinality(Posted(x, "lend")') = 1
               /\ Posted(x, "return")' # {} <=> loan'[x].status = "RETURNED"
               /\ Posted(x, "cancel")' # {} <=> loan'[x].status = "CANCELLED"
    <3>1. CASE x # l
      <4>1. loan'[x] = loan[x]
        BY <1>5, <3>1
      <4> QED
        BY <2>1, <2>2, <3>1, <4>1 DEF RowsOK, StatusHasEvidence
    <3>2. CASE x = l /\ reason = "lend"
      <4>1. \A kind \in {"lend", "return", "cancel"} : Posted(l, kind) = {}
        <5>1. l # NoRow /\ ~ Exists(loan[l])
          BY <3>2, InventoryRowsAssumption DEF Exists, Evidenced
        <5> QED
          BY <5>1 DEF RowsOK, ParentsThere, Posted
      <4>2. /\ Posted(x, "lend")' = {m} /\ Posted(x, "return")' = {}
            /\ Posted(x, "cancel")' = {}
        BY <2>1, <3>2, <4>1
      <4>3. loan'[x].status = "ACTIVE"
        BY <1>5, <3>2 DEF Evidenced
      <4> QED
        BY <4>2, <4>3, FS_Singleton
    <3>3. CASE x = l /\ reason # "lend"
      <4>1. /\ Cardinality(Posted(l, "lend")) = 1
            /\ Posted(l, "return") # {} <=> loan[l].status = "RETURNED"
            /\ Posted(l, "cancel") # {} <=> loan[l].status = "CANCELLED"
        BY <3>3 DEF RowsOK, StatusHasEvidence, Evidenced
      <4>2. Posted(x, "lend")' = Posted(l, "lend") /\ loan'[x] = lent
        BY <1>5, <2>1, <3>3
      <4>3. CASE reason = "return"
        <5>1. Posted(x, "return")' = Posted(l, "return") \cup {m}
              /\ Posted(x, "cancel")' = Posted(l, "cancel")
          BY <2>1, <3>3, <4>3
        <5>2. lent.status = "RETURNED" /\ loan[l].status \in {"ACTIVE", "RETURNED"}
          BY <3>3, <4>3 DEF ClosedStatus, Evidenced
        <5> QED
          BY <4>1, <4>2, <5>1, <5>2
      <4>4. CASE reason = "cancel"
        <5>1. Posted(x, "cancel")' = Posted(l, "cancel") \cup {m}
              /\ Posted(x, "return")' = Posted(l, "return")
          BY <2>1, <3>3, <4>4
        <5>2. lent.status = "CANCELLED" /\ loan[l].status \in {"ACTIVE", "CANCELLED"}
          BY <3>3, <4>4 DEF ClosedStatus, Evidenced
        <5> QED
          BY <4>1, <4>2, <5>1, <5>2
      <4> QED
        BY <3>3, <4>3, <4>4
    <3> QED
      BY <3>1, <3>2, <3>3
  <2> QED
    BY <2>2 DEF StatusHasEvidence
<1> QED
  BY <1>4, <1>6, <1>7, <1>8 DEF RowsOK

LEMMA EntryStep ==
  ASSUME IInv, NEW q \in Requests, NEW m \in Movements, CommitEntry(q, m)
  PROVE  IInv'
<1> DEFINE w == tx[q].work
<1>1. w \in Work /\ Grounded(w) /\ w.op = "entry" /\ w.item \in Items
      /\ item[w.item] \in ItemRow
  BY WriterKnows DEF CommitEntry, Ends
<1>2. w.n \in Nat /\ w.n > 0 /\ item[w.item].stock \in Nat
  BY <1>1, ItemFields, QuantitiesArePositive DEF Grounded
<1>3. /\ item' = [item EXCEPT ![w.item].stock = item[w.item].stock + w.n]
      /\ Posts(m, w.item, w.n, NoRow, "entry")
      /\ UNCHANGED loan /\ tx' = [tx EXCEPT ![q] = Idle]
  BY DEF CommitEntry, Ends
<1> HIDE DEF w
<1>4. w.n \in Int \ {0} /\ item[w.item].stock + w.n \in Nat
  BY <1>2
<1>5. RowsOK' /\ RowsStay
  BY <1>1, <1>3, <1>4, LooseMovement DEF IInv
<1> QED
  BY <1>3, <1>5, CommitStep

LEMMA ExitStep ==
  ASSUME IInv, NEW q \in Requests, NEW m \in Movements, CommitExit(q, m)
  PROVE  IInv'
<1> DEFINE w == tx[q].work
           delta == 0 - w.n
<1>1. w \in Work /\ Grounded(w) /\ w.op = "exit" /\ w.item \in Items
      /\ item[w.item] \in ItemRow
  BY WriterKnows DEF CommitExit, Ends
<1>2. w.n \in Nat /\ w.n > 0 /\ item[w.item].stock \in Nat /\ item[w.item].stock >= w.n
  BY <1>1, ItemFields, QuantitiesArePositive DEF Grounded, CommitExit, TakesStock
<1>3. /\ item' = [item EXCEPT ![w.item].stock = item[w.item].stock - w.n]
      /\ Posts(m, w.item, delta, NoRow, "exit")
      /\ UNCHANGED loan /\ tx' = [tx EXCEPT ![q] = Idle]
  BY DEF CommitExit, Ends
<1> HIDE DEF w
<1>4. /\ delta \in Int \ {0} /\ item[w.item].stock + delta \in Nat
      /\ item[w.item].stock - w.n = item[w.item].stock + delta
  BY <1>2
<1> HIDE DEF delta
<1>5. item' = [item EXCEPT ![w.item].stock = item[w.item].stock + delta]
  BY <1>3, <1>4
<1>6. RowsOK' /\ RowsStay
  BY <1>1, <1>3, <1>4, <1>5, LooseMovement DEF IInv
<1> QED
  BY <1>3, <1>6, CommitStep

LEMMA AdjustmentStep ==
  ASSUME IInv, NEW q \in Requests, NEW m \in Movements, CommitAdjustment(q, m)
  PROVE  IInv'
<1> DEFINE w == tx[q].work
           delta == w.n - w.seen
<1>1. w \in Work /\ Grounded(w) /\ w.op = "adjust" /\ w.item \in Items
      /\ item[w.item] \in ItemRow
  BY WriterKnows DEF CommitAdjustment, Ends
<1>2. w.n \in Nat /\ w.seen \in Nat /\ w.n # w.seen /\ item[w.item].stock = w.seen
  BY <1>1, WorkFields DEF Grounded, CommitAdjustment, StillAsSeen
<1>3. /\ item' = [item EXCEPT ![w.item].stock = w.n]
      /\ Posts(m, w.item, delta, NoRow, "adjustment")
      /\ UNCHANGED loan /\ tx' = [tx EXCEPT ![q] = Idle]
  BY DEF CommitAdjustment, Ends
<1> HIDE DEF w
<1>4. /\ delta \in Int \ {0} /\ item[w.item].stock + delta \in Nat
      /\ w.n = item[w.item].stock + delta
  BY <1>2
<1> HIDE DEF delta
<1>5. item' = [item EXCEPT ![w.item].stock = item[w.item].stock + delta]
  BY <1>3, <1>4
<1>6. RowsOK' /\ RowsStay
  BY <1>1, <1>3, <1>4, <1>5, LooseMovement DEF IInv
<1> QED
  BY <1>3, <1>6, CommitStep

LEMMA LoanStep ==
  ASSUME IInv, NEW q \in Requests, NEW l \in Loans, NEW m \in Movements, CommitLoan(q, l, m)
  PROVE  IInv'
<1> DEFINE w == tx[q].work
           delta == 0 - w.n
           lent == [item |-> w.item, quantity |-> w.n, status |-> "ACTIVE"]
<1>1. w \in Work /\ Grounded(w) /\ w.op = "lend" /\ w.item \in Items
      /\ item[w.item] \in ItemRow
  BY WriterKnows DEF CommitLoan, Ends
<1>2. w.n \in Nat /\ w.n > 0 /\ item[w.item].stock \in Nat /\ item[w.item].stock >= w.n
      /\ w.n \in Quantities
  BY <1>1, ItemFields, QuantitiesArePositive DEF Grounded, CommitLoan, TakesStock
<1>3. /\ item' = [item EXCEPT ![w.item].stock = item[w.item].stock - w.n]
      /\ Posts(m, w.item, delta, l, "lend")
      /\ loan[l] = NoRow /\ loan' = [loan EXCEPT ![l] = lent]
      /\ tx' = [tx EXCEPT ![q] = Idle]
  BY DEF CommitLoan, Ends
<1>4. lent \in LoanRow /\ lent.status = "ACTIVE" /\ lent.item = w.item
  BY <1>1, <1>2 DEF LoanRow, LoanStatus
<1>5. Exists(item[w.item])
  BY <1>1 DEF Grounded
<1> HIDE DEF w
<1>6. /\ delta \in Int \ {0} /\ item[w.item].stock + delta \in Nat
      /\ item[w.item].stock - w.n = item[w.item].stock + delta
  BY <1>2
<1> HIDE DEF delta, lent
<1>7. item' = [item EXCEPT ![w.item].stock = item[w.item].stock + delta]
  BY <1>3, <1>6
<1>8. Evidenced(l, "lend", lent)
  BY <1>3, <1>4 DEF Evidenced
<1>9. RowsOK' /\ RowsStay
  BY <1>1, <1>3, <1>4, <1>5, <1>6, <1>7, <1>8, LoanMovement DEF IInv
<1> QED
  BY <1>3, <1>9, CommitStep

LEMMA CloseStep ==
  ASSUME IInv, NEW q \in Requests, NEW op \in {"return", "cancel"}, NEW m \in Movements,
         CommitClose(q, op, m)
  PROVE  IInv'
<1> DEFINE w == tx[q].work
           l == w.loan
           closed == [loan[l] EXCEPT !.status = ClosedStatus(op)]
<1>1. w \in Work /\ Grounded(w) /\ w.op = op /\ w.item \in Items
      /\ item[w.item] \in ItemRow
  BY WriterKnows DEF CommitClose, Ends
<1>2. l \in Loans /\ w.n \in Nat /\ w.n > 0 /\ item[w.item].stock \in Nat
  BY <1>1, WorkFields, ItemFields, QuantitiesArePositive
<1>3. Exists(loan[l]) /\ loan[l] \in LoanRow
  BY <1>1, <1>2 DEF Grounded, Exists, IInv, RowsOK, RowsTyped
<1>4. Exists(item[loan[l].item])
  BY <1>2, <1>3 DEF IInv, RowsOK, ParentsThere
<1>5. /\ item' = [item EXCEPT ![w.item].stock = item[w.item].stock + w.n]
      /\ Posts(m, w.item, w.n, l, op)
      /\ loan' = [loan EXCEPT ![l] = closed]
      /\ loan[l].status \in {"ACTIVE", ClosedStatus(op)}
      /\ tx' = [tx EXCEPT ![q] = Idle]
  BY DEF CommitClose, Ends, EvidenceCheck
<1>6. closed \in LoanRow /\ closed.status = ClosedStatus(op) /\ closed.item = loan[l].item
  BY <1>3 DEF LoanRow, LoanStatus, ClosedStatus
<1> HIDE DEF w, closed
<1>7. w.n \in Int \ {0} /\ item[w.item].stock + w.n \in Nat /\ Exists(item[closed.item])
  BY <1>2, <1>4, <1>6
<1>8. Evidenced(l, op, closed)
  BY <1>3, <1>5, <1>6 DEF Evidenced
<1> HIDE DEF l
<1>9. RowsOK' /\ RowsStay
  BY <1>1, <1>2, <1>5, <1>6, <1>7, <1>8, LoanMovement DEF IInv
<1> QED
  BY <1>5, <1>9, CommitStep

LEMMA ActivationStep ==
  ASSUME IInv, NEW q \in Requests, NEW op \in {"activate", "deactivate"},
         CommitSetActive(q, op)
  PROVE  IInv'
<1> DEFINE w == tx[q].work
           i == w.item
           status == IF op = "activate" THEN "ACTIVE" ELSE "INACTIVE"
<1>1. i \in Items /\ item[i] \in ItemRow
  BY WriterKnows DEF CommitSetActive, Ends
<1>2. /\ item' = [item EXCEPT ![i].status = status]
      /\ UNCHANGED <<loan, movement>> /\ tx' = [tx EXCEPT ![q] = Idle]
  BY DEF CommitSetActive, Ends
<1>3. status \in {"ACTIVE", "INACTIVE"}
  OBVIOUS
<1> HIDE DEF i, w, status
<1>4. /\ item' \in [Items -> ItemRow \cup {NoRow}]
      /\ item'[i] \in ItemRow /\ item'[i].stock = item[i].stock
      /\ \A j \in Items \ {i} : item'[j] = item[j]
  BY <1>1, <1>2, <1>3 DEF ItemRow, IInv, RowsOK, RowsTyped
<1>5. \A j \in Items : Exists(item[j]) <=> Exists(item'[j])
  BY <1>1, <1>4, ItemFields DEF Exists
<1>6. RowsTyped' /\ FinitelyPosted' /\ StatusHasEvidence' /\ RowsStay
  <2>1. RowsTyped'
    BY <1>2, <1>4 DEF IInv, RowsOK, RowsTyped
  <2>2. FinitelyPosted'
    BY <1>2 DEF IInv, RowsOK, FinitelyPosted
  <2>3. StatusHasEvidence'
    BY <1>2, PostedKept, EvidenceKept DEF IInv, RowsOK
  <2>4. RowsStay
    BY <1>2, <1>5 DEF RowsStay
  <2> QED
    BY <2>1, <2>2, <2>3, <2>4
<1>7. ParentsThere'
  <2>1. \A l \in Loans : Exists(loan[l]) => loan[l].item \in Items
    BY LoanFields DEF IInv, RowsOK, RowsTyped, Exists
  <2>2. \A m \in Movements : Exists(movement[m]) => movement[m].item \in Items
    BY MovementFields DEF IInv, RowsOK, RowsTyped, Exists
  <2> QED
    BY <1>2, <1>5, <2>1, <2>2 DEF IInv, RowsOK, ParentsThere
<1>8. StockIsExplained'
  <2>1. StockIsTotal
    BY ExplainedIsTotal DEF IInv, RowsOK
  <2>2. StockIsTotal'
    BY <1>1, <1>2, <1>4, <1>5, <2>1 DEF StockIsTotal, MovementsOf
  <2> QED
    BY <2>2, ExplainedIsTotal, PTL
<1>9. RowsOK'
  BY <1>6, <1>7, <1>8 DEF RowsOK
<1> QED
  BY <1>2, <1>6, <1>9, CommitStep

LEMMA CreateStep ==
  ASSUME IInv, NEW i \in Items, NEW m \in Movements, NEW n \in Counts, CreateItem(i, m, n)
  PROVE  IInv'
<1> DEFINE new == [stock |-> n, status |-> "ACTIVE"]
           row == [item |-> i, delta |-> n, loan |-> NoRow, reason |-> "entry"]
<1>1. n \in Nat /\ n \in Int
  BY QuantitiesAssumption
<1>2. new \in ItemRow /\ new.stock = n /\ Exists(new)
  BY <1>1, ItemFields DEF ItemRow, Exists
<1>3. /\ item[i] = NoRow /\ item' = [item EXCEPT ![i] = new]
      /\ UNCHANGED <<loan, tx>>
      /\ n > 0 => movement[m] = NoRow /\ movement' = [movement EXCEPT ![m] = row]
      /\ ~ n > 0 => movement' = movement
  BY DEF CreateItem, Posts
<1>4. n > 0 => row \in MovementRow
  BY <1>1 DEF MovementRow
<1>5. row.item = i /\ row.delta = n /\ row.loan = NoRow /\ row.reason = "entry"
  OBVIOUS
<1> HIDE DEF new, row
<1>6. RowsTyped /\ ParentsThere /\ FinitelyPosted /\ StockIsTotal /\ StatusHasEvidence
  BY ExplainedIsTotal DEF IInv, RowsOK
<1>7. \A x \in Items : item'[x] = IF x = i THEN new ELSE item[x]
  BY <1>3, <1>6 DEF RowsTyped
<1>8. item' \in [Items -> ItemRow \cup {NoRow}] /\ RowsStay
  BY <1>2, <1>3, <1>6, <1>7 DEF RowsTyped, RowsStay
<1>9. MovementsOf(i) = {}
  BY <1>3, <1>6 DEF ParentsThere, MovementsOf, Exists
<1>10. ASSUME NEW x \in Items, Exists(item'[x]), x # i
       PROVE  item'[x].stock = Total(movement, MovementsOf(x)) /\ item'[x].stock \in Nat
  BY <1>6, <1>7, <1>10, ItemFields DEF StockIsTotal, RowsTyped, Exists
<1>11. item'[i].stock = n
  BY <1>2, <1>7
<1>12. WorkIsGrounded' /\ tx' \in [Requests -> TxState]
  BY <1>3, <1>8, GroundedStays DEF IInv, WorkIsGrounded
<1>13. CASE n > 0
  <2>1. /\ movement' \in [Movements -> MovementRow \cup {NoRow}]
        /\ FinitelyPosted'
        /\ \A x \in Items :
             Total(movement', MovementsOf(x)')
               = Total(movement, MovementsOf(x)) + (IF x = row.item THEN row.delta ELSE 0)
    BY <1>3, <1>4, <1>6, <1>13, MovementPosted
  <2>2. RowsTyped'
    BY <1>3, <1>6, <1>8, <2>1 DEF RowsTyped
  <2>3. StockIsExplained'
    <3>1. ASSUME NEW x \in Items, Exists(item'[x])
          PROVE  item'[x].stock = Total(movement', MovementsOf(x)')
      <4>1. CASE x = i
        <5>1. Total(movement', MovementsOf(i)') = 0 + n
          BY <1>5, <1>9, <2>1, TotalOfNone
        <5> QED
          BY <1>1, <1>11, <4>1, <5>1
      <4>2. CASE x # i
        <5> DEFINE t == Total(movement, MovementsOf(x))
        <5>1. Total(movement', MovementsOf(x)') = t + 0
          BY <1>5, <2>1, <4>2
        <5>2. item'[x].stock = t /\ item'[x].stock \in Nat
          BY <1>10, <3>1, <4>2
        <5> HIDE DEF t
        <5>3. t + 0 = t
          BY <5>2
        <5> QED
          BY <5>1, <5>2, <5>3, Zenon
      <4> QED
        BY <4>1, <4>2
    <3>2. StockIsTotal'
      BY <3>1 DEF StockIsTotal
    <3> QED
      BY <3>2, ExplainedIsTotal, PTL
  <2>4. ParentsThere'
    <3>1. Exists(item'[row.item]) /\ row.loan = NoRow
      BY <1>2, <1>5, <1>7
    <3>2. \A l \in Loans : Exists(loan'[l]) => Exists(item'[loan'[l].item])
      BY <1>3, <1>6, <1>8, LoanFields DEF RowsTyped, ParentsThere, RowsStay, Exists
    <3> QED
      BY <1>3, <1>4, <1>6, <1>8, <1>13, <3>1, <3>2, MovementParents DEF ParentsThere
  <2>5. StatusHasEvidence'
    <3>1. \A l \in Loans : row.loan # l
      BY <1>5, InventoryRowsAssumption
    <3>2. \A l \in Loans, kind \in {"lend", "return", "cancel"} :
            Posted(l, kind)' = Posted(l, kind)
      BY <1>3, <1>4, <1>6, <1>13, <3>1, EvidencePosted
    <3> QED
      BY <1>3, <1>6, <3>2, EvidenceKept
  <2> QED
    BY <1>12, <2>1, <2>2, <2>3, <2>4, <2>5 DEF IInv, RowsOK
<1>14. CASE ~ n > 0
  <2>1. movement' = movement /\ n = 0 /\ UNCHANGED loan
    BY <1>1, <1>3, <1>14
  <2>2. RowsTyped' /\ FinitelyPosted' /\ StatusHasEvidence'
    <3>1. RowsTyped' /\ FinitelyPosted'
      BY <1>6, <1>8, <2>1 DEF RowsTyped, FinitelyPosted
    <3> QED
      BY <1>6, <2>1, <3>1, PostedKept, EvidenceKept
  <2>3. StockIsTotal'
    <3>1. ASSUME NEW x \in Items, Exists(item'[x])
          PROVE  item'[x].stock = Total(movement, MovementsOf(x))
      <4>1. CASE x = i
        BY <1>9, <1>11, <2>1, <4>1, TotalOfNone
      <4>2. CASE x # i
        BY <1>10, <3>1, <4>2
      <4> QED
        BY <4>1, <4>2
    <3> QED
      BY <2>1, <3>1 DEF StockIsTotal, MovementsOf
  <2>4. StockIsExplained'
    BY <2>3, ExplainedIsTotal, PTL
  <2>5. ParentsThere'
    BY <1>6, <1>8, <2>1, LoanFields, MovementFields DEF RowsTyped, ParentsThere, RowsStay, Exists
  <2> QED
    BY <1>12, <2>2, <2>4, <2>5 DEF IInv, RowsOK
<1> QED
  BY <1>13, <1>14

-----------------------------------------------------------------------------
(* The theorems.                                                            *)

LEMMA Initially == Init => IInv
<1> SUFFICES ASSUME Init PROVE IInv
  OBVIOUS
<1>1. RowsTyped /\ ParentsThere /\ StatusHasEvidence /\ StockIsTotal
  BY DEF Init, RowsTyped, ParentsThere, StatusHasEvidence, StockIsTotal, Exists
<1>2. {m \in Movements : Exists(movement[m])} = {}
  BY DEF Init, Exists
<1>3. FinitelyPosted
  BY <1>2, FS_EmptySet DEF FinitelyPosted
<1>4. tx \in [Requests -> TxState] /\ WorkIsGrounded
  BY IdleState DEF Init, WorkIsGrounded
<1> QED
  BY <1>1, <1>3, <1>4, ExplainedIsTotal DEF IInv, RowsOK

LEMMA Inductive == IInv /\ [Next]_vars => IInv'
<1> SUFFICES ASSUME IInv, [Next]_vars PROVE IInv'
  OBVIOUS
<1>1. ASSUME NEW i \in Items, NEW m \in Movements, NEW n \in Counts, CreateItem(i, m, n)
      PROVE  IInv'
  BY <1>1, CreateStep
<1>2. ASSUME NEW q \in Requests, Begins(q)
      PROVE  IInv'
  <2>1. ASSUME NEW i \in Items, NEW n \in Quantities,
               BeginEntry(q, i, n) \/ BeginExit(q, i, n) \/ BeginLoan(q, i, n)
        PROVE  IInv'
    BY <2>1, StockRead DEF BeginEntry, BeginExit, BeginLoan
  <2>2. ASSUME NEW i \in Items, NEW n \in Counts, BeginAdjustment(q, i, n)
        PROVE  IInv'
    BY <2>2, StockRead DEF BeginAdjustment
  <2> QED
    BY <1>2, <2>1, <2>2, CloseRead, SetActiveRead DEF Begins
<1>3. ASSUME NEW q \in Requests, Commits(q)
      PROVE  IInv'
  BY <1>3, EntryStep, ExitStep, AdjustmentStep, LoanStep, CloseStep, ActivationStep
     DEF Commits
<1>4. ASSUME NEW q \in Requests, RefuseAtWrite(q) \/ Lose(q)
      PROVE  IInv'
  BY <1>4, IdleStep DEF RefuseAtWrite, Lose
<1>5. ASSUME NEW q \in Requests, NEW op \in {"return", "cancel"}, CloseRolledBack(q, op)
      PROVE  IInv'
  BY <1>5, IdleStep DEF CloseRolledBack, Ends
<1>6. CASE UNCHANGED vars
  <2>1. UNCHANGED rows /\ UNCHANGED tx
    BY <1>6 DEF vars, rows
  <2>2. RowsOK' /\ RowsStay
    BY <2>1, RowsUnchanged DEF IInv
  <2> QED
    BY <2>1, <2>2, GroundedStays DEF IInv, WorkIsGrounded
<1> QED
  BY <1>1, <1>2, <1>3, <1>4, <1>5, <1>6, CountStep DEF Next

LEMMA Invariance == Spec => []IInv
BY Initially, Inductive, PTL DEF Spec

\* Whatever exits, loans and adjustments interleave, no stock goes negative,
\* and every row and every handler keeps its type.
THEOREM TypeCorrect == Spec => []TypeOK
<1>1. IInv => TypeOK
  BY StateFields DEF IInv, RowsOK, RowsTyped, TxState, TypeOK
<1> QED
  BY <1>1, Invariance, PTL

\* The stock of an item is the sum of its movements, however many: an
\* adjustment computed from a stale count is never applied.
THEOREM StockStaysExplained == Spec => []StockIsExplained
<1>1. IInv => StockIsExplained
  BY DEF IInv, RowsOK
<1> QED
  BY <1>1, Invariance, PTL

\* A loan was lent once, and is never both returned and cancelled.
THEOREM EvidenceAgrees == Spec => []StatusHasEvidence
<1>1. IInv => StatusHasEvidence
  BY DEF IInv, RowsOK
<1> QED
  BY <1>1, Invariance, PTL

=============================================================================
