--------------------------- MODULE AssembliesProofs ---------------------------
(* What the handlers of an assembly keep, and the justifications beside     *)
(* them, for any number of handlers, reviewers, affiliates and rounds.      *)
EXTENDS AbsenceJustifications, FiniteSetTheorems, TLAPS

\* A handler that found convocations and has lost none still finds them.
FoundAreConvoked ==
  \A q \in Requests :
    tx[q].phase = "open" /\ tx[q].work.op = "record" => tx[q].seen \subseteq convoked

\* A removal no commit has doomed still sees what its snapshot saw.
SnapshotsAreCurrent ==
  \A q \in Requests : tx[q].phase = "snapshot" /\ ~ tx[q].doomed => Recorded = {}

RowsOK == RowsHaveParents /\ FoundAreConvoked /\ SnapshotsAreCurrent

IInv == TypeOK /\ RowsOK

-----------------------------------------------------------------------------
(* Types.                                                                   *)

LEMMA HandlerFields ==
  ASSUME NEW h \in HandlerState
  PROVE  /\ h = [phase |-> h.phase, work |-> h.work, seen |-> h.seen, doomed |-> h.doomed]
         /\ h.seen \subseteq Affiliates \cup CallNumbers
         /\ h.doomed \in BOOLEAN
         /\ h.phase = "idle" => h = Idle
         /\ h.phase # "idle" =>
              /\ h.phase \in {"checked", "open", "deleted", "snapshot"}
              /\ h.work \in Work
<1>1. CASE h = Idle
  BY <1>1 DEF Idle, Handler
<1>2. CASE h # Idle
  BY <1>2 DEF HandlerState
<1> QED
  BY <1>1, <1>2

LEMMA WorkFields ==
  ASSUME NEW w \in Work
  PROVE  /\ w.op = "update" =>
              /\ w.status \in {Absent, "SCHEDULED", "CANCELLED"}
              /\ w.quorumType \in QuorumType \cup {Absent}
              /\ w.quorumValue \in QuorumValues \cup {Absent}
         /\ w.op = "replaceCalls" => w.new \in SUBSET CallNumbers
         /\ w.op = "replaceConvocations" => w.new \in SUBSET Affiliates
         /\ w.op = "complete" =>
              w \in [op : {"complete"}, convokedCount : Nat \cup {Absent},
                     recordedCount : Nat \cup {Absent}]
         /\ w.op = "record" => w.entries \in Sheet
BY DEF Work

LEMMA CommittedState ==
  ASSUME tx \in [Requests -> HandlerState], NEW q \in Requests, NEW gone, Committed(q, gone)
  PROVE  /\ tx' \in [Requests -> HandlerState]
         /\ tx'[q] = Idle
         /\ \A p \in Requests \ {q} :
              /\ tx'[p].phase = tx[p].phase
              /\ tx'[p].work = tx[p].work
              /\ tx'[p].seen = tx[p].seen \ gone
              /\ tx[p].phase = "snapshot" => tx'[p].doomed
<1>1. tx'[q] = Idle
  BY DEF Committed
<1>2. ASSUME NEW p \in Requests \ {q}
      PROVE  /\ tx'[p] \in HandlerState
             /\ tx'[p].phase = tx[p].phase
             /\ tx'[p].work = tx[p].work
             /\ tx'[p].seen = tx[p].seen \ gone
             /\ tx[p].phase = "snapshot" => tx'[p].doomed
  <2> DEFINE after == [phase |-> tx[p].phase, work |-> tx[p].work,
                       seen |-> tx[p].seen \ gone,
                       doomed |-> tx[p].doomed \/ tx[p].phase = "snapshot"]
  <2>1. tx[p] \in HandlerState
    OBVIOUS
  <2>2. tx'[p] = [tx[p] EXCEPT !.seen = tx[p].seen \ gone,
                               !.doomed = tx[p].doomed \/ tx[p].phase = "snapshot"]
    BY <1>2 DEF Committed, DoomsRemoval
  <2>3. tx'[p] = after
    BY <2>1, <2>2, HandlerFields
  <2>4. after \in HandlerState
    <3>1. CASE tx[p].phase = "idle"
      <4>1. /\ tx[p].work = Absent /\ tx[p].seen = {} /\ tx[p].doomed = FALSE
        BY <2>1, <3>1, HandlerFields DEF Idle, Handler
      <4>2. (tx[p].doomed \/ tx[p].phase = "snapshot") = FALSE
        BY <3>1, <4>1
      <4>3. tx[p].seen \ gone = {}
        BY <4>1
      <4>4. after = Idle
        BY <3>1, <4>1, <4>2, <4>3 DEF Idle, Handler
      <4> QED
        BY <4>4 DEF HandlerState
    <3>2. CASE tx[p].phase # "idle"
      BY <2>1, <3>2, HandlerFields DEF HandlerState
    <3> QED
      BY <3>1, <3>2
  <2>5. tx'[p].doomed = (tx[p].doomed \/ tx[p].phase = "snapshot")
    BY <2>3
  <2>6. tx[p].phase = "snapshot" => tx'[p].doomed
    BY <2>5, Zenon
  <2>7. /\ tx'[p].phase = tx[p].phase
        /\ tx'[p].work = tx[p].work
        /\ tx'[p].seen = tx[p].seen \ gone
    BY <2>3
  <2> QED
    BY <2>3, <2>4, <2>6, <2>7
<1>3. tx' = [p \in Requests |-> tx'[p]]
  BY DEF Committed
<1>4. \A p \in Requests : tx'[p] \in HandlerState
  BY <1>1, <1>2 DEF HandlerState
<1>5. tx' \in [Requests -> HandlerState]
  BY <1>3, <1>4
<1> QED
  BY <1>1, <1>2, <1>5

LEMMA BeginsType ==
  ASSUME TypeOK, NEW q \in Requests, NEW phase \in {"checked", "open"},
         NEW work \in Work, Begins(q, phase, work)
  PROVE  TypeOK'
<1>1. Handler(phase, work, {}) \in HandlerState
  BY DEF Handler, HandlerState
<1>2. tx' = [tx EXCEPT ![q] = Handler(phase, work, {})]
  BY DEF Begins
<1>3. tx' \in [Requests -> HandlerState]
  BY <1>1, <1>2 DEF TypeOK
<1> QED
  BY <1>3 DEF TypeOK, Begins, rows, Sheet

LEMMA MovesType ==
  ASSUME TypeOK, NEW q \in Requests, tx[q].phase # "idle",
         NEW phase \in {"open", "deleted", "snapshot"},
         NEW seen \in SUBSET (Affiliates \cup CallNumbers), Moves(q, phase, seen)
  PROVE  TypeOK'
<1>1. tx[q].work \in Work
  BY HandlerFields DEF TypeOK
<1>2. Handler(phase, tx[q].work, seen) \in HandlerState
  BY <1>1 DEF Handler, HandlerState
<1>3. tx' = [tx EXCEPT ![q] = Handler(phase, tx[q].work, seen)]
  BY DEF Moves
<1>4. tx' \in [Requests -> HandlerState]
  BY <1>2, <1>3 DEF TypeOK
<1> QED
  BY <1>4 DEF TypeOK, Moves, rows, Sheet

LEMMA RowType ==
  ASSUME NEW row \in AssemblyRow, NEW status \in AssemblyStatus, NEW locked \in BOOLEAN,
         NEW type \in QuorumType, NEW value \in QuorumValues, QuorumOk(type, value)
  PROVE  /\ [row EXCEPT !.status = status, !.locked = locked,
                        !.quorumType = type, !.quorumValue = value] \in AssemblyRow
         /\ [row EXCEPT !.status = status, !.locked = locked] \in AssemblyRow
         /\ [row EXCEPT !.status = status] \in AssemblyRow
BY DEF AssemblyRow, QuorumOk

LEMMA BeginsOneType ==
  ASSUME TypeOK, NEW q \in Requests, BeginsOne(q)
  PROVE  TypeOK'
<1> USE DEF Work
<1>1. CASE \E status \in {Absent, "SCHEDULED", "CANCELLED"},
             type \in QuorumType \cup {Absent}, value \in QuorumValues \cup {Absent} :
            BeginUpdate(q, status, type, value)
  <2>1. PICK status \in {Absent, "SCHEDULED", "CANCELLED"},
             type \in QuorumType \cup {Absent}, value \in QuorumValues \cup {Absent} :
          BeginUpdate(q, status, type, value)
    BY <1>1
  <2> DEFINE newType == Given(type, assembly.quorumType)
             newValue == Given(value, assembly.quorumValue)
             work == [op |-> "update", status |-> status, quorumType |-> type,
                      quorumValue |-> value, newType |-> newType, newValue |-> newValue]
  <2>2. assembly \in AssemblyRow
    BY <2>1 DEF BeginUpdate, Scheduled, Exists, TypeOK
  <2>3. newType \in QuorumType /\ newValue \in QuorumValues
    BY <2>2 DEF Given, AssemblyRow
  <2>4. work \in Work
    BY <2>3
  <2>5. Begins(q, "checked", work)
    BY <2>1 DEF BeginUpdate
  <2> QED
    BY <2>4, <2>5, BeginsType
<1>2. CASE \E new \in SUBSET CallNumbers : BeginReplaceCalls(q, new)
  BY <1>2, BeginsType DEF BeginReplaceCalls
<1>3. CASE \E new \in SUBSET Affiliates : BeginReplaceConvocations(q, new)
  BY <1>3, BeginsType DEF BeginReplaceConvocations
<1>4. CASE BeginStart(q)
  BY <1>4, BeginsType DEF BeginStart
<1>5. CASE BeginComplete(q)
  BY <1>5, BeginsType DEF BeginComplete
<1>6. CASE BeginRemove(q)
  BY <1>6, BeginsType DEF BeginRemove
<1>7. CASE \E entries \in Sheet : BeginRecord(q, entries)
  BY <1>7, BeginsType DEF BeginRecord
<1> QED
  BY <1>1, <1>2, <1>3, <1>4, <1>5, <1>6, <1>7 DEF BeginsOne

LEMMA CountType ==
  ASSUME TypeOK, NEW q \in Requests, CountConvoked(q) \/ CountRecorded(q)
  PROVE  TypeOK'
<1>1. Cardinality(convoked) \in Nat /\ Cardinality(Recorded) \in Nat
  <2>1. IsFiniteSet(convoked) /\ IsFiniteSet(Recorded)
    BY AffiliatesAssumption, FS_Subset DEF TypeOK, Recorded
  <2> QED
    BY <2>1, FS_CardinalityType
<1>2. PICK convokedCount \in Nat \cup {Absent}, recordedCount \in Nat \cup {Absent} :
        tx' = [tx EXCEPT ![q].work = [op |-> "complete", convokedCount |-> convokedCount,
                                      recordedCount |-> recordedCount]]
  <2>1. tx[q].work \in [op : {"complete"}, convokedCount : Nat \cup {Absent},
                        recordedCount : Nat \cup {Absent}]
    BY HandlerFields, WorkFields DEF TypeOK, CountConvoked, CountRecorded, Checked
  <2>2. CASE CountConvoked(q)
    <3>1. [tx[q].work EXCEPT !.convokedCount = Cardinality(convoked)]
            = [op |-> "complete", convokedCount |-> Cardinality(convoked),
               recordedCount |-> tx[q].work.recordedCount]
      BY <2>1
    <3>2. tx' = [tx EXCEPT ![q].work = [tx[q].work EXCEPT !.convokedCount = Cardinality(convoked)]]
      BY <2>2 DEF CountConvoked, TypeOK
    <3> QED
      BY <1>1, <2>1, <3>1, <3>2
  <2>3. CASE CountRecorded(q)
    <3>1. [tx[q].work EXCEPT !.recordedCount = Cardinality(Recorded)]
            = [op |-> "complete", convokedCount |-> tx[q].work.convokedCount,
               recordedCount |-> Cardinality(Recorded)]
      BY <2>1
    <3>2. tx' = [tx EXCEPT ![q].work = [tx[q].work EXCEPT !.recordedCount = Cardinality(Recorded)]]
      BY <2>3 DEF CountRecorded, TypeOK
    <3> QED
      BY <1>1, <2>1, <3>1, <3>2
  <2> QED
    BY <2>2, <2>3
<1> DEFINE work == [op |-> "complete", convokedCount |-> convokedCount,
                    recordedCount |-> recordedCount]
<1>3. work \in Work
  BY <1>2 DEF Work
<1>4. tx[q].phase = "checked" /\ tx[q] \in HandlerState
  BY DEF CountConvoked, CountRecorded, Checked, TypeOK
<1>5. tx' = [tx EXCEPT ![q] = [phase |-> "checked", work |-> work, seen |-> tx[q].seen,
                               doomed |-> tx[q].doomed]]
  <2>1. [tx[q] EXCEPT !.work = work] = [phase |-> "checked", work |-> work,
                                        seen |-> tx[q].seen, doomed |-> tx[q].doomed]
    BY <1>4, HandlerFields
  <2> QED
    BY <1>2, <2>1 DEF TypeOK
<1>6. tx' \in [Requests -> HandlerState]
  <2>1. tx[q].seen \subseteq Affiliates \cup CallNumbers /\ tx[q].doomed \in BOOLEAN
    BY <1>4, HandlerFields
  <2>2. [phase |-> "checked", work |-> work, seen |-> tx[q].seen, doomed |-> tx[q].doomed]
          \in HandlerState
    BY <1>3, <2>1 DEF HandlerState
  <2> QED
    BY <1>5, <2>2 DEF TypeOK
<1> QED
  BY <1>6 DEF TypeOK, CountConvoked, CountRecorded, rows, Sheet

LEMMA ReadsType ==
  ASSUME TypeOK, NEW q \in Requests, Reads(q)
  PROVE  TypeOK'
<1>1. CASE CountForUpdate(q)
  BY <1>1, MovesType DEF CountForUpdate, Checked, Opens
<1>2. CASE CountForStart(q)
  BY <1>2, MovesType DEF CountForStart, Checked, Opens
<1>3. CASE CountConvoked(q) \/ CountRecorded(q)
  BY <1>3, CountType
<1>4. CASE FindConvocations(q)
  <2>1. Entered(tx[q].work.entries) \subseteq Affiliates
    BY DEF Entered
  <2> QED
    BY <1>4, <2>1, MovesType DEF FindConvocations, Checked, Opens
<1>5. CASE TakeSnapshot(q)
  BY <1>5, MovesType DEF TakeSnapshot, Checked
<1>6. CASE DeleteMany(q)
  BY <1>6, MovesType DEF DeleteMany, TypeOK
<1> QED
  BY <1>1, <1>2, <1>3, <1>4, <1>5, <1>6 DEF Reads

\* The writes to the assembly's own row leave a well formed row.
LEMMA RowWritten ==
  ASSUME TypeOK, NEW q \in Requests,
         CommitUpdate(q) \/ CommitStart(q) \/ CommitComplete(q)
  PROVE  assembly' \in AssemblyRow
<1> DEFINE w == tx[q].work
<1>1. w \in Work
  BY HandlerFields DEF TypeOK, CommitUpdate, CommitStart, CommitComplete, Ends
<1>2. assembly \in AssemblyRow
  BY DEF TypeOK, CommitUpdate, CommitStart, CommitComplete, Ends, Exists
<1>3. CASE CommitUpdate(q)
  <2> DEFINE newType  == Given(w.quorumType, assembly.quorumType)
             newValue == Given(w.quorumValue, assembly.quorumValue)
             newStatus == Given(w.status, assembly.status)
             newLocked == assembly.locked \/ w.status = "CANCELLED"
  <2>1. /\ w.status \in {Absent, "SCHEDULED", "CANCELLED"}
        /\ w.quorumType \in QuorumType \cup {Absent}
        /\ w.quorumValue \in QuorumValues \cup {Absent}
    BY <1>1, <1>3, WorkFields DEF CommitUpdate, Ends
  <2>2. newType \in QuorumType /\ newValue \in QuorumValues
    BY <1>2, <2>1 DEF Given, AssemblyRow
  <2>3. newStatus \in AssemblyStatus /\ newLocked \in BOOLEAN
    BY <1>2, <2>1 DEF Given, AssemblyRow, AssemblyStatus
  <2>4. assembly' = [assembly EXCEPT !.status = newStatus, !.locked = newLocked,
                                     !.quorumType = newType, !.quorumValue = newValue]
    BY <1>3 DEF CommitUpdate
  <2>5. QuorumOk(newType, newValue)
    BY <1>3 DEF CommitUpdate, QuorumCheck
  <2> QED
    BY <1>2, <2>2, <2>3, <2>4, <2>5, RowType
<1>4. CASE CommitStart(q)
  BY <1>2, <1>4 DEF CommitStart, AssemblyRow, AssemblyStatus
<1>5. CASE CommitComplete(q)
  BY <1>2, <1>5 DEF CommitComplete, AssemblyRow, AssemblyStatus
<1> QED
  BY <1>3, <1>4, <1>5

LEMMA CommitsType ==
  ASSUME TypeOK, NEW q \in Requests, Commits(q)
  PROVE  TypeOK'
<1> DEFINE w == tx[q].work
<1> USE DEF Ends
<1>1. tx[q].phase # "idle"
  BY DEF Commits, CommitUpdate, CommitCalls, CommitConvocations, CommitStart,
         CommitComplete, CommitRemove, CommitRecord
<1>2. w \in Work
  BY <1>1, HandlerFields DEF TypeOK
<1>3. ASSUME NEW gone, Committed(q, gone) PROVE tx' \in [Requests -> HandlerState]
  BY <1>3, CommittedState DEF TypeOK
<1>4. ASSUME NEW gone PROVE Cascaded(gone) \in Sheet
  BY DEF Cascaded, TypeOK, Sheet
<1>5. CASE CommitUpdate(q)
  BY <1>3, <1>5, RowWritten DEF CommitUpdate, TypeOK, Sheet
<1>6. CASE CommitCalls(q)
  <2>1. w.new \subseteq CallNumbers
    BY <1>2, <1>6, WorkFields DEF CommitCalls
  <2> QED
    BY <1>3, <1>6, <2>1 DEF CommitCalls, TypeOK, Sheet
<1>7. CASE CommitConvocations(q)
  <2>1. w.new \subseteq Affiliates
    BY <1>2, <1>7, WorkFields DEF CommitConvocations
  <2> QED
    BY <1>3, <1>4, <1>7, <2>1 DEF CommitConvocations, TypeOK
<1>8. CASE CommitStart(q)
  BY <1>3, <1>8, RowWritten DEF CommitStart, TypeOK, Sheet
<1>9. CASE CommitComplete(q)
  BY <1>3, <1>9, RowWritten DEF CommitComplete, TypeOK, Sheet
<1>10. CASE CommitRemove(q)
  BY <1>3, <1>4, <1>10 DEF CommitRemove, TypeOK
<1>11. CASE CommitRecord(q)
  <2>1. w.entries \in Sheet
    BY <1>2, <1>11, WorkFields DEF CommitRecord
  <2>2. attendance' \in Sheet
    BY <1>11, <2>1 DEF CommitRecord, TypeOK, Sheet, Given
  <2> QED
    BY <1>3, <1>11, <2>2 DEF CommitRecord, TypeOK
<1> QED
  BY <1>5, <1>6, <1>7, <1>8, <1>9, <1>10, <1>11 DEF Commits

LEMMA TypeStep == TypeOK /\ [Next]_vars => TypeOK'
<1> SUFFICES ASSUME TypeOK, [Next]_vars PROVE TypeOK'
  OBVIOUS
<1>1. ASSUME NEW status \in AssemblyStatus, NEW type \in QuorumType,
             NEW value \in QuorumValues, Create(status, type, value)
      PROVE  TypeOK'
  <2>1. assembly' \in AssemblyRow
    BY <1>1 DEF Create, AssemblyRow, QuorumOk
  <2> QED
    BY <1>1, <2>1 DEF Create, TypeOK, Sheet
<1>2. ASSUME NEW q \in Requests, BeginsOne(q) \/ Reads(q) \/ Commits(q)
      PROVE  TypeOK'
  BY <1>2, BeginsOneType, ReadsType, CommitsType
<1>3. ASSUME NEW q \in Requests, Fail(q) PROVE TypeOK'
  BY <1>3 DEF Fail, rows, TypeOK, Sheet, HandlerState
<1>4. CASE UNCHANGED vars
  BY <1>4 DEF vars, TypeOK, Sheet
<1> QED
  BY <1>1, <1>2, <1>3, <1>4 DEF Next

-----------------------------------------------------------------------------
(* The rows.                                                                *)

\* A step of one handler that writes no row.
LEMMA QuietStep ==
  ASSUME IInv, NEW q \in Requests, NEW h, tx' = [tx EXCEPT ![q] = h], UNCHANGED rows,
         h.phase = "open" /\ h.work.op = "record" => h.seen \subseteq convoked,
         h.phase = "snapshot" /\ ~ h.doomed => Recorded = {}
  PROVE  RowsOK'
<1>1. tx'[q] = h /\ \A p \in Requests \ {q} : tx'[p] = tx[p]
  BY DEF IInv, TypeOK
<1>2. RowsHaveParents'
  BY DEF IInv, RowsOK, RowsHaveParents, Recorded, Exists, rows
<1>3. FoundAreConvoked'
  BY <1>1 DEF IInv, RowsOK, FoundAreConvoked, rows
<1>4. Recorded' = Recorded
  BY DEF Recorded, rows
<1>5. SnapshotsAreCurrent'
  BY <1>1, <1>4 DEF IInv, RowsOK, SnapshotsAreCurrent
<1> QED
  BY <1>2, <1>3, <1>5 DEF RowsOK

LEMMA QuietBegins ==
  ASSUME IInv, NEW q \in Requests, BeginsOne(q)
  PROVE  RowsOK'
<1>1. ASSUME NEW work, Begins(q, "checked", work) PROVE RowsOK'
  <2>1. Handler("checked", work, {}).phase = "checked"
    BY DEF Handler
  <2> QED
    BY <1>1, <2>1, QuietStep DEF Begins
<1>2. ASSUME NEW work, work.op # "record", Begins(q, "open", work) PROVE RowsOK'
  <2>1. /\ Handler("open", work, {}).phase = "open"
        /\ Handler("open", work, {}).work = work
    BY DEF Handler
  <2> QED
    BY <1>2, <2>1, QuietStep DEF Begins
<1>3. CASE \E new \in SUBSET CallNumbers : BeginReplaceCalls(q, new)
  BY <1>2, <1>3 DEF BeginReplaceCalls
<1>4. CASE \E new \in SUBSET Affiliates : BeginReplaceConvocations(q, new)
  BY <1>2, <1>4 DEF BeginReplaceConvocations
<1> QED
  BY <1>1, <1>3, <1>4 DEF BeginsOne, BeginUpdate, BeginStart, BeginComplete, BeginRemove,
     BeginRecord

LEMMA QuietReads ==
  ASSUME IInv, NEW q \in Requests, Reads(q)
  PROVE  RowsOK'
<1>1. ASSUME NEW phase, NEW seen, Moves(q, phase, seen),
             phase = "open" /\ tx[q].work.op = "record" => seen \subseteq convoked,
             phase = "snapshot" => Recorded = {}
      PROVE  RowsOK'
  <2> DEFINE h == Handler(phase, tx[q].work, seen)
  <2>1. h.phase = phase /\ h.work = tx[q].work /\ h.seen = seen
    BY DEF Handler
  <2>2. tx' = [tx EXCEPT ![q] = h] /\ UNCHANGED rows
    BY <1>1 DEF Moves
  <2>3. /\ h.phase = "open" /\ h.work.op = "record" => h.seen \subseteq convoked
        /\ h.phase = "snapshot" /\ ~ h.doomed => Recorded = {}
    BY <1>1, <2>1
  <2> HIDE DEF h
  <2> QED
    BY <2>2, <2>3, QuietStep
<1>2. ASSUME NEW work, tx[q].phase = "checked", tx' = [tx EXCEPT ![q].work = work],
             UNCHANGED rows
      PROVE  RowsOK'
  <2> DEFINE h == [tx[q] EXCEPT !.work = work]
  <2>1. h.phase = "checked"
    BY <1>2, HandlerFields DEF IInv, TypeOK
  <2>2. tx' = [tx EXCEPT ![q] = h]
    BY <1>2 DEF IInv, TypeOK
  <2> HIDE DEF h
  <2> QED
    BY <1>2, <2>1, <2>2, QuietStep
<1>3. CASE CountForUpdate(q)
  BY <1>1, <1>3 DEF CountForUpdate, Opens
<1>4. CASE CountForStart(q)
  BY <1>1, <1>4 DEF CountForStart, Opens
<1>5. CASE CountConvoked(q)
  <2>1. PICK work : tx' = [tx EXCEPT ![q].work = work]
    BY <1>5 DEF CountConvoked, IInv, TypeOK
  <2> QED
    BY <1>2, <1>5, <2>1 DEF CountConvoked, Checked
<1>6. CASE CountRecorded(q)
  <2>1. PICK work : tx' = [tx EXCEPT ![q].work = work]
    BY <1>6 DEF CountRecorded, IInv, TypeOK
  <2> QED
    BY <1>2, <1>6, <2>1 DEF CountRecorded, Checked
<1>7. CASE FindConvocations(q)
  BY <1>1, <1>7 DEF FindConvocations, Opens
<1>8. CASE TakeSnapshot(q)
  BY <1>1, <1>8 DEF TakeSnapshot, NoHistory
<1>9. CASE DeleteMany(q)
  BY <1>1, <1>9 DEF DeleteMany
<1> QED
  BY <1>3, <1>4, <1>5, <1>6, <1>7, <1>8, <1>9 DEF Reads

\* A commit dooms every open snapshot, and takes the rows it deletes from
\* those who had found them.
LEMMA CommitStep ==
  ASSUME IInv, NEW q \in Requests, NEW gone, Committed(q, gone),
         convoked \ gone \subseteq convoked'
  PROVE  FoundAreConvoked' /\ SnapshotsAreCurrent'
<1>1. /\ tx'[q] = Idle
      /\ \A p \in Requests \ {q} :
           /\ tx'[p].phase = tx[p].phase
           /\ tx'[p].work = tx[p].work
           /\ tx'[p].seen = tx[p].seen \ gone
           /\ tx[p].phase = "snapshot" => tx'[p].doomed
  BY CommittedState DEF IInv, TypeOK
<1>2. tx'[q].phase = "idle"
  BY <1>1 DEF Idle, Handler
<1>3. FoundAreConvoked'
  BY <1>1, <1>2 DEF IInv, RowsOK, FoundAreConvoked
<1>4. SnapshotsAreCurrent'
  BY <1>1, <1>2 DEF SnapshotsAreCurrent
<1> QED
  BY <1>3, <1>4

LEMMA CommitsKeepRows ==
  ASSUME IInv, NEW q \in Requests, Commits(q)
  PROVE  RowsOK'
<1> USE DEF Ends
<1>1. Recorded \subseteq convoked
  BY DEF IInv, RowsOK, RowsHaveParents
<1>2. ASSUME Exists(assembly), assembly' = assembly PROVE Exists(assembly)'
  BY <1>2 DEF Exists
<1>3. ASSUME CommitUpdate(q) \/ CommitStart(q) \/ CommitComplete(q) PROVE RowsOK'
  <2>1. assembly' \in AssemblyRow
    BY <1>3, RowWritten DEF IInv
  <2>2. Exists(assembly)'
    BY <2>1, AbsentAssumption DEF Exists, Deleted, AssemblyRow
  <2>3. /\ attendance' = attendance /\ convoked' = convoked /\ Committed(q, {})
    BY <1>3 DEF CommitUpdate, CommitStart, CommitComplete
  <2>4. RowsHaveParents'
    BY <1>1, <2>2, <2>3 DEF RowsHaveParents, Recorded
  <2> QED
    BY <2>3, <2>4, CommitStep DEF RowsOK
<1>4. CASE CommitCalls(q)
  <2>1. RowsHaveParents'
    BY <1>1, <1>2, <1>4 DEF CommitCalls, RowsHaveParents, Recorded
  <2> QED
    BY <1>4, <2>1, CommitStep DEF CommitCalls, RowsOK
<1>5. CASE CommitConvocations(q)
  <2>1. Recorded' = Recorded \ tx[q].seen
    BY <1>5 DEF CommitConvocations, Recorded, Cascaded
  <2>2. convoked \ tx[q].seen \subseteq convoked'
    BY <1>5 DEF CommitConvocations
  <2>3. RowsHaveParents'
    BY <1>1, <1>2, <1>5, <2>1, <2>2 DEF CommitConvocations, RowsHaveParents
  <2> QED
    BY <1>5, <2>2, <2>3, CommitStep DEF CommitConvocations, RowsOK
<1>6. CASE CommitRemove(q)
  <2>1. Recorded' = {}
    BY <1>6 DEF CommitRemove, Recorded, Cascaded
  <2>2. convoked \ (Affiliates \cup CallNumbers) \subseteq convoked'
    BY DEF IInv, TypeOK
  <2>3. RowsHaveParents'
    BY <1>6, <2>1 DEF CommitRemove, RowsHaveParents
  <2> QED
    BY <1>6, <2>2, <2>3, CommitStep DEF CommitRemove, RowsOK
<1>7. CASE CommitRecord(q)
  <2> DEFINE entries == tx[q].work.entries
  <2>1. Entered(entries) \subseteq convoked
    BY <1>7 DEF CommitRecord, RowsRemain, IInv, RowsOK, FoundAreConvoked
  <2>2. Recorded' \subseteq Recorded \cup Entered(entries)
    BY <1>7 DEF CommitRecord, Recorded, Entered, Given
  <2>3. RowsHaveParents'
    BY <1>1, <1>2, <1>7, <2>1, <2>2 DEF CommitRecord, RowsHaveParents
  <2> QED
    BY <1>7, <2>3, CommitStep DEF CommitRecord, RowsOK
<1> QED
  BY <1>3, <1>4, <1>5, <1>6, <1>7 DEF Commits

LEMMA RowsStep == IInv /\ [Next]_vars => RowsOK'
<1> SUFFICES ASSUME IInv, [Next]_vars PROVE RowsOK'
  OBVIOUS
<1>1. ASSUME NEW status, NEW type, NEW value, Create(status, type, value)
      PROVE  RowsOK'
  <2>1. convoked = {} /\ calls = {}
    BY <1>1 DEF Create, IInv, RowsOK, RowsHaveParents, Exists
  <2> QED
    BY <1>1, <2>1 DEF Create, IInv, RowsOK, RowsHaveParents, FoundAreConvoked,
       SnapshotsAreCurrent, Recorded
<1>2. ASSUME NEW q \in Requests, BeginsOne(q) \/ Reads(q) \/ Commits(q)
      PROVE  RowsOK'
  BY <1>2, QuietBegins, QuietReads, CommitsKeepRows
<1>3. ASSUME NEW q \in Requests, Fail(q) PROVE RowsOK'
  <2>1. Idle.phase = "idle"
    BY DEF Idle, Handler
  <2> QED
    BY <1>3, <2>1, QuietStep DEF Fail
<1>4. CASE UNCHANGED vars
  BY <1>4 DEF vars, IInv, RowsOK, RowsHaveParents, FoundAreConvoked,
     SnapshotsAreCurrent, Recorded, Exists
<1> QED
  BY <1>1, <1>2, <1>3, <1>4 DEF Next

-----------------------------------------------------------------------------
(* The theorems.                                                            *)

LEMMA InitOK == Init => IInv
<1> SUFFICES ASSUME Init PROVE IInv
  OBVIOUS
<1>1. Recorded = {}
  BY DEF Init, Recorded
<1>2. TypeOK
  BY DEF Init, TypeOK, Sheet, HandlerState
<1>3. \A q \in Requests : tx[q].phase = "idle"
  BY DEF Init, Idle, Handler
<1> QED
  BY <1>1, <1>2, <1>3 DEF Init, IInv, RowsOK, RowsHaveParents, FoundAreConvoked,
     SnapshotsAreCurrent

THEOREM Inductive == Spec => []IInv
<1>1. IInv /\ [Next]_vars => IInv'
  BY TypeStep, RowsStep DEF IInv
<1> QED
  BY InitOK, <1>1, PTL DEF Spec

\* Every reachable state is well typed: no pair of updates that each send half
\* of the quorum leaves a malformed one.
THEOREM TypeCorrect == Spec => []TypeOK
<1>1. IInv => TypeOK
  BY DEF IInv
<1> QED
  BY Inductive, <1>1, PTL

\* Attendance is always of someone convoked, and rounds and convocations are
\* always of an assembly that exists.
THEOREM NoOrphans == Spec => []RowsHaveParents
<1>1. IInv => RowsHaveParents
  BY DEF IInv, RowsOK
<1> QED
  BY Inductive, <1>1, PTL

\* A removal never takes attendance with it.
THEOREM HistoryStays == Spec => HistoryIsKept
<1>1. IInv /\ [Next]_vars
        => [assembly # Deleted /\ assembly' = Deleted => Recorded = {}]_vars
  <2> SUFFICES ASSUME IInv, Next, assembly # Deleted, assembly' = Deleted
               PROVE  Recorded = {}
    BY DEF vars
  <2>1. Deleted \notin AssemblyRow
    BY DEF Deleted, AssemblyRow
  <2>2. ASSUME NEW status \in AssemblyStatus, NEW type \in QuorumType,
               NEW value \in QuorumValues
        PROVE  ~ Create(status, type, value)
    BY DEF Create, Deleted
  <2>3. PICK q \in Requests : CommitRemove(q)
    <3>1. ASSUME NEW q \in Requests, BeginsOne(q) \/ Reads(q) \/ Fail(q)
          PROVE  assembly' = assembly
      BY <3>1 DEF BeginsOne, BeginUpdate, BeginReplaceCalls, BeginReplaceConvocations,
         BeginStart, BeginComplete, BeginRemove, BeginRecord, Begins, Reads,
         CountForUpdate, CountForStart, CountConvoked, CountRecorded, FindConvocations,
         TakeSnapshot, DeleteMany, Opens, Moves, Fail, rows
    <3>2. ASSUME NEW q \in Requests, Commits(q), ~ CommitRemove(q)
          PROVE  assembly' = assembly \/ assembly' \in AssemblyRow
      BY <3>2, RowWritten DEF Commits, CommitCalls, CommitConvocations, CommitRecord, IInv
    <3> QED
      BY <2>1, <2>2, <3>1, <3>2 DEF Next
  <2> QED
    BY <2>3 DEF CommitRemove, Ends, IInv, RowsOK, SnapshotsAreCurrent
<1> QED
  BY Inductive, <1>1, PTL DEF Spec, HistoryIsKept

-----------------------------------------------------------------------------
(* Justifications beside the handlers of their assembly, for any number of   *)
(* both.                                                                     *)

\* A handler that found an attendance, and has not lost it, still finds it.
FoundIsRecorded ==
  \A r \in Reviews : review[r].op = "justify" /\ review[r].row => review[r].who \in Recorded

JInv == JustificationsTypeOK /\ JustifiedAreRecorded /\ FoundIsRecorded

LEMMA ReviewFields ==
  ASSUME NEW h \in Review
  PROVE  /\ h = [op |-> h.op, who |-> h.who, sawAssembly |-> h.sawAssembly,
                 sawAbsence |-> h.sawAbsence, row |-> h.row]
         /\ h.op = "none" => h = NoReview /\ h.row = FALSE
         /\ h.op # "none" => h \in [op : {"justify", "APPROVED", "REJECTED"},
                                    who : Affiliates, sawAssembly : BOOLEAN,
                                    sawAbsence : BOOLEAN, row : BOOLEAN]
<1>1. CASE h = NoReview
  BY <1>1 DEF NoReview, Starting
<1>2. CASE h # NoReview
  BY <1>2 DEF Review
<1> QED
  BY <1>1, <1>2

-----------------------------------------------------------------------------
\* The handlers of the assembly write justifications only by the cascade.
LEMMA CascadeStep ==
  ASSUME JInv, AttendanceCascade
  PROVE  JInv'
<1> DEFINE gone == {a \in Affiliates : attendance[a] # Absent /\ attendance'[a] = Absent}
<1>1. Recorded \ gone \subseteq Recorded'
  BY DEF Recorded
<1>2. ASSUME NEW r \in Reviews
      PROVE  /\ review'[r] \in Review
             /\ review'[r].op = review[r].op
             /\ review'[r].who = review[r].who
             /\ review'[r].row => review[r].row /\ review[r].who \notin gone
  <2> DEFINE row == review[r].row /\ review[r].who \notin gone
             after == [op |-> review[r].op, who |-> review[r].who,
                       sawAssembly |-> review[r].sawAssembly,
                       sawAbsence |-> review[r].sawAbsence, row |-> row]
  <2>1. review[r] \in Review
    BY DEF JInv, JustificationsTypeOK
  <2>2. review'[r] = [review[r] EXCEPT !.row = row]
    BY DEF AttendanceCascade
  <2>3. row \in BOOLEAN
    OBVIOUS
  <2> HIDE DEF row
  <2>4. review'[r] = after
    BY <2>1, <2>2, ReviewFields
  <2>5. after \in Review
    <3>1. CASE review[r].op = "none"
      <4>1. row = FALSE
        BY <2>1, <3>1, ReviewFields DEF row
      <4>2. after = review[r]
        BY <2>1, <3>1, <4>1, ReviewFields
      <4> QED
        BY <2>1, <4>2
    <3>2. CASE review[r].op # "none"
      BY <2>1, <2>3, <3>2, ReviewFields DEF Review
    <3> QED
      BY <3>1, <3>2
  <2>6. review'[r].row = row
    BY <2>4
  <2>7. row => review[r].row /\ review[r].who \notin gone
    BY DEF row
  <2> QED
    BY <2>4, <2>5, <2>6, <2>7
<1>3. review' \in [Reviews -> Review]
  BY <1>2 DEF AttendanceCascade
<1>4. \A a \in Affiliates : justification'[a] = IF a \in gone THEN Absent ELSE justification[a]
  BY DEF AttendanceCascade
<1>5. justification' \in [Affiliates -> JustificationStatus \cup {Absent}]
  BY DEF AttendanceCascade, JInv, JustificationsTypeOK
<1> HIDE DEF gone
<1>6. JustifiedAreRecorded'
  BY <1>1, <1>4 DEF JInv, JustifiedAreRecorded
<1>7. FoundIsRecorded'
  BY <1>1, <1>2 DEF JInv, FoundIsRecorded
<1> QED
  BY <1>3, <1>5, <1>6, <1>7 DEF JInv, JustificationsTypeOK

LEMMA ReviewStep ==
  ASSUME JInv, NEW r \in Reviews, ReviewNext(r), UNCHANGED vars
  PROVE  JInv'
<1>1. Recorded' = Recorded
  BY DEF vars, Recorded
<1>2. review \in [Reviews -> Review]
  BY DEF JInv, JustificationsTypeOK
<1> DEFINE Working == [op : {"justify", "APPROVED", "REJECTED"}, who : Affiliates,
                       sawAssembly : BOOLEAN, sawAbsence : BOOLEAN, row : BOOLEAN]
<1>working. ASSUME review[r].op \in {"justify", "APPROVED", "REJECTED"}
       PROVE  review[r] \in Working /\ review[r].who \in Affiliates
  <2>1. review[r] \in Review /\ review[r].op # "none"
    BY <1>2, <1>working
  <2>2. review[r] \in Working
    BY <2>1, ReviewFields
  <2> QED
    BY <2>2
\* A step that only moves the handler on.
<1>3. ASSUME NEW h \in Review, review' = [review EXCEPT ![r] = h], UNCHANGED justification,
             h.op = "justify" /\ h.row => h.who \in Recorded
      PROVE  JInv'
  <2>1. JustificationsTypeOK'
    BY <1>3 DEF JInv, JustificationsTypeOK
  <2>2. JustifiedAreRecorded'
    BY <1>1, <1>3 DEF JInv, JustifiedAreRecorded
  <2>3. FoundIsRecorded'
    BY <1>1, <1>2, <1>3 DEF JInv, FoundIsRecorded
  <2> QED
    BY <2>1, <2>2, <2>3 DEF JInv
<1>4. ASSUME NEW a \in Affiliates, NEW status \in JustificationStatus, a \in Recorded,
             justification' = [justification EXCEPT ![a] = status],
             review' = [review EXCEPT ![r] = NoReview]
      PROVE  JInv'
  <2>1. NoReview \in Review /\ NoReview.op = "none"
    BY DEF Review, NoReview, Starting
  <2>2. JustificationsTypeOK'
    BY <1>4, <2>1 DEF JInv, JustificationsTypeOK
  <2>3. JustifiedAreRecorded'
    BY <1>1, <1>4 DEF JInv, JustifiedAreRecorded, JustificationsTypeOK
  <2>4. FoundIsRecorded'
    BY <1>1, <1>2, <1>4, <2>1 DEF JInv, FoundIsRecorded
  <2> QED
    BY <2>2, <2>3, <2>4 DEF JInv
<1>5. ASSUME NEW a \in Affiliates, BeginJustify(r, a) PROVE JInv'
  <2>1. /\ Starting("justify", a, FALSE) \in Review
        /\ Starting("justify", a, FALSE).row = FALSE
    BY DEF Starting, Review
  <2> QED
    BY <1>3, <1>5, <2>1 DEF BeginJustify
<1>6. ASSUME NEW a \in Affiliates, NEW status \in Decisions, BeginDecide(r, a, status)
      PROVE  JInv'
  <2>1. /\ Starting(status, a, TRUE) \in Review
        /\ Starting(status, a, TRUE).op # "justify"
    BY DEF Starting, Review, Decisions
  <2> QED
    BY <1>3, <1>6, <2>1 DEF BeginDecide
<1>7. CASE SeeAssembly(r)
  <2> DEFINE h == [review[r] EXCEPT !.sawAssembly = TRUE]
  <2>1. /\ h \in Review /\ h.op = review[r].op
        /\ h.row = review[r].row /\ h.who = review[r].who
    <3>1. review[r] \in Working
      BY <1>7, <1>working DEF SeeAssembly
    <3>2. h \in Working
      BY <3>1
    <3> QED
      BY <3>1, <3>2 DEF Review
  <2>2. review' = [review EXCEPT ![r] = h]
    BY <1>2, <1>7 DEF SeeAssembly
  <2> HIDE DEF h
  <2> QED
    BY <1>3, <1>7, <2>1, <2>2 DEF SeeAssembly, JInv, FoundIsRecorded
<1>8. CASE SeeAttendance(r)
  <2> DEFINE h == [[review[r] EXCEPT !.sawAbsence = TRUE] EXCEPT !.row = TRUE]
  <2>1. h \in Review /\ h.who = review[r].who /\ h.who \in Affiliates
    BY <1>2, <1>8, ReviewFields DEF SeeAttendance, Review
  <2>2. review' = [review EXCEPT ![r] = h]
    BY <1>2, <1>8 DEF SeeAttendance
  <2>3. h.who \in Recorded
    <3>1. attendance[h.who] = "ABSENT"
      BY <1>8, <2>1 DEF SeeAttendance
    <3> QED
      BY <2>1, <3>1, AbsentAssumption DEF Recorded
  <2> HIDE DEF h
  <2> QED
    BY <1>3, <1>8, <2>1, <2>2, <2>3 DEF SeeAttendance
<1>9. CASE CommitJustify(r)
  <2>1. review[r].who \in Affiliates /\ review[r].who \in Recorded
    BY <1>9, <1>working DEF CommitJustify, AttendanceRemains, JInv, FoundIsRecorded
  <2> QED
    BY <1>4, <1>9, <2>1 DEF CommitJustify, JustificationStatus
<1>10. CASE SeeStillAbsent(r)
  <2> DEFINE h == [review[r] EXCEPT !.sawAbsence = TRUE]
  <2>1. h \in Review /\ h.op = "APPROVED"
    <3>1. review[r] \in Working /\ review[r].op = "APPROVED"
      BY <1>10, <1>working DEF SeeStillAbsent
    <3>2. h \in Working /\ h.op = "APPROVED"
      BY <3>1
    <3> QED
      BY <3>2 DEF Review
  <2>2. review' = [review EXCEPT ![r] = h]
    BY <1>2, <1>10 DEF SeeStillAbsent
  <2> HIDE DEF h
  <2> QED
    BY <1>3, <1>10, <2>1, <2>2 DEF SeeStillAbsent
<1>11. CASE CommitDecide(r)
  <2>1. review[r].who \in Affiliates
    BY <1>11, <1>working DEF CommitDecide
  <2>2. justification[review[r].who] # Absent
    BY <1>11, AbsentStatusAssumption DEF CommitDecide, Claimed, JustificationStatus
  <2>3. review[r].who \in Recorded
    BY <2>1, <2>2 DEF JInv, JustifiedAreRecorded
  <2> QED
    BY <1>4, <1>11, <2>1, <2>3 DEF CommitDecide, JustificationStatus
<1>12. CASE FailReview(r)
  <2>1. NoReview \in Review /\ NoReview.op = "none"
    BY DEF Review, NoReview, Starting
  <2> QED
    BY <1>3, <1>12, <2>1 DEF FailReview
<1> QED
  BY <1>5, <1>6, <1>7, <1>8, <1>9, <1>10, <1>11, <1>12 DEF ReviewNext

LEMMA JInvInductive == JustificationsSpec => []JInv
<1>1. JustificationsInit => JInv
  BY DEF JustificationsInit, JInv, JustificationsTypeOK, JustifiedAreRecorded,
     FoundIsRecorded, Review, NoReview, Starting
<1>2. JInv /\ [JustificationsNext]_allVars => JInv'
  <2>1. CASE UNCHANGED allVars
    BY <2>1 DEF allVars, vars, justificationVars, JInv, JustificationsTypeOK,
       JustifiedAreRecorded, FoundIsRecorded, Recorded
  <2> QED
    BY <2>1, CascadeStep, ReviewStep DEF JustificationsNext
<1> QED
  BY <1>1, <1>2, PTL DEF JustificationsSpec

-----------------------------------------------------------------------------
\* Justifications only watch the assembly: its handlers run beside them as
\* they do alone, so what AssembliesProofs shows of them holds here.
THEOREM AssemblyIsUndisturbed == JustificationsSpec => Spec
<1>1. JustificationsInit => Init
  BY DEF JustificationsInit
<1>2. [JustificationsNext]_allVars => [Next]_vars
  BY DEF JustificationsNext, allVars
<1> QED
  BY <1>1, <1>2, PTL DEF JustificationsSpec, Spec

\* Well typed justifications: none is ever decided as PENDING.
THEOREM JustificationsTyped == JustificationsSpec => []JustificationsTypeOK
<1>1. JInv => JustificationsTypeOK
  BY DEF JInv
<1> QED
  BY JInvInductive, <1>1, PTL

\* A justification has its attendance whatever replacement of the convocations
\* deletes it meanwhile.
THEOREM JustificationsHaveAttendance == JustificationsSpec => []JustifiedAreRecorded
<1>1. JInv => JustifiedAreRecorded
  BY DEF JInv
<1> QED
  BY JInvInductive, <1>1, PTL

\* One justification is never decided twice.
THEOREM DecisionsStand == JustificationsSpec => DecisionIsFinal
<1>1. JInv /\ [JustificationsNext]_allVars
        => [\A a \in Affiliates :
              justification[a] \in {"APPROVED", "REJECTED"} =>
                justification'[a] \in {justification[a], Absent}]_allVars
  <2> SUFFICES ASSUME JInv, JustificationsNext, NEW a \in Affiliates,
                      justification[a] \in {"APPROVED", "REJECTED"}
               PROVE  justification'[a] \in {justification[a], Absent}
    BY DEF allVars
  <2>1. CASE AttendanceCascade
    BY <2>1 DEF AttendanceCascade
  <2>2. CASE \E r \in Reviews : ReviewNext(r)
    <3>1. PICK r \in Reviews : ReviewNext(r)
      BY <2>2
    <3>2. CASE CommitJustify(r)
      BY <3>2, AbsentStatusAssumption DEF CommitJustify, JustificationStatus, JInv,
         JustificationsTypeOK
    <3>3. CASE CommitDecide(r)
      BY <3>3 DEF CommitDecide, Claimed, JInv, JustificationsTypeOK
    <3>4. CASE UNCHANGED justification
      BY <3>4
    <3> QED
      BY <3>1, <3>2, <3>3, <3>4 DEF ReviewNext, BeginJustify, SeeAssembly, SeeAttendance,
         BeginDecide, SeeStillAbsent, FailReview
  <2> QED
    BY <2>1, <2>2 DEF JustificationsNext
<1> QED
  BY JInvInductive, <1>1, PTL DEF JustificationsSpec, DecisionIsFinal
=============================================================================
