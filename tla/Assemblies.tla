----------------------------- MODULE Assemblies -----------------------------
(* One assembly, its call rounds, its convocations and the attendance they  *)
(* own.  A handler reads the assembly (Begin), perhaps counts rows, and      *)
(* writes by id in a transaction of its own, so every step of another        *)
(* handler may come between.  Only remove is Serializable.                   *)
EXTENDS Integers, FiniteSets

CONSTANTS Requests,      \* handlers in flight at once
          Affiliates,    \* the affiliates that can be convoked
          CallNumbers,   \* the numbers of AssemblyCall rows
          QuorumValues,  \* the quorum values typed
          Absent         \* a null, a row that does not exist, a field not sent

VARIABLES assembly, calls, convoked, attendance, tx

rows == <<assembly, calls, convoked, attendance>>
vars == <<assembly, calls, convoked, attendance, tx>>

ASSUME QuorumValuesAssumption == QuorumValues \subseteq Nat \ {0}

ASSUME AffiliatesAssumption == IsFiniteSet(Affiliates)

AssemblyStatus == {"SCHEDULED", "IN_PROGRESS", "COMPLETED", "CANCELLED"}

QuorumType == {"FIXED", "PERCENTAGE"}

\* validateQuorum, and the CHECK Assembly_quorum_value_check.
QuorumOk(type, value) == type = "PERCENTAGE" => value <= 100

\* locked is whether convocationsLockedAt is set.
AssemblyRow == {r \in [status : AssemblyStatus, locked : BOOLEAN,
                       quorumType : QuorumType, quorumValue : QuorumValues] :
                  QuorumOk(r.quorumType, r.quorumValue)}

Deleted == [status |-> "deleted"]

ASSUME AbsentAssumption == Absent \notin AssemblyRow \cup {"PRESENT", "ABSENT"}

Sheet == [Affiliates -> {Absent, "PRESENT", "ABSENT"}]

Work ==
  [op : {"update"}, status : {Absent, "SCHEDULED", "CANCELLED"},
   quorumType : QuorumType \cup {Absent}, quorumValue : QuorumValues \cup {Absent},
   newType : QuorumType, newValue : QuorumValues]
    \cup [op : {"replaceCalls"}, new : SUBSET CallNumbers]
    \cup [op : {"replaceConvocations"}, new : SUBSET Affiliates]
    \cup [op : {"start", "remove"}]
    \cup [op : {"complete"}, convokedCount : Nat \cup {Absent},
          recordedCount : Nat \cup {Absent}]
    \cup [op : {"record"}, entries : Sheet]

\* seen holds the rows a handler has found and will write through their ids:
\* it loses a row when the row is deleted, even if another takes its key.
Handler(phase, work, seen) ==
  [phase |-> phase, work |-> work, seen |-> seen, doomed |-> FALSE]

Idle == Handler("idle", Absent, {})

HandlerState ==
  {Idle} \cup [phase : {"checked", "open", "deleted", "snapshot"}, work : Work,
               seen : SUBSET (Affiliates \cup CallNumbers), doomed : BOOLEAN]

Exists(row) == row \notin {Absent, Deleted}

Scheduled == Exists(assembly) /\ assembly.status = "SCHEDULED" /\ ~ assembly.locked

InProgress == Exists(assembly) /\ assembly.status = "IN_PROGRESS"

FixedTooHigh(type, value, count) == type = "FIXED" /\ count > 0 /\ value > count

Recorded == {a \in Affiliates : attendance[a] # Absent}

-----------------------------------------------------------------------------
(* The reads and checks.                                                   *)

\* create of an assembly: one transaction, in any status.
Create(status, type, value) ==
  /\ assembly = Absent
  /\ QuorumOk(type, value)
  /\ assembly' = [status |-> status, locked |-> FALSE,
                  quorumType |-> type, quorumValue |-> value]
  /\ UNCHANGED <<calls, convoked, attendance, tx>>

Begins(q, phase, work) ==
  /\ tx[q].phase = "idle"
  /\ tx' = [tx EXCEPT ![q] = Handler(phase, work, {})]
  /\ UNCHANGED rows

Given(value, current) == IF value = Absent THEN current ELSE value

BeginUpdate(q, status, type, value) ==
  /\ Scheduled
  /\ LET newType  == Given(type, assembly.quorumType)
         newValue == Given(value, assembly.quorumValue)
     IN /\ QuorumOk(newType, newValue)
        /\ Begins(q, "checked",
                  [op |-> "update", status |-> status, quorumType |-> type,
                   quorumValue |-> value, newType |-> newType, newValue |-> newValue])

BeginReplaceCalls(q, new) ==
  Scheduled /\ new # {} /\ Begins(q, "open", [op |-> "replaceCalls", new |-> new])

BeginReplaceConvocations(q, new) ==
  /\ Scheduled
  /\ ~ FixedTooHigh(assembly.quorumType, assembly.quorumValue, Cardinality(new))
  /\ Begins(q, "open", [op |-> "replaceConvocations", new |-> new])

BeginStart(q) == Scheduled /\ Begins(q, "checked", [op |-> "start"])

BeginComplete(q) ==
  InProgress /\ Begins(q, "checked", [op |-> "complete", convokedCount |-> Absent,
                                      recordedCount |-> Absent])

BeginRemove(q) == Scheduled /\ Begins(q, "checked", [op |-> "remove"])

BeginRecord(q, entries) ==
  /\ InProgress
  /\ \E a \in Affiliates : entries[a] # Absent
  /\ Begins(q, "checked", [op |-> "record", entries |-> entries])

Checked(q, op) == tx[q].phase = "checked" /\ tx[q].work.op = op

Moves(q, phase, seen) ==
  /\ tx' = [tx EXCEPT ![q] = Handler(phase, tx[q].work, seen)]
  /\ UNCHANGED rows

Opens(q, seen) == Moves(q, "open", seen)

\* update counts the convocations its quorum must not exceed.
CountForUpdate(q) ==
  /\ Checked(q, "update")
  /\ ~ FixedTooHigh(tx[q].work.newType, tx[q].work.newValue, Cardinality(convoked))
  /\ Opens(q, {})

CountForStart(q) == Checked(q, "start") /\ convoked # {} /\ Opens(q, {})

\* complete sends its two counts at once: either may see an earlier moment.
CountConvoked(q) ==
  /\ Checked(q, "complete")
  /\ tx' = [tx EXCEPT ![q].work.convokedCount = Cardinality(convoked)]
  /\ UNCHANGED rows

CountRecorded(q) ==
  /\ Checked(q, "complete")
  /\ tx' = [tx EXCEPT ![q].work.recordedCount = Cardinality(Recorded)]
  /\ UNCHANGED rows

\* recordAttendance finds the convocation of every entry.
Entered(entries) == {a \in Affiliates : entries[a] # Absent}

FindConvocations(q) ==
  /\ Checked(q, "record")
  /\ Entered(tx[q].work.entries) \subseteq convoked
  /\ Opens(q, Entered(tx[q].work.entries))

\* remove's counts, on the snapshot of its transaction.  A justification
\* belongs to an attendance, so the first count decides for both.
NoHistory == Recorded = {}

TakeSnapshot(q) ==
  /\ Checked(q, "remove")
  /\ Exists(assembly)
  /\ NoHistory
  /\ Moves(q, "snapshot", {})

\* The deleteMany of a replacement deletes the rows it sees.
DeleteMany(q) ==
  /\ tx[q].phase = "open"
  /\ \/ tx[q].work.op = "replaceCalls" /\ Moves(q, "deleted", calls)
     \/ tx[q].work.op = "replaceConvocations" /\ Moves(q, "deleted", convoked)

\* A check fails, a constraint or the audit insert refuses the write, the row
\* is gone, or the process dies: the caller gets an error and nothing is written.
Fail(q) ==
  /\ tx[q].phase # "idle"
  /\ tx' = [tx EXCEPT ![q] = Idle]
  /\ UNCHANGED rows

-----------------------------------------------------------------------------
(* The writes.                                                             *)

\* Mutant: a removal at the default isolation level.
DoomsNobody(p) == FALSE

\* A commit that writes rows dooms a removal whose snapshot is older.
DoomsRemoval(p) == tx[p].phase = "snapshot"

\* q's commit answers its caller; the rows in gone no longer exist.
Committed(q, gone) ==
  tx' = [p \in Requests |->
           IF p = q THEN Idle
           ELSE [tx[p] EXCEPT !.seen = @ \ gone, !.doomed = @ \/ DoomsRemoval(p)]]

Ends(q, phase, op) ==
  tx[q].phase = phase /\ tx[q].work.op = op /\ Exists(assembly)

\* Mutant: a database without the CHECK on the quorum.
AnyQuorum(type, value) == TRUE

\* The CHECK on the row an update leaves.
QuorumCheck(type, value) == QuorumOk(type, value)

\* The fields sent, and no others; a cancellation also locks.
CommitUpdate(q) ==
  LET w == tx[q].work
      newType  == Given(w.quorumType, assembly.quorumType)
      newValue == Given(w.quorumValue, assembly.quorumValue)
  IN
  /\ Ends(q, "open", "update")
  /\ QuorumCheck(newType, newValue)
  /\ assembly' = [assembly EXCEPT !.status = Given(w.status, @),
                                  !.locked = @ \/ w.status = "CANCELLED",
                                  !.quorumType = newType, !.quorumValue = newValue]
  /\ Committed(q, {})
  /\ UNCHANGED <<calls, convoked, attendance>>

\* createMany after deleteMany: (assemblyId, callNumber) is unique.
CommitCalls(q) ==
  LET kept == calls \ tx[q].seen IN
  /\ Ends(q, "deleted", "replaceCalls")
  /\ kept \cap tx[q].work.new = {}
  /\ calls' = kept \cup tx[q].work.new
  /\ Committed(q, tx[q].seen)
  /\ UNCHANGED <<assembly, convoked, attendance>>

\* Deleting a convocation deletes its attendance (ON DELETE CASCADE).
Cascaded(gone) ==
  [a \in Affiliates |-> IF a \in gone THEN Absent ELSE attendance[a]]

\* The same for the convocations, unique by (assemblyId, affiliateId).
CommitConvocations(q) ==
  LET kept == convoked \ tx[q].seen IN
  /\ Ends(q, "deleted", "replaceConvocations")
  /\ tx[q].seen \cup tx[q].work.new # {}
  /\ kept \cap tx[q].work.new = {}
  /\ convoked' = kept \cup tx[q].work.new
  /\ attendance' = Cascaded(tx[q].seen)
  /\ Committed(q, tx[q].seen)
  /\ UNCHANGED <<assembly, calls>>

CommitStart(q) ==
  /\ Ends(q, "open", "start")
  /\ assembly' = [assembly EXCEPT !.status = "IN_PROGRESS", !.locked = TRUE]
  /\ Committed(q, {})
  /\ UNCHANGED <<calls, convoked, attendance>>

NothingMissing(w) ==
  /\ w.convokedCount # Absent
  /\ w.recordedCount # Absent
  /\ w.convokedCount - w.recordedCount <= 0

CommitComplete(q) ==
  /\ Ends(q, "checked", "complete")
  /\ NothingMissing(tx[q].work)
  /\ assembly' = [assembly EXCEPT !.status = "COMPLETED"]
  /\ Committed(q, {})
  /\ UNCHANGED <<calls, convoked, attendance>>

CommitRemove(q) ==
  /\ Ends(q, "snapshot", "remove")
  /\ ~ tx[q].doomed
  /\ assembly' = Deleted
  /\ calls' = {} /\ convoked' = {}
  /\ attendance' = Cascaded(Affiliates)
  /\ Committed(q, Affiliates \cup CallNumbers)

\* Mutant: attendance that does not reference its convocation.
RowsForgotten(q) == TRUE

\* The foreign key of the upserts: the convocations found still exist.
RowsRemain(q) == Entered(tx[q].work.entries) \subseteq tx[q].seen

CommitRecord(q) ==
  LET entries == tx[q].work.entries IN
  /\ Ends(q, "open", "record")
  /\ RowsRemain(q)
  /\ attendance' = [a \in Affiliates |-> Given(entries[a], attendance[a])]
  /\ Committed(q, {})
  /\ UNCHANGED <<assembly, calls, convoked>>

-----------------------------------------------------------------------------
Init ==
  /\ assembly = Absent
  /\ calls = {} /\ convoked = {}
  /\ attendance = [a \in Affiliates |-> Absent]
  /\ tx = [q \in Requests |-> Idle]

BeginsOne(q) ==
  \/ \E status \in {Absent, "SCHEDULED", "CANCELLED"},
        type \in QuorumType \cup {Absent}, value \in QuorumValues \cup {Absent} :
       BeginUpdate(q, status, type, value)
  \/ \E new \in SUBSET CallNumbers : BeginReplaceCalls(q, new)
  \/ \E new \in SUBSET Affiliates : BeginReplaceConvocations(q, new)
  \/ BeginStart(q) \/ BeginComplete(q) \/ BeginRemove(q)
  \/ \E entries \in Sheet : BeginRecord(q, entries)

Reads(q) ==
  \/ CountForUpdate(q) \/ CountForStart(q)
  \/ CountConvoked(q) \/ CountRecorded(q)
  \/ FindConvocations(q) \/ TakeSnapshot(q) \/ DeleteMany(q)

Commits(q) ==
  \/ CommitUpdate(q) \/ CommitCalls(q) \/ CommitConvocations(q)
  \/ CommitStart(q) \/ CommitComplete(q) \/ CommitRemove(q) \/ CommitRecord(q)

Next ==
  \/ \E status \in AssemblyStatus, type \in QuorumType, value \in QuorumValues :
       Create(status, type, value)
  \/ \E q \in Requests : BeginsOne(q) \/ Reads(q) \/ Commits(q) \/ Fail(q)

Spec == Init /\ [][Next]_vars

-----------------------------------------------------------------------------
(* Properties.                                                             *)

\* Types, and with them that the quorum stays well formed though two updates
\* may each send half of it.
TypeOK ==
  /\ assembly \in AssemblyRow \cup {Absent, Deleted}
  /\ calls \subseteq CallNumbers
  /\ convoked \subseteq Affiliates
  /\ attendance \in Sheet
  /\ tx \in [Requests -> HandlerState]

\* Attendance is always of someone convoked, and nothing outlives the
\* assembly, whatever replacement or removal a stale handler runs into.
RowsHaveParents ==
  /\ Recorded \subseteq convoked
  /\ convoked # {} \/ calls # {} => Exists(assembly)

\* remove never deletes an assembly that has attendance, even when it is
\* started and attended while the removal is under way.
HistoryIsKept == [][assembly # Deleted /\ assembly' = Deleted => Recorded = {}]_vars

\* "The system SHALL reject call-round changes when the assembly is not
\* SCHEDULED or its convocations are locked", and so for the convocations.
FrozenOnceStarted ==
  [][(calls' # calls \/ convoked' # convoked) => Scheduled]_vars
=============================================================================
