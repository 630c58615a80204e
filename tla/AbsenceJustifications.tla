----------------------- MODULE AbsenceJustifications -----------------------
(* The justifications of the absences of one assembly, composed with the    *)
(* handlers of Assemblies: create, registerFromAffiliate and decide.  The    *)
(* evidence file is left out.                                                *)
EXTENDS Assemblies

CONSTANT Reviews   \* handlers of justifications in flight at once

VARIABLES justification, review

justificationVars == <<justification, review>>
allVars == <<vars, justificationVars>>

JustificationStatus == {"PENDING", "APPROVED", "REJECTED"}

ASSUME AbsentStatusAssumption == Absent \notin JustificationStatus

\* sawAssembly and sawAbsence are the answers so far; row says that the row
\* the handler found, of attendance or of justification, is still there.
Starting(op, who, row) ==
  [op |-> op, who |-> who, sawAssembly |-> FALSE, sawAbsence |-> FALSE, row |-> row]

NoReview == Starting("none", Absent, FALSE)

Review ==
  {NoReview}
    \cup [op : {"justify", "APPROVED", "REJECTED"}, who : Affiliates,
          sawAssembly : BOOLEAN, sawAbsence : BOOLEAN, row : BOOLEAN]

Busy(r) == review[r] # NoReview

-----------------------------------------------------------------------------
BeginJustify(r, a) ==
  /\ ~ Busy(r)
  /\ review' = [review EXCEPT ![r] = Starting("justify", a, FALSE)]
  /\ UNCHANGED justification

\* The reads of create are sent at once and answered in any order.
SeeAssembly(r) ==
  /\ review[r].op = "justify"
  /\ Exists(assembly) /\ assembly.status = "COMPLETED"
  /\ review[r].who \in convoked
  /\ review' = [review EXCEPT ![r].sawAssembly = TRUE]
  /\ UNCHANGED justification

SeeAttendance(r) ==
  /\ review[r].op = "justify"
  /\ attendance[review[r].who] = "ABSENT"
  /\ review' = [review EXCEPT ![r].sawAbsence = TRUE, ![r].row = TRUE]
  /\ UNCHANGED justification

\* Mutant: an attendanceId nothing references.
DanglingAttendance(r) == TRUE

\* The foreign key attendanceId.
AttendanceRemains(r) == review[r].row

\* (assemblyId, affiliateId) is unique: the read of an existing one decides
\* nothing the insert does not decide again.
CommitJustify(r) ==
  LET a == review[r].who IN
  /\ review[r].op = "justify"
  /\ review[r].sawAssembly /\ review[r].sawAbsence
  /\ AttendanceRemains(r)
  /\ justification[a] = Absent
  /\ justification' = [justification EXCEPT ![a] = "PENDING"]
  /\ review' = [review EXCEPT ![r] = NoReview]

\* The decisions decide accepts.
Decisions == {"APPROVED", "REJECTED"}

\* requirePending, outside the transaction.
BeginDecide(r, a, status) ==
  /\ ~ Busy(r)
  /\ justification[a] = "PENDING"
  /\ review' = [review EXCEPT ![r] = Starting(status, a, TRUE)]
  /\ UNCHANGED justification

\* An approval looks at the attendance first.
SeeStillAbsent(r) ==
  /\ review[r].op = "APPROVED"
  /\ attendance[review[r].who] = "ABSENT"
  /\ review' = [review EXCEPT ![r].sawAbsence = TRUE]
  /\ UNCHANGED justification

\* Mutant: a claim by id alone.
ClaimById(r) == review[r].row

\* The guard of the claiming updateMany: that row, still pending.
Claimed(r) == review[r].row /\ justification[review[r].who] = "PENDING"

CommitDecide(r) ==
  /\ review[r].op \in {"APPROVED", "REJECTED"}
  /\ review[r].op = "APPROVED" => review[r].sawAbsence
  /\ Claimed(r)
  /\ justification' = [justification EXCEPT ![review[r].who] = review[r].op]
  /\ review' = [review EXCEPT ![r] = NoReview]

\* A check or a constraint refuses, or the process dies.
FailReview(r) ==
  /\ Busy(r)
  /\ review' = [review EXCEPT ![r] = NoReview]
  /\ UNCHANGED justification

\* Deleting an attendance deletes its justification (ON DELETE CASCADE).
AttendanceCascade ==
  LET gone == {a \in Affiliates : attendance[a] # Absent /\ attendance'[a] = Absent} IN
  /\ justification' = [a \in Affiliates |-> IF a \in gone THEN Absent ELSE justification[a]]
  /\ review' = [r \in Reviews |->
                  [review[r] EXCEPT !.row = @ /\ review[r].who \notin gone]]

ReviewNext(r) ==
  \/ \E a \in Affiliates :
       \/ BeginJustify(r, a)
       \/ \E status \in Decisions : BeginDecide(r, a, status)
  \/ SeeAssembly(r) \/ SeeAttendance(r) \/ CommitJustify(r)
  \/ SeeStillAbsent(r) \/ CommitDecide(r) \/ FailReview(r)

JustificationsInit ==
  /\ Init
  /\ justification = [a \in Affiliates |-> Absent]
  /\ review = [r \in Reviews |-> NoReview]

JustificationsNext ==
  \/ Next /\ AttendanceCascade
  \/ (\E r \in Reviews : ReviewNext(r)) /\ UNCHANGED vars

JustificationsSpec == JustificationsInit /\ [][JustificationsNext]_allVars

-----------------------------------------------------------------------------
(* Properties.                                                             *)

\* Types of the justifications and their handlers.
JustificationsTypeOK ==
  /\ justification \in [Affiliates -> JustificationStatus \cup {Absent}]
  /\ review \in [Reviews -> Review]

\* A justification always has its attendance, even when a replacement of the
\* convocations, validated before the assembly started, deletes it while the
\* justification is being written.
JustifiedAreRecorded == \A a \in Affiliates : justification[a] # Absent => a \in Recorded

\* Two reviewers never decide one justification twice: a decision stands as
\* long as the row does.
DecisionIsFinal ==
  [][\A a \in Affiliates :
       justification[a] \in {"APPROVED", "REJECTED"} =>
         justification'[a] \in {justification[a], Absent}]_allVars

\* ASM-R10: an attendance has at most one justification, "y solo si esta
\* ausente".
OnlyAbsencesAreJustified ==
  \A a \in Affiliates : justification[a] # Absent => attendance[a] = "ABSENT"
=============================================================================
