-------------------------------- MODULE Dispatch --------------------------------
(***************************************************************************)
(* DispatchService: assigning a dispatch unit, and an engineer, to an      *)
(* accepted case, and changing the latest assignment.                      *)
(*                                                                         *)
(* The latest assignment is the one with the greatest created_at, which is *)
(* the time its transaction began.  The ids of the model are in that order *)
(* and a creation takes its id when it begins.                             *)
(***************************************************************************)
EXTENDS CaseStore

CONSTANTS MaxAssignments,     \* how many assignments a run can create
          Units, Engineers,   \* rows of dispatch_units and users
          DispatchInputs      \* [unit, engineer] of POST and PATCH

VARIABLES assignment,         \* the committed row of each assignment id
          caseUnit            \* cases.dispatch_unit_id

AssignmentIds == 1 .. MaxAssignments
UnitsOrNull == Units \cup {"null"}
EngineersOrNull == Engineers \cup {"null"}

ASSUME DispatchAssumption ==
  /\ MaxAssignments \in Nat
  /\ "null" \notin Units \cup Engineers
  /\ DispatchInputs \subseteq [unit : UnitsOrNull, engineer : EngineersOrNull]

AssignmentRows == [case : Cases, unit : Units, engineer : EngineersOrNull]
NoAssignment == [case |-> "none"]

dispatchVars == <<assignment, caseUnit>>
dispatchSpecVars == <<caseRow, tx, dispatchVars>>

DispatchReadyStatuses == {"accepted", "dispatch_pending", "assigned"}

AssignmentsOf(c) ==
  {i \in AssignmentIds : assignment[i] # NoAssignment /\ assignment[i].case = c}

(* getDispatchAssignmentByCaseId                                           *)
IsLatest(i, c) == i \in AssignmentsOf(c) /\ \A j \in AssignmentsOf(c) : j <= i

(* Ids taken so far, by a row or by a creation under way.                  *)
Taken ==
  {i \in AssignmentIds : assignment[i] # NoAssignment}
  \cup {tx[s].id : s \in {t \in Sessions : tx[t].op = "createDispatch"}}

(* The status and unit a commit leaves in the case: updateDispatchSummary. *)
(* The slip marks every case assigned.                                     *)
AlwaysAssigned(row) == "assigned"
SummaryStatus(row) == IF row.engineer = "null" THEN "dispatch_pending" ELSE "assigned"

(* coalesce of both columns                                                *)
Reassigned(row, in) ==
  [row EXCEPT !.unit = Coalesce(in.unit, @), !.engineer = Coalesce(in.engineer, @)]

DispatchRequests ==
  [op : {"createDispatch"}, case : Cases, id : AssignmentIds, set : DispatchInputs]
  \cup [op : {"findAssignment"}, case : Cases, set : DispatchInputs]
  \cup [op : {"reassign"}, case : Cases, id : AssignmentIds, set : DispatchInputs]
-------------------------------------------------------------------------------
DispatchInit ==
  /\ InitCases
  /\ assignment = [i \in AssignmentIds |-> NoAssignment]
  /\ caseUnit = [c \in Cases |-> "null"]

(* assignDispatchUnit up to its INSERT: ensureCaseForDispatch.             *)
ReadCaseForDispatch(s, c, in) ==
  /\ tx[s] = Idle
  /\ caseRow[c].status \in DispatchReadyStatuses
  /\ in.unit # "null"
  /\ \E i \in AssignmentIds :
       /\ Taken \subseteq 1 .. (i - 1)
       /\ Continue(s, [op |-> "createDispatch", case |-> c, id |-> i, set |-> in])
  /\ UNCHANGED <<caseRow, dispatchVars>>

CommitDispatch(s) ==
  LET c   == tx[s].case
      row == [case |-> c, unit |-> tx[s].set.unit, engineer |-> tx[s].set.engineer] IN
  /\ tx[s].op = "createDispatch"
  /\ assignment' = [assignment EXCEPT ![tx[s].id] = row]
  /\ caseUnit' = [caseUnit EXCEPT ![c] = row.unit]
  /\ SetCaseStatus(c, SummaryStatus(row))
  /\ Release(s)

(* reassignEngineer: the case, then its latest assignment, are read.       *)
ReadCaseForReassign(s, c, in) ==
  /\ tx[s] = Idle
  /\ caseRow[c].status \in DispatchReadyStatuses
  /\ Continue(s, [op |-> "findAssignment", case |-> c, set |-> in])
  /\ UNCHANGED <<caseRow, dispatchVars>>

(* The slip takes any assignment of the case.                              *)
FindAnyAssignment(s) ==
  /\ tx[s].op = "findAssignment"
  /\ \E i \in AssignmentsOf(tx[s].case) :
       Continue(s, [op |-> "reassign", case |-> tx[s].case, id |-> i, set |-> tx[s].set])
  /\ UNCHANGED <<caseRow, dispatchVars>>
FindAssignment(s) ==
  /\ tx[s].op = "findAssignment"
  /\ \E i \in AssignmentIds :
       /\ IsLatest(i, tx[s].case)
       /\ Continue(s, [op |-> "reassign", case |-> tx[s].case, id |-> i, set |-> tx[s].set])
  /\ UNCHANGED <<caseRow, dispatchVars>>

(* The update of the assignment and of the case's summary.  The slip makes *)
(* only the second.                                                        *)
ReassignCaseOnly(s) ==
  LET row == Reassigned(assignment[tx[s].id], tx[s].set) IN
  /\ tx[s].op = "reassign"
  /\ caseUnit' = [caseUnit EXCEPT ![tx[s].case] = row.unit]
  /\ SetCaseStatus(tx[s].case, SummaryStatus(row))
  /\ Release(s)
  /\ UNCHANGED assignment
CommitReassign(s) ==
  LET c   == tx[s].case
      row == Reassigned(assignment[tx[s].id], tx[s].set) IN
  /\ tx[s].op = "reassign"
  /\ assignment' = [assignment EXCEPT ![tx[s].id] = row]
  /\ caseUnit' = [caseUnit EXCEPT ![c] = row.unit]
  /\ SetCaseStatus(c, SummaryStatus(row))
  /\ Release(s)

RollbackDispatch(s) ==
  /\ tx[s].op \in {"createDispatch", "findAssignment", "reassign"}
  /\ Release(s)
  /\ UNCHANGED <<caseRow, dispatchVars>>

DispatchStep(s) ==
  \/ \E c \in Cases, in \in DispatchInputs :
       ReadCaseForDispatch(s, c, in) \/ ReadCaseForReassign(s, c, in)
  \/ CommitDispatch(s)
  \/ FindAssignment(s)
  \/ CommitReassign(s)
  \/ RollbackDispatch(s)

DispatchNext == \E s \in Sessions : DispatchStep(s)
DispatchSpec == DispatchInit /\ [][DispatchNext]_dispatchSpecVars
-------------------------------------------------------------------------------
DispatchTypeOK ==
  /\ caseRow \in [Cases -> CaseRows]
  /\ tx \in [Sessions -> DispatchRequests \cup {Idle}]
  /\ assignment \in [AssignmentIds -> AssignmentRows \cup {NoAssignment}]
  /\ caseUnit \in [Cases -> UnitsOrNull]

(* However dispatches and reassignments of a case race, a case shown as    *)
(* assigned has an assignment with an engineer.                            *)
AssignedHasEngineer ==
  \A c \in Cases : caseRow[c].status = "assigned" =>
    \E i \in AssignmentsOf(c) : assignment[i].engineer # "null"

(* ... and the unit the case shows is the unit of one of its assignments.  *)
CaseUnitAssigned ==
  \A c \in Cases : caseUnit[c] # "null" =>
    \E i \in AssignmentsOf(c) : assignment[i].unit = caseUnit[c]

(* The types again, whatever requests other services are running.          *)
DispatchOps == {"createDispatch", "findAssignment", "reassign"}
DispatchShapes ==
  /\ caseRow \in [Cases -> CaseRows]
  /\ SessionsRun
  /\ \A s \in Sessions : tx[s].op \in DispatchOps => tx[s] \in DispatchRequests
  /\ assignment \in [AssignmentIds -> AssignmentRows \cup {NoAssignment}]
  /\ caseUnit \in [Cases -> UnitsOrNull]

(* What makes both inductive: a creation under way has an id of its own and *)
(* a unit, and a reassignment under way an existing assignment of its case. *)
CreationsApart ==
  \A s \in Sessions : tx[s].op = "createDispatch" =>
    /\ assignment[tx[s].id] = NoAssignment
    /\ tx[s].set.unit # "null"
    /\ \A t \in Sessions \ {s} : tx[t].op = "createDispatch" => tx[t].id # tx[s].id
ReassignsBacked ==
  \A s \in Sessions : tx[s].op = "reassign" => tx[s].id \in AssignmentsOf(tx[s].case)

DispatchInv ==
  /\ DispatchShapes
  /\ CaseUnitAssigned
  /\ CreationsApart
  /\ ReassignsBacked

(* With one session the unit of a case, and its status while that is one   *)
(* dispatch gives, are those of the assignment the service calls the       *)
(* latest; a race can leave them at an older one.                          *)
SummaryOfLatest ==
  \A c \in Cases : \A i \in AssignmentIds : IsLatest(i, c) =>
    /\ caseUnit[c] = assignment[i].unit
    /\ caseRow[c].status \in {"dispatch_pending", "assigned"} =>
         caseRow[c].status = SummaryStatus(assignment[i])

(* What makes it inductive: a creation under way will be the latest, and a *)
(* reassignment under way changes the latest.                              *)
DispatchSerial ==
  /\ SummaryOfLatest
  /\ \A s \in Sessions :
       /\ tx[s].op = "createDispatch" =>
            \A i \in AssignmentIds : assignment[i] # NoAssignment => i < tx[s].id
       /\ tx[s].op = "reassign" => IsLatest(tx[s].id, tx[s].case)
===============================================================================
