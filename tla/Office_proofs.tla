------------------------------- MODULE Office_proofs -------------------------------
(***************************************************************************)
(* Theorems of the services the office works with: Dispatch, for any       *)
(* number of cases, assignments, units and engineers, and Workflow with    *)
(* Billing, for any number of cases and settlements and any amounts; both  *)
(* for any number of sessions and any request bodies.                      *)
(***************************************************************************)
EXTENDS Workflow, Dispatch, FiniteSetTheorems, TLAPS

USE DEF Idle, NoAssignment

NoneAssigned == \A row \in InitialCases : row.status # "assigned"

LEMMA InputType ==
  ASSUME NEW in \in DispatchInputs
  PROVE  in.unit \in UnitsOrNull /\ in.engineer \in EngineersOrNull
BY DispatchAssumption

(* Coalescing keeps a row well formed, in its case, and with the engineer  *)
(* it has.                                                                 *)
LEMMA ReassignedType ==
  ASSUME NEW row \in AssignmentRows, NEW in \in DispatchInputs
  PROVE  /\ Reassigned(row, in) \in AssignmentRows
         /\ Reassigned(row, in).case = row.case
         /\ row.engineer # "null" => Reassigned(row, in).engineer # "null"
<1>1. in.unit \in UnitsOrNull /\ in.engineer \in EngineersOrNull
  BY InputType
<1>2. row.unit \in Units /\ row.engineer \in EngineersOrNull /\ row.case \in Cases
  BY DEF AssignmentRows
<1>3. /\ Coalesce(in.unit, row.unit) \in Units
      /\ Coalesce(in.engineer, row.engineer) \in EngineersOrNull
      /\ row.engineer # "null" => Coalesce(in.engineer, row.engineer) # "null"
  BY <1>1, <1>2 DEF Coalesce, UnitsOrNull, EngineersOrNull
<1> QED BY <1>3 DEF Reassigned, AssignmentRows

(* No row is the absent one: "none" is a string the cases need not avoid,  *)
(* but a row has columns the absent one lacks.                             *)
LEMMA RowPresent ==
  ASSUME NEW row \in AssignmentRows
  PROVE  row # NoAssignment
BY DEF AssignmentRows
-------------------------------------------------------------------------------
(* The requests a session can be running, by their operation.              *)
LEMMA OneRequestReplaced ==
  ASSUME SessionsRun, NEW s \in Sessions, NEW r, Continue(s, r)
  PROVE  SessionsRun' /\ tx'[s] = r /\ \A t \in Sessions \ {s} : tx'[t] = tx[t]
BY DEF SessionsRun, Continue

LEMMA DispatchRequestShape ==
  ASSUME DispatchShapes, NEW s \in Sessions
  PROVE  /\ tx[s].op \in {"createDispatch", "reassign"} =>
              /\ tx[s].case \in Cases /\ tx[s].id \in AssignmentIds
              /\ tx[s].set \in DispatchInputs
         /\ tx[s].op = "findAssignment" => tx[s].case \in Cases /\ tx[s].set \in DispatchInputs
<1>1. tx[s].op \in DispatchOps => tx[s] \in DispatchRequests
  BY DEF DispatchShapes
<1> QED BY <1>1 DEF DispatchOps, DispatchRequests

(* What a step does to a session's request, to one case and to one         *)
(* assignment keeps the types.                                             *)
LEMMA StatusType ==
  ASSUME DispatchShapes, NEW c \in Cases, NEW status \in CaseStatuses, SetCaseStatus(c, status)
  PROVE  /\ caseRow' \in [Cases -> CaseRows]
         /\ caseRow'[c].status = status
         /\ \A d \in Cases \ {c} : caseRow'[d] = caseRow[d]
<1>1. caseRow[c] \in CaseRows
  BY DEF DispatchShapes
<1>2. [caseRow[c] EXCEPT !.status = status] \in CaseRows
  BY <1>1 DEF CaseRows
<1>3. caseRow' = [caseRow EXCEPT ![c] = [caseRow[c] EXCEPT !.status = status]]
  BY DEF SetCaseStatus
<1>4. [caseRow[c] EXCEPT !.status = status].status = status
  BY <1>1 DEF CaseRows
<1> QED BY <1>2, <1>3, <1>4 DEF DispatchShapes

LEMMA SummaryType ==
  ASSUME NEW row
  PROVE  /\ SummaryStatus(row) \in CaseStatuses
         /\ SummaryStatus(row) = "assigned" => row.engineer # "null"
BY DEF SummaryStatus, CaseStatuses

(* The effect both commits have: one assignment row of the case is stored, *)
(* and the case shows that row.                                            *)
Stores(s, i, c, row) ==
  /\ assignment' = [assignment EXCEPT ![i] = row]
  /\ caseUnit' = [caseUnit EXCEPT ![c] = row.unit]
  /\ SetCaseStatus(c, SummaryStatus(row))
  /\ Release(s)

(* ... which keeps types and what the case shows, provided the row takes   *)
(* the place of no other case's and forgets no engineer.                   *)
LEMMA StoresKeeps ==
  ASSUME DispatchShapes, CaseUnitAssigned,
         NEW s \in Sessions, NEW i \in AssignmentIds, NEW c \in Cases,
         NEW row \in AssignmentRows, row.case = c,
         assignment[i] = NoAssignment \/ assignment[i].case = c,
         Stores(s, i, c, row)
  PROVE  DispatchShapes' /\ CaseUnitAssigned' /\ (AssignedHasEngineer => AssignedHasEngineer')
<1> USE DEF Stores
<1>1. /\ SummaryStatus(row) \in CaseStatuses
      /\ SummaryStatus(row) = "assigned" => row.engineer # "null"
  BY SummaryType
<1>2. /\ caseRow' \in [Cases -> CaseRows]
      /\ caseRow'[c].status = SummaryStatus(row)
      /\ \A d \in Cases \ {c} : caseRow'[d] = caseRow[d]
  BY <1>1, StatusType
<1>3. DispatchShapes'
  <2>1. /\ SessionsRun'
        /\ \A t \in Sessions : tx'[t].op \in DispatchOps => tx'[t] \in DispatchRequests
    BY OneRequestReplaced DEF DispatchShapes, DispatchOps, Release
  <2>2. row.unit \in UnitsOrNull
    BY DEF AssignmentRows, UnitsOrNull
  <2>3. caseUnit' \in [Cases -> UnitsOrNull]
    BY <2>2 DEF DispatchShapes
  <2>4. assignment' \in [AssignmentIds -> AssignmentRows \cup {NoAssignment}]
    BY DEF DispatchShapes
  <2> QED BY <1>2, <2>1, <2>3, <2>4 DEF DispatchShapes
<1>4. i \in AssignmentsOf(c)' /\ assignment'[i] = row
  BY RowPresent DEF AssignmentsOf, DispatchShapes
<1>5. ASSUME NEW d \in Cases \ {c}, NEW j \in AssignmentsOf(d)
      PROVE  j \in AssignmentsOf(d)' /\ assignment'[j] = assignment[j]
  BY <1>5 DEF AssignmentsOf, DispatchShapes
<1>6. AssignedHasEngineer => AssignedHasEngineer'
  <2> SUFFICES ASSUME AssignedHasEngineer, NEW d \in Cases, caseRow'[d].status = "assigned"
               PROVE  \E j \in AssignmentsOf(d)' : assignment'[j].engineer # "null"
    BY DEF AssignedHasEngineer
  <2>1. CASE d = c
    BY <2>1, <1>1, <1>2, <1>4
  <2>2. CASE d # c
    BY <2>2, <1>2, <1>5 DEF AssignedHasEngineer
  <2> QED BY <2>1, <2>2
<1>7. CaseUnitAssigned'
  <2> SUFFICES ASSUME NEW d \in Cases, caseUnit'[d] # "null"
               PROVE  \E j \in AssignmentsOf(d)' : assignment'[j].unit = caseUnit'[d]
    BY DEF CaseUnitAssigned
  <2>1. CASE d = c
    BY <2>1, <1>4 DEF DispatchShapes
  <2>2. CASE d # c
    <3>1. caseUnit'[d] = caseUnit[d]
      BY <2>2 DEF DispatchShapes
    <3> QED BY <2>2, <3>1, <1>5 DEF CaseUnitAssigned
  <2> QED BY <2>1, <2>2
<1> QED BY <1>3, <1>6, <1>7

(* ... and what the other sessions rely on, provided no other creation has *)
(* that id.                                                                *)
LEMMA StoresApart ==
  ASSUME DispatchShapes, CreationsApart, ReassignsBacked,
         NEW s \in Sessions, NEW i \in AssignmentIds, NEW c \in Cases,
         NEW row \in AssignmentRows, row.case = c,
         assignment[i] = NoAssignment \/ assignment[i].case = c,
         \A t \in Sessions \ {s} : tx[t].op = "createDispatch" => tx[t].id # i,
         Stores(s, i, c, row)
  PROVE  CreationsApart' /\ ReassignsBacked'
<1> USE DEF Stores
<1>1. tx'[s].op = "idle" /\ \A t \in Sessions \ {s} : tx'[t] = tx[t]
  BY OneRequestReplaced DEF DispatchShapes, Release
<1>2. CreationsApart'
  <2> SUFFICES ASSUME NEW t \in Sessions, tx'[t].op = "createDispatch"
               PROVE  /\ assignment'[tx'[t].id] = NoAssignment
                      /\ tx'[t].set.unit # "null"
                      /\ \A u \in Sessions \ {t} :
                           tx'[u].op = "createDispatch" => tx'[u].id # tx'[t].id
    BY DEF CreationsApart
  <2>1. t # s /\ tx'[t] = tx[t]
    BY <1>1
  <2>2. tx[t].id \in AssignmentIds /\ tx[t].id # i
    BY <2>1, DispatchRequestShape
  <2>3. assignment'[tx[t].id] = NoAssignment
    BY <2>1, <2>2 DEF CreationsApart, DispatchShapes
  <2> QED BY <2>1, <2>3, <1>1 DEF CreationsApart
<1>3. ReassignsBacked'
  <2>1. ASSUME NEW t \in Sessions, tx'[t].op = "reassign"
        PROVE  /\ tx'[t].id \in AssignmentIds
               /\ assignment'[tx'[t].id] # NoAssignment
               /\ assignment'[tx'[t].id].case = tx'[t].case
    <3>1. t # s /\ tx'[t] = tx[t]
      BY <2>1, <1>1
    <3>2. /\ tx[t].id \in AssignmentIds
          /\ assignment[tx[t].id] # NoAssignment
          /\ assignment[tx[t].id].case = tx[t].case
      BY <2>1, <3>1 DEF ReassignsBacked, AssignmentsOf
    <3> QED BY <3>1, <3>2, RowPresent DEF DispatchShapes
  <2> QED BY <2>1 DEF ReassignsBacked, AssignmentsOf
<1> QED BY <1>2, <1>3
-------------------------------------------------------------------------------
(* What the two commits store.                                             *)
LEMMA CommitStores ==
  ASSUME DispatchShapes, CreationsApart, ReassignsBacked, NEW s \in Sessions,
         CommitDispatch(s) \/ CommitReassign(s)
  PROVE  /\ tx[s].case \in Cases /\ tx[s].id \in AssignmentIds
         /\ assignment[tx[s].id] = NoAssignment \/ assignment[tx[s].id].case = tx[s].case
         /\ \A t \in Sessions \ {s} : tx[t].op = "createDispatch" => tx[t].id # tx[s].id
         /\ \E row \in AssignmentRows :
              row.case = tx[s].case /\ Stores(s, tx[s].id, tx[s].case, row)
<1>1. CASE CommitDispatch(s)
  <2> DEFINE row == [case |-> tx[s].case, unit |-> tx[s].set.unit,
                     engineer |-> tx[s].set.engineer]
  <2>1. /\ tx[s].case \in Cases /\ tx[s].id \in AssignmentIds /\ tx[s].set \in DispatchInputs
        /\ tx[s].op = "createDispatch"
    BY <1>1, DispatchRequestShape DEF CommitDispatch
  <2>2. /\ assignment[tx[s].id] = NoAssignment /\ tx[s].set.unit # "null"
        /\ \A t \in Sessions \ {s} : tx[t].op = "createDispatch" => tx[t].id # tx[s].id
    BY <2>1 DEF CreationsApart
  <2>3. row \in AssignmentRows
    BY <2>1, <2>2, InputType DEF AssignmentRows, UnitsOrNull
  <2>4. Stores(s, tx[s].id, tx[s].case, row)
    BY <1>1 DEF CommitDispatch, Stores
  <2> HIDE DEF row
  <2>5. row.case = tx[s].case
    BY DEF row
  <2> QED BY <2>1, <2>2, <2>3, <2>4, <2>5
<1>2. CASE CommitReassign(s)
  <2> DEFINE row == Reassigned(assignment[tx[s].id], tx[s].set)
  <2>1. /\ tx[s].case \in Cases /\ tx[s].id \in AssignmentIds /\ tx[s].set \in DispatchInputs
        /\ tx[s].op = "reassign"
    BY <1>2, DispatchRequestShape DEF CommitReassign
  <2>2. /\ assignment[tx[s].id] \in AssignmentRows
        /\ assignment[tx[s].id].case = tx[s].case
    BY <2>1 DEF ReassignsBacked, AssignmentsOf, DispatchShapes
  <2>3. row \in AssignmentRows /\ row.case = tx[s].case
    BY <2>1, <2>2, ReassignedType
  <2>4. \A t \in Sessions \ {s} : tx[t].op = "createDispatch" => tx[t].id # tx[s].id
    BY <2>2, RowPresent DEF CreationsApart
  <2>5. Stores(s, tx[s].id, tx[s].case, row)
    BY <1>2 DEF CommitReassign, Stores
  <2> HIDE DEF row
  <2> QED BY <2>1, <2>2, <2>3, <2>4, <2>5
<1> QED BY <1>1, <1>2

LEMMA CommitKeeps ==
  ASSUME DispatchInv, NEW s \in Sessions, CommitDispatch(s) \/ CommitReassign(s)
  PROVE  DispatchInv' /\ (AssignedHasEngineer => AssignedHasEngineer')
BY CommitStores, StoresKeeps, StoresApart DEF DispatchInv

(* The other steps change only the session's request.                      *)
LEMMA RequestKeeps ==
  ASSUME DispatchInv, NEW s \in Sessions,
         UNCHANGED <<caseRow, assignment, caseUnit>>,
         NEW r, Continue(s, r), r.op \in DispatchOps => r \in DispatchRequests,
         r.op = "createDispatch" => r.id \notin Taken /\ r.set.unit # "null",
         r.op = "reassign" => r.id \in AssignmentsOf(r.case)
  PROVE  DispatchInv' /\ (AssignedHasEngineer => AssignedHasEngineer')
<1> USE DEF DispatchInv
<1>2. SessionsRun' /\ tx'[s] = r /\ \A t \in Sessions \ {s} : tx'[t] = tx[t]
  BY OneRequestReplaced DEF DispatchShapes
<1>1. DispatchShapes' /\ CaseUnitAssigned' /\ (AssignedHasEngineer => AssignedHasEngineer')
  BY <1>2 DEF DispatchShapes, AssignedHasEngineer, CaseUnitAssigned, AssignmentsOf
<1>3. r.op = "createDispatch" =>
        /\ r.id \in AssignmentIds
        /\ assignment[r.id] = NoAssignment
        /\ \A t \in Sessions : tx[t].op = "createDispatch" => tx[t].id # r.id
  BY DEF Taken, DispatchRequests, DispatchOps
<1>4. CreationsApart'
  <2> SUFFICES ASSUME NEW t \in Sessions, tx'[t].op = "createDispatch"
               PROVE  /\ assignment[tx'[t].id] = NoAssignment
                      /\ tx'[t].set.unit # "null"
                      /\ \A u \in Sessions \ {t} :
                           tx'[u].op = "createDispatch" => tx'[u].id # tx'[t].id
    BY DEF CreationsApart
  <2>1. CASE t = s
    BY <2>1, <1>2, <1>3
  <2>2. CASE t # s
    BY <2>2, <1>2, <1>3 DEF CreationsApart
  <2> QED BY <2>1, <2>2
<1>5. ReassignsBacked'
  BY <1>2 DEF ReassignsBacked, AssignmentsOf
<1> QED BY <1>1, <1>4, <1>5

LEMMA ReadKeeps ==
  ASSUME DispatchInv, NEW s \in Sessions, NEW c \in Cases, NEW in \in DispatchInputs,
         ReadCaseForDispatch(s, c, in) \/ ReadCaseForReassign(s, c, in)
  PROVE  DispatchInv' /\ (AssignedHasEngineer => AssignedHasEngineer')
<1>1. UNCHANGED <<caseRow, assignment, caseUnit>>
  BY DEF ReadCaseForDispatch, ReadCaseForReassign, dispatchVars
<1>2. CASE ReadCaseForDispatch(s, c, in)
  <2>1. PICK i \in AssignmentIds :
          /\ Taken \subseteq 1 .. (i - 1)
          /\ Continue(s, [op |-> "createDispatch", case |-> c, id |-> i, set |-> in])
    BY <1>2 DEF ReadCaseForDispatch
  <2>2. i \notin Taken /\ in.unit # "null"
    BY <1>2, <2>1, DispatchAssumption DEF AssignmentIds, ReadCaseForDispatch
  <2>3. [op |-> "createDispatch", case |-> c, id |-> i, set |-> in] \in DispatchRequests
    BY DEF DispatchRequests
  <2> QED BY <1>1, <2>1, <2>2, <2>3, RequestKeeps
<1>3. CASE ReadCaseForReassign(s, c, in)
  <2>1. [op |-> "findAssignment", case |-> c, set |-> in] \in DispatchRequests
    BY DEF DispatchRequests
  <2> QED BY <1>1, <1>3, <2>1, RequestKeeps DEF ReadCaseForReassign
<1> QED BY <1>2, <1>3

LEMMA FindKeeps ==
  ASSUME DispatchInv, NEW s \in Sessions, FindAssignment(s)
  PROVE  DispatchInv' /\ (AssignedHasEngineer => AssignedHasEngineer')
<1>1. PICK i \in AssignmentIds :
        /\ i \in AssignmentsOf(tx[s].case)
        /\ Continue(s, [op |-> "reassign", case |-> tx[s].case, id |-> i, set |-> tx[s].set])
  BY DEF FindAssignment, IsLatest
<1>2. UNCHANGED <<caseRow, assignment, caseUnit>>
  BY DEF FindAssignment, dispatchVars
<1>3. tx[s].case \in Cases /\ tx[s].set \in DispatchInputs
  BY DispatchRequestShape DEF FindAssignment, DispatchInv
<1>4. [op |-> "reassign", case |-> tx[s].case, id |-> i, set |-> tx[s].set] \in DispatchRequests
  BY <1>3 DEF DispatchRequests
<1> QED BY <1>1, <1>2, <1>4, RequestKeeps

LEMMA RollbackDispatchKeeps ==
  ASSUME DispatchInv, NEW s \in Sessions, RollbackDispatch(s)
  PROVE  DispatchInv' /\ (AssignedHasEngineer => AssignedHasEngineer')
<1>1. UNCHANGED <<caseRow, assignment, caseUnit>> /\ Continue(s, Idle)
  BY DEF RollbackDispatch, Release, dispatchVars
<1>2. Idle.op \notin DispatchOps /\ Idle.op \notin {"createDispatch", "reassign"}
  BY DEF DispatchOps
<1> QED BY <1>1, <1>2, RequestKeeps
-------------------------------------------------------------------------------
LEMMA DispatchInitial ==
  ASSUME DispatchInit
  PROVE  DispatchInv
<1>1. caseRow \in [Cases -> CaseRows] /\ tx = [s \in Sessions |-> Idle]
  BY CaseStoreAssumption DEF DispatchInit, InitCases
<1>2. DispatchShapes
  BY <1>1 DEF DispatchInit, DispatchShapes, DispatchOps, SessionsRun, UnitsOrNull
<1>5. CaseUnitAssigned
  BY DEF DispatchInit, CaseUnitAssigned
<1>6. CreationsApart /\ ReassignsBacked
  BY <1>1 DEF CreationsApart, ReassignsBacked
<1> QED BY <1>2, <1>5, <1>6 DEF DispatchInv

LEMMA DispatchStepKeeps ==
  ASSUME DispatchInv, NEW s \in Sessions, DispatchStep(s)
  PROVE  DispatchInv' /\ (AssignedHasEngineer => AssignedHasEngineer')
<1>1. ASSUME NEW c \in Cases, NEW in \in DispatchInputs,
             ReadCaseForDispatch(s, c, in) \/ ReadCaseForReassign(s, c, in)
      PROVE  DispatchInv' /\ (AssignedHasEngineer => AssignedHasEngineer')
  BY <1>1, ReadKeeps
<1>2. CASE CommitDispatch(s) \/ CommitReassign(s)
  BY <1>2, CommitKeeps
<1>3. CASE FindAssignment(s) \/ RollbackDispatch(s)
  BY <1>3, FindKeeps, RollbackDispatchKeeps
<1> QED BY <1>1, <1>2, <1>3 DEF DispatchStep

(* What a step is to the other services: it is on a request of dispatch,   *)
(* and writes two statuses, without a timestamp.                           *)
LEMMA DispatchStepSeen ==
  ASSUME DispatchInv, NEW s \in Sessions, DispatchStep(s)
  PROVE  /\ StepOf(s, DispatchOps)
         /\ CasesMoved({"dispatch_pending", "assigned"}, {})
<1>1. SessionsRun /\ caseRow \in [Cases -> CaseRows]
  BY DEF DispatchInv, DispatchShapes
<1>2. ASSUME NEW r, Continue(s, r), r = Idle \/ r.op \in DispatchOps,
             tx[s] = Idle \/ tx[s].op \in DispatchOps
      PROVE  StepOf(s, DispatchOps)
  <2>1. tx'[s] = r
    BY <1>1, <1>2, OneRequestReplaced
  <2> QED BY <1>2, <2>1 DEF StepOf, Moves, Continue
<1>3. StepOf(s, DispatchOps)
  <2>1. ASSUME NEW c \in Cases, NEW in \in DispatchInputs, ReadCaseForDispatch(s, c, in)
        PROVE  StepOf(s, DispatchOps)
    <3>1. PICK i \in AssignmentIds :
            Continue(s, [op |-> "createDispatch", case |-> c, id |-> i, set |-> in])
      BY <2>1 DEF ReadCaseForDispatch
    <3> QED BY <1>2, <2>1, <3>1 DEF ReadCaseForDispatch, DispatchOps
  <2>2. ASSUME NEW c \in Cases, NEW in \in DispatchInputs, ReadCaseForReassign(s, c, in)
        PROVE  StepOf(s, DispatchOps)
    BY <1>2, <2>2 DEF ReadCaseForReassign, DispatchOps
  <2>3. CASE FindAssignment(s)
    <3>1. PICK i \in AssignmentIds :
            Continue(s, [op |-> "reassign", case |-> tx[s].case, id |-> i, set |-> tx[s].set])
      BY <2>3 DEF FindAssignment
    <3> QED BY <1>2, <2>3, <3>1 DEF FindAssignment, DispatchOps
  <2>4. CASE CommitDispatch(s) \/ CommitReassign(s) \/ RollbackDispatch(s)
    BY <1>2, <2>4 DEF CommitDispatch, CommitReassign, RollbackDispatch, Release, DispatchOps
  <2> QED BY <2>1, <2>2, <2>3, <2>4 DEF DispatchStep
<1>4. ASSUME NEW c \in Cases, NEW row, SetCaseStatus(c, SummaryStatus(row))
      PROVE  CasesMoved({"dispatch_pending", "assigned"}, {})
  BY <1>1, <1>4, SummaryType
     DEF SetCaseStatus, SummaryStatus, CasesMoved, CaseRows, CaseStamps
<1>5. CasesMoved({"dispatch_pending", "assigned"}, {})
  <2>1. CASE UNCHANGED caseRow
    BY <1>1, <2>1 DEF CasesMoved
  <2>2. CASE CommitDispatch(s) \/ CommitReassign(s)
    <3>1. tx[s].case \in Cases
      BY <2>2, DispatchRequestShape DEF CommitDispatch, CommitReassign, DispatchInv
    <3> QED BY <1>4, <2>2, <3>1 DEF CommitDispatch, CommitReassign
  <2> QED BY <2>1, <2>2
    DEF DispatchStep, ReadCaseForDispatch, ReadCaseForReassign, FindAssignment, RollbackDispatch
<1> QED BY <1>3, <1>5

(* A step of another service that assigns no case keeps the invariant.     *)
LEMMA DispatchUndisturbed ==
  ASSUME DispatchInv, NEW s \in Sessions, StepElsewhere(s, DispatchOps),
         NEW statuses, NEW stamps, CasesMoved(statuses, stamps), "assigned" \notin statuses,
         UNCHANGED dispatchVars
  PROVE  DispatchInv' /\ (AssignedHasEngineer => AssignedHasEngineer')
<1>1. /\ SessionsRun' /\ tx'[s].op \notin DispatchOps
      /\ \A t \in Sessions \ {s} : tx'[t] = tx[t]
  BY DEF StepElsewhere, Moves, DispatchInv, DispatchShapes, SessionsRun
<1>2. UNCHANGED <<assignment, caseUnit>> /\ caseRow' \in [Cases -> CaseRows]
  BY DEF dispatchVars, CasesMoved
<1>3. DispatchShapes'
  BY <1>1, <1>2 DEF DispatchInv, DispatchShapes
<1>4. \A c \in Cases : caseRow'[c].status = "assigned" => caseRow[c].status = "assigned"
  BY DEF CasesMoved
<1>5. CaseUnitAssigned' /\ (AssignedHasEngineer => AssignedHasEngineer')
  BY <1>2, <1>4 DEF DispatchInv, AssignedHasEngineer, CaseUnitAssigned, AssignmentsOf
<1>6. CreationsApart'
  BY <1>1, <1>2 DEF DispatchInv, CreationsApart, DispatchOps
<1>7. ReassignsBacked'
  BY <1>1, <1>2 DEF DispatchInv, ReassignsBacked, AssignmentsOf, DispatchOps
<1> QED BY <1>3, <1>5, <1>6, <1>7 DEF DispatchInv
-------------------------------------------------------------------------------
(* With one session a commit makes its row the latest of its case, or      *)
(* changes the latest, so the case shows the latest.                       *)
LEMMA StoresLatest ==
  ASSUME DispatchShapes, SummaryOfLatest,
         NEW s \in Sessions, NEW i \in AssignmentIds, NEW c \in Cases,
         NEW row \in AssignmentRows, row.case = c,
         assignment[i] = NoAssignment \/ assignment[i].case = c,
         \A j \in AssignmentsOf(c) : j <= i,
         Stores(s, i, c, row)
  PROVE  SummaryOfLatest'
<1>1. /\ caseRow'[c].status = SummaryStatus(row)
      /\ \A d \in Cases \ {c} : caseRow'[d] = caseRow[d]
  BY SummaryType, StatusType DEF Stores
<1>2. /\ caseUnit'[c] = row.unit
      /\ \A d \in Cases \ {c} : caseUnit'[d] = caseUnit[d]
      /\ assignment'[i] = row /\ row # NoAssignment
      /\ \A j \in AssignmentIds \ {i} : assignment'[j] = assignment[j]
  BY RowPresent DEF Stores, DispatchShapes
<1>3. AssignmentsOf(c)' = AssignmentsOf(c) \cup {i}
  BY <1>2 DEF AssignmentsOf
<1>4. \A d \in Cases \ {c} : AssignmentsOf(d)' = AssignmentsOf(d) /\ i \notin AssignmentsOf(d)
  BY <1>2 DEF AssignmentsOf
<1> SUFFICES ASSUME NEW d \in Cases, NEW j \in AssignmentIds, IsLatest(j, d)'
             PROVE  /\ caseUnit'[d] = assignment'[j].unit
                    /\ caseRow'[d].status \in {"dispatch_pending", "assigned"} =>
                         caseRow'[d].status = SummaryStatus(assignment'[j])
  BY DEF SummaryOfLatest, SummaryStatus
<1>5. CASE d = c
  <2>1. j = i
    BY <1>3, <1>5, DispatchAssumption DEF IsLatest, AssignmentIds
  <2> QED BY <1>1, <1>2, <1>5, <2>1
<1>6. CASE d # c
  <2>1. IsLatest(j, d) /\ j # i
    BY <1>4, <1>6 DEF IsLatest
  <2> QED BY <1>1, <1>2, <1>6, <2>1 DEF SummaryOfLatest
<1> QED BY <1>5, <1>6

LEMMA CommitStoresLatest ==
  ASSUME OneSession, DispatchInv, DispatchSerial, NEW s \in Sessions,
         CommitDispatch(s) \/ CommitReassign(s)
  PROVE  SummaryOfLatest'
<1>1. /\ tx[s].case \in Cases /\ tx[s].id \in AssignmentIds
      /\ assignment[tx[s].id] = NoAssignment \/ assignment[tx[s].id].case = tx[s].case
  BY CommitStores DEF DispatchInv
<1>2. PICK row \in AssignmentRows :
        row.case = tx[s].case /\ Stores(s, tx[s].id, tx[s].case, row)
  BY CommitStores DEF DispatchInv
<1>3. \A j \in AssignmentsOf(tx[s].case) : j <= tx[s].id
  BY <1>1, DispatchAssumption
     DEF CommitDispatch, CommitReassign, DispatchSerial, IsLatest, AssignmentsOf, AssignmentIds
<1> QED BY <1>1, <1>2, <1>3, StoresLatest DEF DispatchInv, DispatchSerial

LEMMA DispatchSerialKept ==
  ASSUME OneSession, DispatchInv, DispatchSerial, NEW s \in Sessions, DispatchStep(s)
  PROVE  DispatchSerial'
<1>1. DispatchShapes /\ \A t \in Sessions : t = s
  BY DEF DispatchInv, OneSession
<1>2. ASSUME NEW r, Continue(s, r), UNCHANGED <<caseRow, assignment, caseUnit>>,
             r.op = "createDispatch" =>
               \A i \in AssignmentIds : assignment[i] # NoAssignment => i < r.id,
             r.op = "reassign" => IsLatest(r.id, r.case)
      PROVE  DispatchSerial'
  <2>1. tx'[s] = r
    BY <1>1, <1>2, OneRequestReplaced DEF DispatchShapes
  <2> QED BY <1>1, <1>2, <2>1
    DEF DispatchSerial, SummaryOfLatest, IsLatest, AssignmentsOf, SummaryStatus
<1>3. ASSUME NEW c \in Cases, NEW in \in DispatchInputs, ReadCaseForDispatch(s, c, in)
      PROVE  DispatchSerial'
  <2>1. PICK i \in AssignmentIds :
          /\ Taken \subseteq 1 .. (i - 1)
          /\ Continue(s, [op |-> "createDispatch", case |-> c, id |-> i, set |-> in])
    BY <1>3 DEF ReadCaseForDispatch
  <2>2. \A j \in AssignmentIds : assignment[j] # NoAssignment => j < i
    BY <2>1, DispatchAssumption DEF Taken, AssignmentIds
  <2> QED BY <1>2, <1>3, <2>1, <2>2 DEF ReadCaseForDispatch, dispatchVars
<1>4. ASSUME NEW c \in Cases, NEW in \in DispatchInputs, ReadCaseForReassign(s, c, in)
      PROVE  DispatchSerial'
  BY <1>2, <1>4 DEF ReadCaseForReassign, dispatchVars
<1>5. CASE FindAssignment(s)
  <2>1. PICK i \in AssignmentIds :
          /\ IsLatest(i, tx[s].case)
          /\ Continue(s, [op |-> "reassign", case |-> tx[s].case, id |-> i, set |-> tx[s].set])
    BY <1>5 DEF FindAssignment
  <2> QED BY <1>2, <1>5, <2>1 DEF FindAssignment, dispatchVars
<1>6. CASE RollbackDispatch(s)
  BY <1>2, <1>6 DEF RollbackDispatch, Release, dispatchVars
<1>7. CASE CommitDispatch(s) \/ CommitReassign(s)
  <2>1. tx'[s] = Idle
    BY <1>1, <1>7, OneRequestReplaced DEF CommitDispatch, CommitReassign, Release, DispatchShapes
  <2>2. SummaryOfLatest'
    BY <1>7, CommitStoresLatest
  <2> QED BY <1>1, <2>1, <2>2 DEF DispatchSerial
<1> QED BY <1>3, <1>4, <1>5, <1>6, <1>7 DEF DispatchStep

LEMMA DispatchSerialUndisturbed ==
  ASSUME OneSession, DispatchInv, DispatchSerial, NEW s \in Sessions,
         StepElsewhere(s, DispatchOps),
         NEW statuses, NEW stamps, CasesMoved(statuses, stamps),
         statuses \cap {"dispatch_pending", "assigned"} = {}, UNCHANGED dispatchVars
  PROVE  DispatchSerial'
<1>1. \A t \in Sessions : tx'[t].op \notin DispatchOps
  BY DEF StepElsewhere, OneSession
<1>2. UNCHANGED <<assignment, caseUnit>>
  BY DEF dispatchVars
<1>3. \A c \in Cases : caseRow'[c].status \in {"dispatch_pending", "assigned"} =>
        caseRow'[c].status = caseRow[c].status
  BY DEF CasesMoved
<1>4. SummaryOfLatest'
  BY <1>2, <1>3
     DEF DispatchSerial, SummaryOfLatest, IsLatest, AssignmentsOf, SummaryStatus
<1> QED BY <1>1, <1>4 DEF DispatchSerial, DispatchOps

(* The inductive invariant: a creation under way owns its id and a         *)
(* reassignment under way refers to a stored assignment of its case, so no *)
(* commit takes away what a case shows.                                    *)
THEOREM DispatchInvariant == DispatchSpec => []DispatchInv
<1>1. DispatchInit => DispatchInv
  BY DispatchInitial
<1>2. DispatchInv /\ [DispatchNext]_dispatchSpecVars => DispatchInv'
  <2> SUFFICES ASSUME DispatchInv, [DispatchNext]_dispatchSpecVars
               PROVE  DispatchInv'
    OBVIOUS
  <2>1. CASE DispatchNext
    BY <2>1, DispatchStepKeeps DEF DispatchNext
  <2>2. CASE UNCHANGED dispatchSpecVars
    BY <2>2 DEF dispatchSpecVars, dispatchVars, DispatchInv, DispatchShapes,
                SessionsRun, CaseUnitAssigned, CreationsApart, ReassignsBacked, AssignmentsOf
  <2> QED BY <2>1, <2>2
<1> QED BY <1>1, <1>2, PTL DEF DispatchSpec

(* However dispatches and reassignments race, a case shown as assigned has *)
(* an assignment with an engineer.                                         *)
THEOREM AssignedAlwaysHasEngineer ==
  ASSUME NoneAssigned
  PROVE  DispatchSpec => []AssignedHasEngineer
<1>1. DispatchInit => AssignedHasEngineer
  BY DEF NoneAssigned, DispatchInit, InitCases, AssignedHasEngineer
<1>2. DispatchInv /\ AssignedHasEngineer /\ [DispatchNext]_dispatchSpecVars
        => AssignedHasEngineer'
  <2>1. DispatchInv /\ AssignedHasEngineer /\ DispatchNext => AssignedHasEngineer'
    BY DispatchStepKeeps DEF DispatchNext
  <2>2. AssignedHasEngineer /\ UNCHANGED dispatchSpecVars => AssignedHasEngineer'
    BY DEF dispatchSpecVars, dispatchVars, AssignedHasEngineer, AssignmentsOf
  <2> QED BY <2>1, <2>2
<1> QED BY <1>1, <1>2, DispatchInvariant, PTL DEF DispatchSpec

(* ... and the dispatch unit it shows is the unit of one of its            *)
(* assignments.                                                            *)
THEOREM CaseUnitAlwaysAssigned == DispatchSpec => []CaseUnitAssigned
<1>1. DispatchInv => CaseUnitAssigned
  BY DEF DispatchInv
<1> QED BY <1>1, DispatchInvariant, PTL

(* Rows and requests in flight keep the types of their columns.            *)
THEOREM DispatchTypeCorrect == DispatchSpec => []DispatchTypeOK
<1> DEFINE Own == \A s \in Sessions : tx[s] = Idle \/ tx[s].op \in DispatchOps
<1>1. DispatchInit => Own
  BY DEF DispatchInit, InitCases
<1>2. DispatchInv /\ Own /\ [DispatchNext]_dispatchSpecVars => Own'
  <2> SUFFICES ASSUME DispatchInv, Own, [DispatchNext]_dispatchSpecVars, NEW t \in Sessions
               PROVE  tx'[t] = Idle \/ tx'[t].op \in DispatchOps
    OBVIOUS
  <2>1. CASE DispatchNext
    <3>1. PICK s \in Sessions : StepOf(s, DispatchOps)
      BY <2>1, DispatchStepSeen DEF DispatchNext
    <3>2. t # s => tx'[t] = tx[t]
      BY <3>1 DEF StepOf, Moves, DispatchInv, DispatchShapes, SessionsRun
    <3> QED BY <3>1, <3>2 DEF StepOf
  <2>2. CASE UNCHANGED dispatchSpecVars
    BY <2>2 DEF dispatchSpecVars
  <2> QED BY <2>1, <2>2
<1>3. DispatchInv /\ Own => DispatchTypeOK
  BY DEF DispatchInv, DispatchShapes, SessionsRun, DispatchTypeOK
<1> QED BY <1>1, <1>2, <1>3, DispatchInvariant, PTL DEF DispatchSpec

(* With one session the unit of a case, and a status that dispatch gave    *)
(* it, are those of the assignment the service calls the latest.           *)
THEOREM SummaryAlwaysOfLatest ==
  ASSUME OneSession
  PROVE  DispatchSpec => []SummaryOfLatest
<1>1. DispatchInit => DispatchSerial
  BY DEF DispatchInit, InitCases, DispatchSerial, SummaryOfLatest, IsLatest, AssignmentsOf
<1>2. DispatchInv /\ DispatchSerial /\ [DispatchNext]_dispatchSpecVars => DispatchSerial'
  <2>1. DispatchInv /\ DispatchSerial /\ DispatchNext => DispatchSerial'
    BY DispatchSerialKept DEF DispatchNext
  <2>2. DispatchSerial /\ UNCHANGED dispatchSpecVars => DispatchSerial'
    BY DEF dispatchSpecVars, dispatchVars, DispatchSerial, SummaryOfLatest, IsLatest,
           AssignmentsOf, SummaryStatus
  <2> QED BY <2>1, <2>2
<1>3. DispatchSerial => SummaryOfLatest
  BY DEF DispatchSerial
<1> QED BY <1>1, <1>2, <1>3, DispatchInvariant, PTL DEF DispatchSpec
-------------------------------------------------------------------------------
USE DEF NoBilling, NoSettlement, SessionsRun, OfficeOps

(* Rounding to whole cents moves an amount by half a cent at most.         *)
LEMMA HalfType == Half \in Nat /\ 2 * Half <= Cent /\ Cent <= 2 * Half + 1
BY BillingAssumption DEF Half

LEMMA RoundType ==
  ASSUME NEW x \in Nat
  PROVE  Round(x) \in Nat /\ x - Half <= Round(x) /\ Round(x) <= x + Half
<1>1. /\ x + Half \in Nat /\ (x + Half) % Cent \in 0 .. Cent - 1
      /\ (x + Half) % Cent <= x + Half
  BY BillingAssumption, HalfType
<1> QED BY <1>1, BillingAssumption, HalfType DEF Round

LEMMA NearestType ==
  ASSUME NEW x \in Nat, NEW y \in Nearest(x)
  PROVE  y \in Nat /\ x - Half <= y /\ y <= x + Half
BY HalfType DEF Nearest

BillingSets ==
  [status : BillingStatuses \cup {"null"}, amounts : [Columns -> InputAmounts], total : Nat]

LEMMA BillingInputType ==
  ASSUME NEW in \in BillingInputs
  PROVE  /\ in \in [status : BillingStatuses \cup {"null"}, amounts : [Columns -> InputAmounts],
                    total : InputAmounts]
         /\ in.amounts \in [Columns -> InputAmounts] /\ in.total \in InputAmounts
BY BillingAssumption

(* What a request is checked with are amounts, all given, and what is      *)
(* stored of its total is near it.                                         *)
LEMMA MergedType ==
  ASSUME NEW in \in BillingInputs, NEW row \in BillingRows
  PROVE  /\ Merged(in, row).amounts \in [Columns -> Nat]
         /\ Merged(in, row).amounts = [k \in Columns |-> Or(in.amounts[k], row.amounts[k])]
         /\ Merged(in, row).total = in.total
<1>1. row.amounts \in [Columns -> Nat]
  BY DEF BillingRows
<1>2. \A k \in Columns : Or(in.amounts[k], row.amounts[k]) \in Nat
  BY <1>1, BillingInputType DEF Or, InputAmounts
<1>3. PICK f : f = [k \in Columns |-> Or(in.amounts[k], row.amounts[k])]
  OBVIOUS
<1>4. f \in [Columns -> Nat]
  BY <1>2, <1>3
<1>5. Merged(in, row) = [in EXCEPT !.amounts = f]
  BY <1>3 DEF Merged
<1> QED BY <1>3, <1>4, <1>5, BillingInputType

LEMMA SumType ==
  ASSUME NEW a \in [Columns -> Nat]
  PROVE  Base(a) \in Nat /\ Sources(a) \in Nat
BY DEF Columns, BaseColumns, SourceColumns, Base, Sources

LEMMA TotalOfMerged ==
  ASSUME NEW in \in BillingInputs, NEW row \in BillingRows
  PROVE  CalculateTotal(Merged(in, row)) \in Nat
<1>1. Base(Merged(in, row).amounts) \in Nat
  BY MergedType, SumType
<1>2. Merged(in, row).total = Omitted \/ Merged(in, row).total \in Nat
  BY BillingInputType, MergedType DEF InputAmounts
<1> QED BY <1>1, <1>2 DEF CalculateTotal, Or

LEMMA TotalType ==
  ASSUME NEW in \in BillingInputs, NEW row \in BillingRows,
         NEW total \in StoredTotals(Merged(in, row))
  PROVE  /\ total \in Nat /\ CalculateTotal(Merged(in, row)) \in Nat
         /\ CalculateTotal(Merged(in, row)) - Half <= total
         /\ total <= CalculateTotal(Merged(in, row)) + Half
<1>1. CalculateTotal(Merged(in, row)) \in Nat
  BY TotalOfMerged
<1> QED BY <1>1, RoundType, NearestType DEF StoredTotals

LEMMA ZerosType == Zeros \in BillingRows
BY DEF Zeros, BillingRows, BillingStatuses

(* What a billing request stores has the column types.                     *)
LEMMA SetType ==
  ASSUME NEW in \in BillingInputs, NEW total \in Nat
  PROVE  [in EXCEPT !.total = total] \in BillingSets
BY BillingInputType DEF BillingSets

LEMMA UpdatedType ==
  ASSUME NEW row \in BillingRows, NEW set \in BillingSets
  PROVE  UpdatedBilling(row, set) \in BillingRows
<1>1. /\ set.status \in BillingStatuses \cup {"null"} /\ set.total \in Nat
      /\ set.amounts \in [Columns -> InputAmounts]
  BY DEF BillingSets
<1>2. row.status \in BillingStatuses /\ row.amounts \in [Columns -> Nat]
  BY DEF BillingRows
<1>3. \A k \in Columns : StoredAmount(set.amounts[k], row.amounts[k]) \in Nat
  BY <1>1, <1>2, RoundType DEF StoredAmount, InputAmounts
<1>4. PICK f : f = [k \in Columns |-> StoredAmount(set.amounts[k], row.amounts[k])]
  OBVIOUS
<1>5. f \in [Columns -> Nat]
  BY <1>3, <1>4
<1>6. Coalesce(set.status, row.status) \in BillingStatuses
  BY <1>1, <1>2 DEF Coalesce
<1>7. UpdatedBilling(row, set) = [status |-> Coalesce(set.status, row.status), amounts |-> f,
                                  total |-> set.total]
  BY <1>4 DEF UpdatedBilling
<1> QED BY <1>1, <1>5, <1>6, <1>7 DEF BillingRows
-------------------------------------------------------------------------------
(* Every workflow action ends in a status that has a timestamp.            *)
LEMMA ToStatusType ==
  ASSUME NEW action \in WorkflowActions
  PROVE  ToStatus[action] \in CaseStamps
BY DEF ToStatus, WorkflowActions, CaseStamps

ReadStep(s) ==
  \/ \E c \in Cases, in \in BillingInputs :
       ReadCaseForBilling(s, c, in) \/ ReadBilling(s, c, in)
  \/ \E c \in Cases, in \in SettlementInputs : ReadForSettlement(s, c, in)
  \/ \E x \in Settlements, in \in SettlementInputs : ReadSettlement(s, x, in)
  \/ \E c \in Cases, action \in WorkflowActions : ReadForTransition(s, c, action)
  \/ CheckBilling(s) \/ CheckSettlements(s)
  \/ RollbackBilling(s) \/ RollbackTransition(s)

(* A step that only reads leaves a well-formed request behind.             *)
LEMMA ReadStepType ==
  ASSUME WorkflowShapes, NEW s \in Sessions, ReadStep(s)
  PROVE  /\ UNCHANGED <<caseRow, billing, settlement>>
         /\ \E r \in WorkflowRequests \cup BillingRequests \cup {Idle} :
              tx' = [tx EXCEPT ![s] = r]
<1> USE DEF Continue, Release, billingVars
<1>1. ASSUME NEW c \in Cases, NEW in \in BillingInputs,
             ReadCaseForBilling(s, c, in) \/ ReadBilling(s, c, in)
      PROVE  /\ UNCHANGED <<caseRow, billing, settlement>>
             /\ \E r \in BillingRequests : tx' = [tx EXCEPT ![s] = r]
  <2>1. CASE ReadCaseForBilling(s, c, in)
    <3>1. PICK total \in StoredTotals(Merged(in, Zeros)) :
            Continue(s, [op |-> "createBilling", case |-> c, set |-> [in EXCEPT !.total = total]])
      BY <2>1 DEF ReadCaseForBilling
    <3>2. [in EXCEPT !.total = total] \in BillingSets
      BY TotalType, ZerosType, SetType
    <3>3. [op |-> "createBilling", case |-> c, set |-> [in EXCEPT !.total = total]]
            \in BillingRequests
      BY <3>2 DEF BillingRequests, BillingSets
    <3> QED BY <2>1, <3>1, <3>3 DEF ReadCaseForBilling
  <2>2. CASE ReadBilling(s, c, in)
    <3>1. PICK total \in StoredTotals(Merged(in, billing[c])) :
            Continue(s, [op |-> "updateBilling", case |-> c, set |-> [in EXCEPT !.total = total]])
      BY <2>2 DEF ReadBilling
    <3>2. billing[c] \in BillingRows
      BY <2>2 DEF ReadBilling, WorkflowShapes
    <3>3. [in EXCEPT !.total = total] \in BillingSets
      BY <3>2, TotalType, SetType
    <3>4. [op |-> "updateBilling", case |-> c, set |-> [in EXCEPT !.total = total]]
            \in BillingRequests
      BY <3>3 DEF BillingRequests, BillingSets
    <3> QED BY <2>2, <3>1, <3>4 DEF ReadBilling
  <2> QED BY <1>1, <2>1, <2>2
<1>2. ASSUME NEW c \in Cases, NEW in \in SettlementInputs, ReadForSettlement(s, c, in)
      PROVE  /\ UNCHANGED <<caseRow, billing, settlement>>
             /\ \E r \in BillingRequests : tx' = [tx EXCEPT ![s] = r]
  <2>1. in.amount \in InputAmounts /\ in.status \in SettlementStatuses \cup {"null"}
    BY BillingAssumption
  <2>2. billing[c] \in BillingRows /\ in.amount \in 0 .. billing[c].total
    BY <1>2 DEF ReadForSettlement, WorkflowShapes
  <2>3. in.amount \in Nat
    BY <2>1, <2>2 DEF InputAmounts, BillingRows
  <2>4. [op |-> "createSettlement", case |-> c, amount |-> in.amount,
         status |-> IF in.status = "null" THEN "submitted" ELSE in.status] \in BillingRequests
    BY <2>1, <2>3 DEF BillingRequests, SettlementStatuses
  <2> QED BY <1>2, <2>4 DEF ReadForSettlement
<1>3. ASSUME NEW x \in Settlements, NEW in \in SettlementInputs, ReadSettlement(s, x, in)
      PROVE  /\ UNCHANGED <<caseRow, billing, settlement>>
             /\ \E r \in BillingRequests : tx' = [tx EXCEPT ![s] = r]
  <2>1. in.amount \in InputAmounts /\ in.status \in SettlementStatuses \cup {"null"}
    BY BillingAssumption
  <2>2. [op |-> "updateSettlement", id |-> x, amount |-> in.amount,
         status |-> IF in.status = "null" THEN "completed" ELSE in.status] \in BillingRequests
    BY <2>1 DEF BillingRequests, SettlementStatuses
  <2> QED BY <1>3, <2>2 DEF ReadSettlement
<1>4. ASSUME NEW c \in Cases, NEW action \in WorkflowActions, ReadForTransition(s, c, action)
      PROVE  /\ UNCHANGED <<caseRow, billing, settlement>>
             /\ \E r \in WorkflowRequests : tx' = [tx EXCEPT ![s] = r]
  <2>1. [op |-> IF action = "close" THEN "checkBilling" ELSE "transition", case |-> c,
         action |-> action] \in WorkflowRequests
    BY DEF WorkflowRequests
  <2> QED BY <1>4, <2>1 DEF ReadForTransition
<1>5. ASSUME CheckBilling(s) \/ CheckSettlements(s)
      PROVE  /\ UNCHANGED <<caseRow, billing, settlement>>
             /\ \E r \in WorkflowRequests : tx' = [tx EXCEPT ![s] = r]
  <2>1. tx[s] \in WorkflowRequests
    BY <1>5 DEF CheckBilling, CheckSettlements, WorkflowShapes, BillingRequests
  <2>2. /\ [tx[s] EXCEPT !.op = "transition"] \in WorkflowRequests
        /\ [tx[s] EXCEPT !.op = "checkSettlements"] \in WorkflowRequests
    BY <2>1 DEF WorkflowRequests
  <2> QED BY <1>5, <2>2 DEF CheckBilling, CheckSettlements
<1>6. ASSUME RollbackBilling(s) \/ RollbackTransition(s)
      PROVE  /\ UNCHANGED <<caseRow, billing, settlement>>
             /\ tx' = [tx EXCEPT ![s] = Idle]
  BY <1>6 DEF RollbackBilling, RollbackTransition
<1> QED BY <1>1, <1>2, <1>3, <1>4, <1>5, <1>6 DEF ReadStep

(* The commits change one billing row, one settlement or one case.         *)
LEMMA OfficeTypeStep ==
  WorkflowShapes /\ BillingBacked /\ [WorkflowNext]_billingSpecVars => WorkflowShapes'
<1> SUFFICES ASSUME WorkflowShapes, BillingBacked, [WorkflowNext]_billingSpecVars
             PROVE  WorkflowShapes'
  OBVIOUS
<1> USE DEF Continue, Release
<1>1. ASSUME NEW s \in Sessions, ReadStep(s) PROVE WorkflowShapes'
  <2>1. PICK r \in WorkflowRequests \cup BillingRequests \cup {Idle} :
          tx' = [tx EXCEPT ![s] = r]
    BY <1>1, ReadStepType
  <2>2. UNCHANGED <<caseRow, billing, settlement>>
    BY <1>1, ReadStepType
  <2> QED BY <2>1, <2>2 DEF WorkflowShapes
<1>2. ASSUME NEW s \in Sessions, CommitCreateBilling(s) PROVE WorkflowShapes'
  <2> DEFINE row == UpdatedBilling(Zeros, tx[s].set)
  <2>1. tx[s] \in BillingRequests /\ tx[s].op = "createBilling"
    BY <1>2 DEF CommitCreateBilling, WorkflowShapes, WorkflowRequests
  <2>2. tx[s].set \in BillingSets
    BY <2>1 DEF BillingRequests, BillingSets
  <2>3. row \in BillingRows
    BY <2>2, ZerosType, UpdatedType
  <2>4. /\ billing' = [billing EXCEPT ![tx[s].case] = row]
        /\ tx' = [tx EXCEPT ![s] = Idle] /\ UNCHANGED <<caseRow, settlement>>
    BY <1>2 DEF CommitCreateBilling
  <2> QED BY <2>3, <2>4 DEF WorkflowShapes
<1>3. ASSUME NEW s \in Sessions, CommitUpdateBilling(s) PROVE WorkflowShapes'
  <2> DEFINE c == tx[s].case
             row == UpdatedBilling(billing[c], tx[s].set)
  <2>1. tx[s] \in BillingRequests /\ tx[s].op = "updateBilling"
    BY <1>3 DEF CommitUpdateBilling, WorkflowShapes, WorkflowRequests
  <2>2. tx[s].set \in BillingSets /\ c \in Cases
    BY <2>1 DEF BillingRequests, BillingSets
  <2>3. billing[c] \in BillingRows
    BY <2>1, <2>2 DEF BillingBacked, UpdateBacked, WorkflowShapes
  <2>4. row \in BillingRows
    BY <2>2, <2>3, UpdatedType
  <2>5. /\ billing' = [billing EXCEPT ![c] = row]
        /\ tx' = [tx EXCEPT ![s] = Idle] /\ UNCHANGED <<caseRow, settlement>>
    BY <1>3 DEF CommitUpdateBilling
  <2> QED BY <2>4, <2>5 DEF WorkflowShapes
<1>4. ASSUME NEW s \in Sessions, CommitSettlement(s) PROVE WorkflowShapes'
  <2> DEFINE c == tx[s].case
             row == [case |-> c, amount |-> Round(tx[s].amount), status |-> tx[s].status]
  <2>1. tx[s] \in BillingRequests /\ tx[s].op = "createSettlement"
    BY <1>4 DEF CommitSettlement, WorkflowShapes, WorkflowRequests
  <2>2. row \in SettlementRows /\ c \in Cases
    <3>1. tx[s].amount \in Nat /\ tx[s].status \in SettlementStatuses /\ c \in Cases
      BY <2>1 DEF BillingRequests
    <3>2. Round(tx[s].amount) \in Nat
      BY <3>1, RoundType
    <3> QED BY <3>1, <3>2 DEF SettlementRows
  <2>3. billing[c] \in BillingRows
    BY <2>1, <2>2 DEF BillingBacked, UpdateBacked, WorkflowShapes
  <2>4. [billing[c] EXCEPT !.status = "submitted"] \in BillingRows
    BY <2>3 DEF BillingRows, BillingStatuses
  <2>5. PICK x \in Settlements : settlement' = [settlement EXCEPT ![x] = row]
    BY <1>4 DEF CommitSettlement
  <2>6. /\ billing' = [billing EXCEPT ![c] = [billing[c] EXCEPT !.status = "submitted"]]
        /\ tx' = [tx EXCEPT ![s] = Idle] /\ UNCHANGED caseRow
    BY <1>4 DEF CommitSettlement
  <2> QED BY <2>2, <2>4, <2>5, <2>6 DEF WorkflowShapes
<1>5. ASSUME NEW s \in Sessions, CommitUpdateSettlement(s) PROVE WorkflowShapes'
  <2> DEFINE x == tx[s].id
             c == settlement[x].case
             row == [settlement[x] EXCEPT !.amount = StoredAmount(tx[s].amount, @),
                                          !.status = tx[s].status]
  <2>1. tx[s] \in BillingRequests /\ tx[s].op = "updateSettlement"
    BY <1>5 DEF CommitUpdateSettlement, WorkflowShapes, WorkflowRequests
  <2>2. x \in Settlements /\ tx[s].amount \in InputAmounts /\ tx[s].status \in SettlementStatuses
    BY <2>1 DEF BillingRequests
  <2>3. settlement[x] \in SettlementRows /\ c \in Cases
    BY <2>1, <2>2 DEF BillingBacked, UpdateBacked, WorkflowShapes, SettlementRows
  <2>4. row \in SettlementRows
    <3>1. StoredAmount(tx[s].amount, settlement[x].amount) \in Nat
      BY <2>2, <2>3, RoundType DEF SettlementRows, StoredAmount, InputAmounts
    <3> QED BY <2>2, <2>3, <3>1 DEF SettlementRows
  <2>5. billing[c] \in BillingRows
    BY <2>2, <2>3 DEF BillingBacked, SettlementBacked, WorkflowShapes, SettlementRows
  <2>6. [billing[c] EXCEPT !.status = "settled"] \in BillingRows
    BY <2>5 DEF BillingRows, BillingStatuses
  <2>7. settlement' = [settlement EXCEPT ![x] = row]
    BY <1>5, <2>2, <2>3 DEF CommitUpdateSettlement, WorkflowShapes
  <2>8. \/ billing' = [billing EXCEPT ![c] = [billing[c] EXCEPT !.status = "settled"]]
        \/ UNCHANGED billing
    BY <1>5 DEF CommitUpdateSettlement
  <2>9. tx' = [tx EXCEPT ![s] = Idle] /\ UNCHANGED caseRow
    BY <1>5 DEF CommitUpdateSettlement
  <2> QED BY <2>4, <2>6, <2>7, <2>8, <2>9 DEF WorkflowShapes
<1>6. ASSUME NEW s \in Sessions, CommitTransition(s) PROVE WorkflowShapes'
  <2> DEFINE c == tx[s].case
             to == ToStatus[tx[s].action]
             row == [status |-> to, stamps |-> caseRow[c].stamps \cup {to}]
  <2>1. tx[s] \in WorkflowRequests
    BY <1>6 DEF CommitTransition, WorkflowShapes, BillingRequests
  <2>2. c \in Cases /\ to \in CaseStamps /\ to \in CaseStatuses
    BY <2>1, ToStatusType DEF WorkflowRequests, CaseStamps, CaseStatuses
  <2>3. row \in CaseRows
    BY <2>2 DEF CaseRows, WorkflowShapes
  <2>4. caseRow' = [caseRow EXCEPT ![c] = row]
    BY <1>6, <2>2 DEF CommitTransition, WorkflowShapes
  <2>5. tx' = [tx EXCEPT ![s] = Idle] /\ UNCHANGED <<billing, settlement>>
    BY <1>6 DEF CommitTransition, billingVars
  <2> QED BY <2>3, <2>4, <2>5 DEF WorkflowShapes
<1>7. CASE UNCHANGED billingSpecVars
  BY <1>7 DEF billingSpecVars, billingVars, WorkflowShapes
<1> QED BY <1>1, <1>2, <1>3, <1>4, <1>5, <1>6, <1>7
        DEF WorkflowNext, TransitionStep, BillingStep, ReadStep
-------------------------------------------------------------------------------
(* No step takes a timestamp back, deletes a row or moves a settlement to  *)
(* another case.                                                           *)
LEMMA RowsStay ==
  ASSUME WorkflowShapes, BillingBacked, [WorkflowNext]_billingSpecVars
  PROVE  /\ \A c \in Cases : caseRow[c].stamps \subseteq caseRow'[c].stamps
         /\ \A c \in Cases : billing[c] # NoBilling => billing'[c] # NoBilling
         /\ \A x \in Settlements : settlement[x] # NoSettlement =>
              settlement'[x] # NoSettlement /\ settlement'[x].case = settlement[x].case
<1> DEFINE Stay ==
         /\ \A c \in Cases : caseRow[c].stamps \subseteq caseRow'[c].stamps
         /\ \A c \in Cases : billing[c] # NoBilling => billing'[c] # NoBilling
         /\ \A x \in Settlements : settlement[x] # NoSettlement =>
              settlement'[x] # NoSettlement /\ settlement'[x].case = settlement[x].case
<1>0. WorkflowShapes'
  BY OfficeTypeStep
<1>1. ASSUME NEW s \in Sessions, ReadStep(s) PROVE Stay
  BY <1>1, ReadStepType
<1>2. ASSUME NEW s \in Sessions, CommitCreateBilling(s) PROVE Stay
  BY <1>2, <1>0 DEF CommitCreateBilling, UpdatedBilling, WorkflowShapes, BillingRows
<1>3. ASSUME NEW s \in Sessions, CommitUpdateBilling(s) PROVE Stay
  BY <1>3, <1>0 DEF CommitUpdateBilling, UpdatedBilling, WorkflowShapes, BillingRows
<1>4. ASSUME NEW s \in Sessions, CommitSettlement(s) PROVE Stay
  <2>1. tx[s].op = "createSettlement" /\ tx[s] \in BillingRequests
    BY <1>4 DEF CommitSettlement, WorkflowShapes, WorkflowRequests
  <2>2. billing' = [billing EXCEPT ![tx[s].case].status = "submitted"] /\ UNCHANGED caseRow
    BY <1>4 DEF CommitSettlement
  <2>3. tx[s].case \in Cases /\ billing[tx[s].case] # NoBilling
    BY <2>1 DEF BillingRequests, BillingBacked, UpdateBacked
  <2>4. \A c \in Cases : billing[c] # NoBilling => billing'[c] # NoBilling
    BY <2>2, <2>3 DEF WorkflowShapes, BillingRows
  <2>5. PICK x \in Settlements :
          /\ settlement[x] = NoSettlement
          /\ settlement' = [settlement EXCEPT ![x] =
                              [case |-> tx[s].case, amount |-> Round(tx[s].amount),
                               status |-> tx[s].status]]
    BY <1>4 DEF CommitSettlement
  <2>6. \A y \in Settlements \ {x} : settlement'[y] = settlement[y]
    BY <2>5 DEF WorkflowShapes
  <2> QED BY <2>2, <2>4, <2>5, <2>6
<1>5. ASSUME NEW s \in Sessions, CommitUpdateSettlement(s) PROVE Stay
  <2> DEFINE x == tx[s].id
  <2>1. tx[s].op = "updateSettlement" /\ tx[s] \in BillingRequests
    BY <1>5 DEF CommitUpdateSettlement, WorkflowShapes, WorkflowRequests
  <2>2. x \in Settlements /\ settlement[x] \in SettlementRows
    BY <2>1 DEF BillingRequests, BillingBacked, UpdateBacked, WorkflowShapes
  <2>3. /\ settlement' = [settlement EXCEPT ![x].amount = StoredAmount(tx[s].amount, @),
                                           ![x].status = tx[s].status]
        /\ UNCHANGED caseRow
        /\ billing' = IF tx[s].status = "completed"
                        THEN [billing EXCEPT ![settlement[x].case].status = "settled"]
                        ELSE billing
    BY <1>5 DEF CommitUpdateSettlement
  <2>4. /\ settlement'[x].case = settlement[x].case
        /\ settlement'[x] \in SettlementRows \cup {NoSettlement}
        /\ \A y \in Settlements \ {x} : settlement'[y] = settlement[y]
    BY <1>0, <2>2, <2>3 DEF WorkflowShapes, SettlementRows
  <2>5. settlement'[x] # NoSettlement
    BY <2>2, <2>3 DEF WorkflowShapes, SettlementRows
  <2>6. settlement[x].case \in Cases /\ billing[settlement[x].case] # NoBilling
    BY <2>1, <2>2 DEF BillingBacked, UpdateBacked, SettlementBacked, SettlementRows
  <2>7. \A c \in Cases : billing[c] # NoBilling => billing'[c] # NoBilling
    BY <2>3, <2>6 DEF WorkflowShapes, BillingRows
  <2> QED BY <2>2, <2>3, <2>4, <2>5, <2>7
<1>6. ASSUME NEW s \in Sessions, CommitTransition(s) PROVE Stay
  BY <1>6 DEF CommitTransition, WorkflowShapes, CaseRows, billingVars
<1>7. CASE UNCHANGED billingSpecVars
  BY <1>7 DEF billingSpecVars, billingVars
<1> QED BY <1>1, <1>2, <1>3, <1>4, <1>5, <1>6, <1>7
        DEF WorkflowNext, TransitionStep, BillingStep, ReadStep
-------------------------------------------------------------------------------
(* A case row changes in a transition only, which the trail allows.        *)
LEMMA TrailStep ==
  WorkflowInv /\ [WorkflowNext]_billingSpecVars => DecisionTrail' /\ StatusStamped'
<1> SUFFICES ASSUME WorkflowInv, [WorkflowNext]_billingSpecVars
             PROVE  DecisionTrail' /\ StatusStamped'
  OBVIOUS
<1>1. ASSUME NEW s \in Sessions, CommitTransition(s) PROVE DecisionTrail' /\ StatusStamped'
  <2> DEFINE c == tx[s].case
             to == ToStatus[tx[s].action]
  <2>1. tx[s] \in WorkflowRequests /\ tx[s].op = "transition"
    BY <1>1 DEF CommitTransition, WorkflowInv, WorkflowShapes, BillingRequests
  <2>2. c \in Cases /\ Before[to] \subseteq caseRow[c].stamps
    BY <2>1 DEF WorkflowRequests, WorkflowInv, TransitionsBacked
  <2> HIDE DEF to
  <2>3. caseRow' = [caseRow EXCEPT ![c] = [status |-> to, stamps |-> caseRow[c].stamps \cup {to}]]
    BY <1>1, <2>2 DEF CommitTransition, to, WorkflowInv, WorkflowShapes
  <2>4. /\ caseRow'[c] = [status |-> to, stamps |-> caseRow[c].stamps \cup {to}]
        /\ \A d \in Cases \ {c} : caseRow'[d] = caseRow[d]
    BY <2>2, <2>3 DEF WorkflowInv, WorkflowShapes
  <2>5. DecisionTrail'
    BY <2>2, <2>4 DEF WorkflowInv, DecisionTrail
  <2>6. StatusStamped'
    BY <2>4 DEF WorkflowInv, StatusStamped
  <2> QED BY <2>5, <2>6
<1>2. CASE UNCHANGED caseRow
  BY <1>2 DEF WorkflowInv, DecisionTrail, StatusStamped
<1>3. (\E s \in Sessions : CommitTransition(s)) \/ UNCHANGED caseRow
  BY ReadStepType
     DEF WorkflowNext, TransitionStep, BillingStep, ReadStep, CommitCreateBilling,
         CommitUpdateBilling, CommitSettlement, CommitUpdateSettlement, WorkflowInv,
         billingSpecVars
<1> QED BY <1>1, <1>2, <1>3

(* What a session has checked stays true while others commit.              *)
LEMMA KeptBacked ==
  ASSUME WorkflowInv, [WorkflowNext]_billingSpecVars,
         NEW s \in Sessions, tx'[s] = tx[s]
  PROVE  /\ CreationBacked(s)' /\ UpdateBacked(s)'
         /\ tx'[s].op \in {"checkBilling", "checkSettlements", "transition"} =>
              Before[ToStatus[tx'[s].action]] \subseteq caseRow'[tx'[s].case].stamps
<1>1. WorkflowShapes /\ BillingBacked
  BY DEF WorkflowInv
<1>2. \A c \in Cases : /\ caseRow[c].stamps \subseteq caseRow'[c].stamps
                       /\ billing[c] # NoBilling => billing'[c] # NoBilling
  BY <1>1, RowsStay
<1>3. \A x \in Settlements : settlement[x] # NoSettlement => settlement'[x] # NoSettlement
  BY <1>1, RowsStay
<1>4. tx[s].op \in OfficeOps => tx[s] \in WorkflowRequests \cup BillingRequests
  BY <1>1 DEF WorkflowShapes
<1>5. CASE tx[s] \in WorkflowRequests
  <2>1. tx[s].case \in Cases /\ tx[s].op \in {"checkBilling", "checkSettlements", "transition"}
    BY <1>5 DEF WorkflowRequests
  <2>2. Before[ToStatus[tx[s].action]] \subseteq caseRow[tx[s].case].stamps
    BY <2>1 DEF WorkflowInv, TransitionsBacked
  <2> QED BY <1>2, <2>1, <2>2 DEF CreationBacked, UpdateBacked
<1>6. CASE tx[s] \in BillingRequests
  <2>1. /\ tx[s].op \in {"createBilling", "updateBilling", "createSettlement"} => tx[s].case \in Cases
        /\ tx[s].op = "updateSettlement" => tx[s].id \in Settlements
        /\ tx[s].op \notin {"checkBilling", "checkSettlements", "transition"}
    BY <1>6 DEF BillingRequests
  <2>2. CreationBacked(s) /\ UpdateBacked(s)
    BY <1>1 DEF BillingBacked
  <2> QED BY <1>2, <1>3, <2>1, <2>2 DEF CreationBacked, UpdateBacked
<1>7. CASE tx[s].op \notin OfficeOps
  BY <1>7 DEF CreationBacked, UpdateBacked
<1> QED BY <1>4, <1>5, <1>6, <1>7

(* ... and a session that takes a step has just made its check.            *)
LEMMA NewBacked ==
  ASSUME WorkflowInv, NEW s \in Sessions, ReadStep(s)
  PROVE  /\ CreationBacked(s)' /\ UpdateBacked(s)'
         /\ tx'[s].op \in {"checkBilling", "checkSettlements", "transition"} =>
              Before[ToStatus[tx'[s].action]] \subseteq caseRow'[tx'[s].case].stamps
<1> USE DEF Continue, Release, billingVars
<1>1. /\ UNCHANGED <<caseRow, billing, settlement>>
      /\ SessionsRun
      /\ \A t \in Sessions : tx[t].op \in OfficeOps => tx[t] \in WorkflowRequests \cup BillingRequests
  BY ReadStepType DEF WorkflowInv, WorkflowShapes
<1>2. \A c \in Cases : caseRow[c].status \in {"completed", "closed"} =>
        "completed" \in caseRow[c].stamps
  BY DEF WorkflowInv, StatusStamped, DecisionTrail, Before, CaseStamps
<1>3. ASSUME NEW c \in Cases, NEW in \in BillingInputs,
             ReadCaseForBilling(s, c, in) \/ ReadBilling(s, c, in)
      PROVE  /\ tx'[s].op \in {"createBilling", "updateBilling"}
             /\ CreationBacked(s)' /\ UpdateBacked(s)'
  BY <1>1, <1>2, <1>3
     DEF ReadCaseForBilling, ReadBilling, CreationBacked, UpdateBacked, BillingReadyStatuses
<1>4. ASSUME NEW c \in Cases, NEW in \in SettlementInputs, ReadForSettlement(s, c, in)
      PROVE  /\ tx'[s].op = "createSettlement"
             /\ CreationBacked(s)' /\ UpdateBacked(s)'
  BY <1>1, <1>4 DEF ReadForSettlement, CreationBacked, UpdateBacked
<1>5. ASSUME NEW x \in Settlements, NEW in \in SettlementInputs, ReadSettlement(s, x, in)
      PROVE  /\ tx'[s].op = "updateSettlement"
             /\ CreationBacked(s)' /\ UpdateBacked(s)'
  BY <1>1, <1>5 DEF ReadSettlement, CreationBacked, UpdateBacked
<1>6. ASSUME NEW c \in Cases, NEW action \in WorkflowActions, ReadForTransition(s, c, action)
      PROVE  /\ tx'[s].op \in {"checkBilling", "transition"}
             /\ tx'[s].case = c /\ tx'[s].action = action
             /\ Before[ToStatus[action]] \subseteq caseRow[c].stamps
  <2>1. tx'[s].op \in {"checkBilling", "transition"} /\ tx'[s].case = c /\ tx'[s].action = action
    BY <1>1, <1>6 DEF ReadForTransition
  <2>2. /\ caseRow[c].status \in FromStatuses(action)
        /\ action = "close" => "completed" \in caseRow[c].stamps
    BY <1>6 DEF ReadForTransition
  <2>3. /\ action = "submit" => Before[ToStatus[action]] = {}
        /\ action \in {"review", "cancel"} => Before[ToStatus[action]] = {"submitted"}
        /\ action \in {"accept", "reject"} => Before[ToStatus[action]] = {"submitted", "reviewing"}
        /\ action = "close" => Before[ToStatus[action]] = {"completed"}
    BY ToStatusType DEF ToStatus, Before, CaseStamps, WorkflowActions
  <2>4. /\ action = "review" => caseRow[c].status = "submitted"
        /\ action = "cancel" => caseRow[c].status \in {"submitted", "reviewing"}
        /\ action \in {"accept", "reject"} => caseRow[c].status = "reviewing"
    BY <2>2 DEF FromStatuses
  <2>5. /\ caseRow[c].status = "submitted" => "submitted" \in caseRow[c].stamps
        /\ caseRow[c].status = "reviewing" => {"submitted", "reviewing"} \subseteq caseRow[c].stamps
    <3>1. caseRow[c].status \in CaseStamps => caseRow[c].status \in caseRow[c].stamps
      BY DEF WorkflowInv, StatusStamped
    <3>2. "reviewing" \in caseRow[c].stamps => Before["reviewing"] \subseteq caseRow[c].stamps
      BY DEF WorkflowInv, DecisionTrail
    <3>3. Before["reviewing"] = {"submitted"}
      BY DEF Before, CaseStamps
    <3>4. "reviewing" \in CaseStamps /\ "submitted" \in CaseStamps
      BY DEF CaseStamps
    <3> QED BY <3>1, <3>2, <3>3, <3>4
  <2> QED BY <2>1, <2>2, <2>3, <2>4, <2>5 DEF WorkflowActions
<1>7. ASSUME CheckBilling(s) \/ CheckSettlements(s)
      PROVE  /\ tx'[s].op \in {"checkSettlements", "transition"}
             /\ Before[ToStatus[tx'[s].action]] \subseteq caseRow[tx'[s].case].stamps
  <2>1. tx[s] \in WorkflowRequests
    BY <1>1, <1>7 DEF CheckBilling, CheckSettlements, BillingRequests
  <2>2. /\ tx'[s].op \in {"checkSettlements", "transition"}
        /\ tx'[s].case = tx[s].case /\ tx'[s].action = tx[s].action
    BY <1>1, <1>7, <2>1 DEF CheckBilling, CheckSettlements, WorkflowRequests
  <2>3. Before[ToStatus[tx[s].action]] \subseteq caseRow[tx[s].case].stamps
    BY <2>1 DEF WorkflowRequests, WorkflowInv, TransitionsBacked
  <2> QED BY <2>2, <2>3
<1>8. ASSUME RollbackBilling(s) \/ RollbackTransition(s)
      PROVE  tx'[s].op = "idle"
  BY <1>1, <1>8 DEF RollbackBilling, RollbackTransition
<1> QED BY <1>1, <1>3, <1>4, <1>5, <1>6, <1>7, <1>8 DEF ReadStep, CreationBacked, UpdateBacked

(* The checks of every session hold after any step.                        *)
LEMMA OfficeBackedStep ==
  WorkflowInv /\ [WorkflowNext]_billingSpecVars => TransitionsBacked' /\ BillingBacked'
<1> SUFFICES ASSUME WorkflowInv, [WorkflowNext]_billingSpecVars
             PROVE  TransitionsBacked' /\ BillingBacked'
  OBVIOUS
<1> DEFINE Checked(t) ==
         /\ CreationBacked(t)' /\ UpdateBacked(t)'
         /\ tx'[t].op \in {"checkBilling", "checkSettlements", "transition"} =>
              Before[ToStatus[tx'[t].action]] \subseteq caseRow'[tx'[t].case].stamps
<1>1. WorkflowShapes /\ BillingBacked
  BY DEF WorkflowInv
<1>2. ASSUME NEW s \in Sessions,
             \/ CommitCreateBilling(s) \/ CommitUpdateBilling(s) \/ CommitSettlement(s)
             \/ CommitUpdateSettlement(s) \/ CommitTransition(s)
      PROVE  tx' = [tx EXCEPT ![s] = Idle]
  BY <1>2 DEF CommitCreateBilling, CommitUpdateBilling, CommitSettlement,
              CommitUpdateSettlement, CommitTransition, Release, Continue
<1>3. ASSUME NEW s \in Sessions, ReadStep(s)
      PROVE  \A t \in Sessions : Checked(t)
  <2>1. Checked(s)
    BY <1>3, NewBacked
  <2>2. ASSUME NEW t \in Sessions, t # s PROVE Checked(t)
    <3>1. tx'[t] = tx[t]
      BY <1>1, <1>3, <2>2, ReadStepType DEF WorkflowShapes
    <3> QED BY <3>1, KeptBacked
  <2> QED BY <2>1, <2>2
<1>4. ASSUME NEW s \in Sessions, tx' = [tx EXCEPT ![s] = Idle]
      PROVE  \A t \in Sessions : Checked(t)
  <2>1. Checked(s)
    BY <1>1, <1>4 DEF CreationBacked, UpdateBacked, WorkflowShapes
  <2>2. ASSUME NEW t \in Sessions, t # s PROVE Checked(t)
    <3>1. tx'[t] = tx[t]
      BY <1>1, <1>4, <2>2 DEF WorkflowShapes
    <3> QED BY <3>1, KeptBacked
  <2> QED BY <2>1, <2>2
<1>5. CASE UNCHANGED billingSpecVars
  <2>1. \A t \in Sessions : Checked(t)
    BY <1>5, KeptBacked DEF billingSpecVars
  <2> QED BY <2>1, <1>5, <1>1
          DEF billingSpecVars, billingVars, TransitionsBacked, BillingBacked, SettlementBacked
<1>6. (\A t \in Sessions : Checked(t)) \/ UNCHANGED billingSpecVars
  BY <1>2, <1>3, <1>4 DEF WorkflowNext, TransitionStep, BillingStep, ReadStep
<1>7. ASSUME NEW x \in Settlements PROVE SettlementBacked(x)'
  <2>1. CASE settlement[x] # NoSettlement
    <3>1. settlement'[x].case = settlement[x].case
      BY <1>1, <2>1, RowsStay
    <3>2. settlement[x].case \in Cases
      BY <1>1, <2>1 DEF WorkflowShapes, SettlementRows
    <3> QED BY <1>1, <2>1, <3>1, <3>2, RowsStay DEF BillingBacked, SettlementBacked
  <2>2. ASSUME NEW s \in Sessions, CommitSettlement(s)
        PROVE  SettlementBacked(x)'
    <3>1. tx[s].op = "createSettlement" /\ tx[s] \in BillingRequests
      BY <1>1, <2>2 DEF CommitSettlement, WorkflowShapes, WorkflowRequests
    <3>2. tx[s].case \in Cases /\ billing[tx[s].case] # NoBilling
      BY <1>1, <3>1 DEF BillingRequests, BillingBacked, UpdateBacked
    <3>3. PICK y \in Settlements :
            settlement' = [settlement EXCEPT ![y] =
                            [case |-> tx[s].case, amount |-> Round(tx[s].amount),
                             status |-> tx[s].status]]
      BY <2>2 DEF CommitSettlement
    <3>4. x # y => settlement'[x] = settlement[x]
      BY <3>3
    <3>5. x = y => settlement'[x].case = tx[s].case
      BY <1>1, <3>3 DEF WorkflowShapes
    <3>6. billing'[tx[s].case] # NoBilling
      BY <1>1, <3>2, RowsStay
    <3> QED BY <2>1, <3>4, <3>5, <3>6 DEF SettlementBacked
  <2>3. ASSUME UNCHANGED settlement, settlement[x] = NoSettlement
        PROVE  SettlementBacked(x)'
    BY <2>3 DEF SettlementBacked
  <2>4. ASSUME NEW s \in Sessions, CommitUpdateSettlement(s), settlement[x] = NoSettlement
        PROVE  settlement'[x] = settlement[x]
    <3>1. tx[s].op = "updateSettlement" /\ settlement[tx[s].id] # NoSettlement
      BY <1>1, <2>4 DEF CommitUpdateSettlement, BillingBacked, UpdateBacked
    <3>2. settlement' = [settlement EXCEPT ![tx[s].id].amount = StoredAmount(tx[s].amount, @),
                                           ![tx[s].id].status = tx[s].status]
      BY <2>4 DEF CommitUpdateSettlement
    <3>3. x # tx[s].id
      BY <2>4, <3>1
    <3> QED BY <1>1, <3>2, <3>3 DEF WorkflowShapes
  <2>5. \/ \E s \in Sessions : CommitSettlement(s) \/ CommitUpdateSettlement(s)
        \/ UNCHANGED settlement
    BY <1>1, ReadStepType
       DEF WorkflowNext, TransitionStep, BillingStep, ReadStep, CommitCreateBilling,
           CommitUpdateBilling, CommitTransition, billingSpecVars, billingVars
  <2> QED BY <2>1, <2>2, <2>3, <2>4, <2>5 DEF SettlementBacked
<1> QED BY <1>5, <1>6, <1>7 DEF TransitionsBacked, BillingBacked

(* A billing record appears only through a creation that found the case    *)
(* completed.                                                              *)
LEMMA BilledByCreation ==
  ASSUME WorkflowInv, [WorkflowNext]_billingSpecVars, NEW c \in Cases,
         billing[c] = NoBilling, billing'[c] # NoBilling
  PROVE  \E s \in Sessions : CommitCreateBilling(s) /\ tx[s].case = c
<1>1. WorkflowShapes /\ BillingBacked
  BY DEF WorkflowInv
<1>2. ASSUME NEW s \in Sessions, CommitUpdateBilling(s) PROVE billing'[c] = billing[c]
  BY <1>1, <1>2 DEF CommitUpdateBilling, BillingBacked, UpdateBacked
<1>3. ASSUME NEW s \in Sessions, CommitSettlement(s) PROVE billing'[c] = billing[c]
  BY <1>1, <1>3 DEF CommitSettlement, BillingBacked, UpdateBacked
<1>4. ASSUME NEW s \in Sessions, CommitUpdateSettlement(s) PROVE billing'[c] = billing[c]
  <2>1. tx[s].op = "updateSettlement" /\ tx[s] \in BillingRequests
    BY <1>1, <1>4 DEF CommitUpdateSettlement, WorkflowShapes, WorkflowRequests
  <2>2. billing[settlement[tx[s].id].case] # NoBilling
    BY <1>1, <2>1 DEF BillingRequests, BillingBacked, UpdateBacked, SettlementBacked
  <2> QED BY <1>4, <2>2 DEF CommitUpdateSettlement
<1>5. ASSUME NEW s \in Sessions, CommitCreateBilling(s), tx[s].case # c
      PROVE  billing'[c] = billing[c]
  BY <1>5 DEF CommitCreateBilling
<1>6. \/ \E s \in Sessions : \/ CommitCreateBilling(s) \/ CommitUpdateBilling(s)
                             \/ CommitSettlement(s) \/ CommitUpdateSettlement(s)
      \/ UNCHANGED billing
  BY <1>1, ReadStepType
     DEF WorkflowNext, TransitionStep, BillingStep, ReadStep, CommitTransition,
         billingSpecVars, billingVars
<1> QED BY <1>2, <1>3, <1>4, <1>5, <1>6

LEMMA BilledStep == WorkflowInv /\ [WorkflowNext]_billingSpecVars => BilledWasCompleted'
<1> SUFFICES ASSUME WorkflowInv, [WorkflowNext]_billingSpecVars, NEW c \in Cases,
                    billing'[c] # NoBilling
             PROVE  "completed" \in caseRow'[c].stamps
  BY DEF BilledWasCompleted
<1>1. WorkflowShapes /\ BillingBacked
  BY DEF WorkflowInv
<1>2. caseRow[c].stamps \subseteq caseRow'[c].stamps
  BY <1>1, RowsStay
<1>3. CASE billing[c] # NoBilling
  BY <1>2, <1>3 DEF WorkflowInv, BilledWasCompleted
<1>4. CASE billing[c] = NoBilling
  <2>1. PICK s \in Sessions : CommitCreateBilling(s) /\ tx[s].case = c
    BY <1>4, BilledByCreation
  <2>2. tx[s].op = "createBilling"
    BY <2>1 DEF CommitCreateBilling
  <2> QED BY <1>1, <1>2, <2>1, <2>2 DEF BillingBacked, CreationBacked
<1> QED BY <1>3, <1>4
-------------------------------------------------------------------------------
LEMMA WorkflowInitial == BillingInit => WorkflowInv
<1> SUFFICES ASSUME BillingInit PROVE WorkflowInv
  OBVIOUS
<1>1. WorkflowShapes
  BY CaseStoreAssumption DEF BillingInit, InitCases, WorkflowShapes
<1>2. DecisionTrail /\ StatusStamped
  BY WorkflowAssumption DEF BillingInit, InitCases, DecisionTrail, StatusStamped
<1>3. BilledWasCompleted /\ TransitionsBacked /\ BillingBacked
  BY DEF BillingInit, InitCases, BilledWasCompleted, TransitionsBacked, BillingBacked,
         CreationBacked, UpdateBacked, SettlementBacked
<1> QED BY <1>1, <1>2, <1>3 DEF WorkflowInv

LEMMA WorkflowKept == WorkflowInv /\ [WorkflowNext]_billingSpecVars => WorkflowInv'
BY OfficeTypeStep, TrailStep, OfficeBackedStep, BilledStep DEF WorkflowInv

(* The inductive invariant of interleaved decisions and billing.           *)
THEOREM WorkflowInvariant == WorkflowSpec => []WorkflowInv
BY WorkflowInitial, WorkflowKept, PTL DEF WorkflowSpec

(* What a step is to the other services: it is on a request of this one,   *)
(* and gives cases the statuses of decisions, with their timestamps.       *)
Decided == {"submitted", "reviewing", "accepted", "rejected", "cancelled", "closed"}

LEMMA TransitionWrites ==
  ASSUME WorkflowInv, NEW s \in Sessions, CommitTransition(s)
  PROVE  /\ tx[s] \in WorkflowRequests /\ tx[s].case \in Cases /\ tx[s].action \in WorkflowActions
         /\ ToStatus[tx[s].action] \in Decided
         /\ \A d \in Cases : caseRow'[d] =
              IF d = tx[s].case
                THEN [status |-> ToStatus[tx[s].action],
                      stamps |-> caseRow[d].stamps \cup {ToStatus[tx[s].action]}]
                ELSE caseRow[d]
<1>1. tx[s] \in WorkflowRequests
  BY DEF CommitTransition, WorkflowInv, WorkflowShapes, BillingRequests
<1>2. tx[s].case \in Cases /\ tx[s].action \in WorkflowActions
  BY <1>1 DEF WorkflowRequests
<1>3. ToStatus[tx[s].action] \in Decided
  BY <1>2 DEF ToStatus, WorkflowActions, Decided
<1> QED BY <1>1, <1>2, <1>3 DEF CommitTransition, WorkflowInv, WorkflowShapes

LEMMA WorkflowStepSeen ==
  ASSUME WorkflowInv, NEW s \in Sessions, TransitionStep(s) \/ BillingStep(s)
  PROVE  StepOf(s, OfficeOps) /\ CasesMoved(Decided, Decided)
<1>1. WorkflowShapes /\ caseRow \in [Cases -> CaseRows] /\ WorkflowShapes'
  BY WorkflowKept DEF WorkflowInv, WorkflowShapes, WorkflowNext
<1>2. tx[s] = Idle \/ tx[s].op \in OfficeOps
  BY DEF TransitionStep, BillingStep, ReadCaseForBilling, ReadBilling, ReadForSettlement,
         ReadSettlement, ReadForTransition, CheckBilling, CheckSettlements, RollbackBilling,
         RollbackTransition, CommitCreateBilling, CommitUpdateBilling, CommitSettlement,
         CommitUpdateSettlement, CommitTransition
<1>3. PICK r \in WorkflowRequests \cup BillingRequests \cup {Idle} : tx' = [tx EXCEPT ![s] = r]
  <2>1. CASE ReadStep(s)
    BY <1>1, <2>1, ReadStepType
  <2>2. CASE ~ReadStep(s)
    BY <2>2 DEF TransitionStep, BillingStep, ReadStep, CommitCreateBilling,
         CommitUpdateBilling, CommitSettlement, CommitUpdateSettlement, CommitTransition,
         Release, Continue
  <2> QED BY <2>1, <2>2
<1>4. r = Idle \/ r.op \in OfficeOps
  BY DEF WorkflowRequests, BillingRequests
<1>5. StepOf(s, OfficeOps)
  <2>1. tx'[s] = r
    BY <1>1, <1>3 DEF WorkflowShapes
  <2> QED BY <1>2, <1>3, <1>4, <2>1 DEF StepOf, Moves
<1>6. CASE UNCHANGED caseRow
  BY <1>1, <1>5, <1>6 DEF CasesMoved
<1>7. CASE CommitTransition(s)
  <2>1. caseRow' \in [Cases -> CaseRows]
    BY <1>1 DEF WorkflowShapes
  <2>2. PICK to \in Decided : to = ToStatus[tx[s].action]
    BY <1>7, TransitionWrites
  <2>3. \A d \in Cases : \/ caseRow'[d] = caseRow[d]
                         \/ caseRow'[d] = [status |-> to, stamps |-> caseRow[d].stamps \cup {to}]
    BY <1>7, <2>2, TransitionWrites
  <2> QED BY <1>5, <2>1, <2>3 DEF CasesMoved
<1>8. UNCHANGED caseRow \/ CommitTransition(s)
  BY <1>1, ReadStepType
     DEF TransitionStep, BillingStep, ReadStep, CommitCreateBilling, CommitUpdateBilling,
         CommitSettlement, CommitUpdateSettlement
<1> QED BY <1>6, <1>7, <1>8

(* A step of another service keeps the invariant: it sets no timestamp     *)
(* that another must precede.                                              *)
LEMMA WorkflowUndisturbed ==
  ASSUME WorkflowInv, NEW s \in Sessions, StepElsewhere(s, OfficeOps), UNCHANGED billingVars,
         NEW statuses, NEW stamps, CasesMoved(statuses, stamps), stamps \subseteq {"completed"}
  PROVE  WorkflowInv'
<1>1. /\ WorkflowShapes /\ BillingBacked /\ billing' = billing /\ settlement' = settlement
      /\ tx[s].op \notin OfficeOps /\ tx'[s].op \notin OfficeOps
      /\ \A t \in Sessions \ {s} : tx'[t] = tx[t]
      /\ SessionsRun'
  BY DEF StepElsewhere, Moves, WorkflowInv, WorkflowShapes, billingVars
<1>2. WorkflowShapes'
  BY <1>1 DEF WorkflowShapes, CasesMoved
<1>3. \A c \in Cases : /\ caseRow[c].stamps \subseteq caseRow'[c].stamps
                       /\ caseRow'[c].stamps \subseteq caseRow[c].stamps \cup {"completed"}
  BY DEF CasesMoved
<1>4. DecisionTrail'
  <2>1. Before["completed"] = {}
    BY DEF Before, CaseStamps
  <2> QED BY <1>3, <2>1 DEF WorkflowInv, DecisionTrail
<1>5. BilledWasCompleted'
  BY <1>1, <1>3 DEF WorkflowInv, BilledWasCompleted
<1>6. StatusStamped'
  BY <1>3 DEF WorkflowInv, StatusStamped, CasesMoved
<1>7. ASSUME NEW t \in Sessions, tx'[t].op \in OfficeOps
      PROVE  /\ tx'[t] = tx[t]
             /\ tx[t].op # "updateSettlement" => tx[t].case \in Cases
  <2>1. tx'[t] = tx[t] /\ tx[t] \in WorkflowRequests \cup BillingRequests
    BY <1>1, <1>7 DEF WorkflowShapes
  <2> QED BY <2>1 DEF WorkflowRequests, BillingRequests
<1>8. TransitionsBacked'
  BY <1>3, <1>7 DEF WorkflowInv, TransitionsBacked
<1>9. BillingBacked'
  BY <1>1, <1>3, <1>7 DEF BillingBacked, CreationBacked, UpdateBacked, SettlementBacked
<1> QED BY <1>2, <1>4, <1>5, <1>6, <1>8, <1>9 DEF WorkflowInv

(* Rows and requests in flight keep the column types, totals included.     *)
THEOREM WorkflowTypeCorrect == WorkflowSpec => []WorkflowTypeOK
<1> DEFINE Own == \A s \in Sessions : tx[s] = Idle \/ tx[s].op \in OfficeOps
<1>1. BillingInit => Own
  BY DEF BillingInit, InitCases
<1>2. WorkflowInv /\ Own /\ [WorkflowNext]_billingSpecVars => Own'
  <2> SUFFICES ASSUME WorkflowInv, Own, [WorkflowNext]_billingSpecVars PROVE Own'
    OBVIOUS
  <2>1. CASE WorkflowNext
    <3>1. PICK s \in Sessions : StepOf(s, OfficeOps)
      BY <2>1, WorkflowStepSeen DEF WorkflowNext
    <3>2. \A t \in Sessions \ {s} : tx'[t] = tx[t]
      BY <3>1 DEF StepOf, Moves, WorkflowInv, WorkflowShapes
    <3> QED BY <3>1, <3>2 DEF StepOf
  <2>2. CASE UNCHANGED billingSpecVars
    BY <2>2 DEF billingSpecVars
  <2> QED BY <2>1, <2>2
<1>3. WorkflowInv /\ Own => WorkflowTypeOK
  BY DEF WorkflowInv, WorkflowShapes, WorkflowTypeOK
<1> QED BY <1>1, <1>2, <1>3, WorkflowInvariant, PTL DEF WorkflowSpec

(* However many requests race on a case, its timestamps tell a history the *)
(* table TRANSITIONS allows.                                               *)
THEOREM TrailAlwaysOrdered == WorkflowSpec => []DecisionTrail
<1>1. WorkflowInv => DecisionTrail
  BY DEF WorkflowInv
<1> QED BY WorkflowInvariant, <1>1, PTL
-------------------------------------------------------------------------------
(* The amounts of a request are, but for their rounding, those it was      *)
(* checked with; a COMMIT stores them; a settlement changes no amount.     *)
SameAmounts(row, old) == row.amounts = old.amounts /\ row.total = old.total

NearAmounts(new, old, in) ==
  /\ \A k \in Columns : /\ new.amounts[k] \in Nat
                        /\ Merged(in, old).amounts[k] - Half <= new.amounts[k]
                        /\ new.amounts[k] <= Merged(in, old).amounts[k] + Half
  /\ new.total \in Nat
  /\ CalculateTotal(Merged(in, old)) - Half <= new.total
  /\ new.total <= CalculateTotal(Merged(in, old)) + Half

LEMMA CheckedAmounts ==
  ASSUME NEW in \in BillingInputs, NEW row \in BillingRows,
         NEW total \in StoredTotals(Merged(in, row))
  PROVE  NearAmounts(UpdatedBilling(row, [in EXCEPT !.total = total]), row, in)
<1>1. PICK set : set = [in EXCEPT !.total = total]
  OBVIOUS
<1>2. set.amounts = in.amounts /\ set.total = total
  BY <1>1, BillingInputType
<1>3. /\ UpdatedBilling(row, set).total = total
      /\ \A k \in Columns : UpdatedBilling(row, set).amounts[k]
                              = StoredAmount(in.amounts[k], row.amounts[k])
  BY <1>2 DEF UpdatedBilling
<1>4. row.amounts \in [Columns -> Nat]
  BY DEF BillingRows
<1>5. ASSUME NEW k \in Columns
      PROVE  /\ StoredAmount(in.amounts[k], row.amounts[k]) \in Nat
             /\ Merged(in, row).amounts[k] - Half <= StoredAmount(in.amounts[k], row.amounts[k])
             /\ StoredAmount(in.amounts[k], row.amounts[k]) <= Merged(in, row).amounts[k] + Half
  <2>1. Merged(in, row).amounts[k] = Or(in.amounts[k], row.amounts[k]) /\ row.amounts[k] \in Nat
    BY <1>4, MergedType
  <2>2. CASE in.amounts[k] = Omitted
    BY <2>1, <2>2, HalfType DEF Or, StoredAmount
  <2>3. CASE in.amounts[k] # Omitted
    <3>1. in.amounts[k] \in Nat
      BY <2>3, BillingInputType DEF InputAmounts
    <3> QED BY <2>1, <2>3, <3>1, RoundType DEF Or, StoredAmount
  <2> QED BY <2>2, <2>3
<1> QED BY <1>1, <1>3, <1>5, TotalType DEF NearAmounts

LEMMA RequestedAmounts ==
  ASSUME WorkflowInv, NEW s \in Sessions, TransitionStep(s) \/ BillingStep(s),
         tx'[s].op \in {"createBilling", "updateBilling"}
  PROVE  \E in \in BillingInputs, row \in BillingRows :
           NearAmounts(Storing(s)', row, in) /\ AmountsValid(Merged(in, row))
<1>1. WorkflowShapes /\ Zeros \in BillingRows /\ WorkflowShapes'
  BY ZerosType, WorkflowKept DEF WorkflowInv, WorkflowNext
<1>2. ASSUME NEW c \in Cases, NEW in \in BillingInputs, ReadCaseForBilling(s, c, in)
      PROVE  NearAmounts(Storing(s)', Zeros, in) /\ AmountsValid(Merged(in, Zeros))
  <2>1. PICK total \in StoredTotals(Merged(in, Zeros)) :
          Continue(s, [op |-> "createBilling", case |-> c, set |-> [in EXCEPT !.total = total]])
    BY <1>2 DEF ReadCaseForBilling
  <2>2. PICK set : set = [in EXCEPT !.total = total]
    OBVIOUS
  <2>3. tx' = [tx EXCEPT ![s] = [op |-> "createBilling", case |-> c, set |-> set]]
    BY <2>1, <2>2 DEF Continue
  <2>4. tx'[s].op = "createBilling" /\ tx'[s].set = set
    BY <1>1, <2>3 DEF WorkflowShapes
  <2>5. Storing(s)' = UpdatedBilling(Zeros, set)
    BY <2>4 DEF Storing
  <2> QED BY <1>1, <1>2, <2>2, <2>5, CheckedAmounts DEF ReadCaseForBilling
<1>3. ASSUME NEW c \in Cases, NEW in \in BillingInputs, ReadBilling(s, c, in)
      PROVE  /\ billing[c] \in BillingRows
             /\ NearAmounts(Storing(s)', billing[c], in) /\ AmountsValid(Merged(in, billing[c]))
  <2>1. PICK total \in StoredTotals(Merged(in, billing[c])) :
          Continue(s, [op |-> "updateBilling", case |-> c, set |-> [in EXCEPT !.total = total]])
    BY <1>3 DEF ReadBilling
  <2>2. PICK set : set = [in EXCEPT !.total = total]
    OBVIOUS
  <2>3. /\ tx' = [tx EXCEPT ![s] = [op |-> "updateBilling", case |-> c, set |-> set]]
        /\ billing' = billing /\ billing[c] # NoBilling
    BY <1>3, <2>1, <2>2 DEF ReadBilling, Continue, billingVars
  <2>4. tx'[s].op = "updateBilling" /\ tx'[s].set = set /\ tx'[s].case = c
    BY <1>1, <2>3 DEF WorkflowShapes
  <2>5. Storing(s)' = UpdatedBilling(billing[c], set) /\ billing[c] \in BillingRows
    BY <1>1, <2>3, <2>4 DEF Storing, WorkflowShapes
  <2> QED BY <1>3, <2>2, <2>5, CheckedAmounts DEF ReadBilling
<1>4. ASSUME \/ \E c \in Cases, in \in SettlementInputs : ReadForSettlement(s, c, in)
             \/ \E x \in Settlements, in \in SettlementInputs : ReadSettlement(s, x, in)
             \/ \E c \in Cases, action \in WorkflowActions : ReadForTransition(s, c, action)
      PROVE  FALSE
  BY <1>1, <1>4 DEF ReadForSettlement, ReadSettlement, ReadForTransition, Continue, WorkflowShapes
<1>5. ASSUME CheckBilling(s) \/ CheckSettlements(s) PROVE FALSE
  <2>1. tx[s] \in WorkflowRequests
    BY <1>1, <1>5 DEF CheckBilling, CheckSettlements, WorkflowShapes, BillingRequests
  <2> QED BY <1>1, <1>5, <2>1
          DEF CheckBilling, CheckSettlements, Continue, WorkflowShapes, WorkflowRequests
<1>6. ASSUME Release(s) PROVE FALSE
  BY <1>1, <1>6 DEF Release, Continue, WorkflowShapes
<1>7. \/ \E c \in Cases, in \in BillingInputs : ReadCaseForBilling(s, c, in)
      \/ \E c \in Cases, in \in BillingInputs : ReadBilling(s, c, in)
  BY <1>4, <1>5, <1>6
     DEF TransitionStep, BillingStep, CommitCreateBilling, CommitUpdateBilling, CommitSettlement,
         CommitUpdateSettlement, CommitTransition, RollbackBilling, RollbackTransition
<1> QED BY <1>1, <1>2, <1>3, <1>7

LEMMA StoredAmounts ==
  ASSUME WorkflowInv, NEW s \in Sessions, TransitionStep(s) \/ BillingStep(s),
         NEW c \in Cases, billing'[c] # NoBilling
  PROVE  \/ billing[c] # NoBilling /\ SameAmounts(billing'[c], billing[c])
         \/ /\ tx[s].op \in {"createBilling", "updateBilling"}
            /\ billing'[c] = Storing(s)
<1>1. /\ WorkflowShapes /\ BillingBacked /\ billing \in [Cases -> BillingRows \cup {NoBilling}]
  BY DEF WorkflowInv, WorkflowShapes
<1>2. CASE billing'[c] = billing[c]
  BY <1>2 DEF SameAmounts
<1>3. CASE CommitCreateBilling(s) /\ billing'[c] # billing[c]
  BY <1>1, <1>3 DEF CommitCreateBilling, Storing
<1>4. CASE CommitUpdateBilling(s) /\ billing'[c] # billing[c]
  BY <1>1, <1>4 DEF CommitUpdateBilling, Storing
<1>5. ASSUME NEW d \in Cases, NEW status, billing[d] # NoBilling, billing'[c] # billing[c],
             billing' = [billing EXCEPT ![d].status = status]
      PROVE  billing[c] # NoBilling /\ SameAmounts(billing'[c], billing[c])
  <2>1. c = d
    BY <1>1, <1>5
  <2>2. billing[c] \in BillingRows
    BY <1>1, <1>5, <2>1
  <2>3. billing'[c] = [billing[c] EXCEPT !.status = status]
    BY <1>1, <1>5, <2>1
  <2> QED BY <1>5, <2>1, <2>2, <2>3 DEF SameAmounts, BillingRows
<1>6. CASE CommitSettlement(s) /\ billing'[c] # billing[c]
  <2>1. tx[s].op = "createSettlement" /\ tx[s] \in BillingRequests
    BY <1>1, <1>6 DEF CommitSettlement, WorkflowShapes, WorkflowRequests
  <2>2. tx[s].case \in Cases /\ billing[tx[s].case] # NoBilling
    BY <1>1, <2>1 DEF BillingRequests, BillingBacked, UpdateBacked
  <2> QED BY <1>5, <1>6, <2>2 DEF CommitSettlement
<1>7. CASE CommitUpdateSettlement(s) /\ billing'[c] # billing[c]
  <2>1. tx[s].op = "updateSettlement" /\ tx[s] \in BillingRequests
    BY <1>1, <1>7 DEF CommitUpdateSettlement, WorkflowShapes, WorkflowRequests
  <2>2. tx[s].id \in Settlements /\ settlement[tx[s].id] # NoSettlement
    BY <1>1, <2>1 DEF BillingRequests, BillingBacked, UpdateBacked
  <2>3. settlement[tx[s].id].case \in Cases /\ billing[settlement[tx[s].id].case] # NoBilling
    BY <1>1, <2>2 DEF BillingBacked, SettlementBacked, WorkflowShapes, SettlementRows
  <2>4. billing' = [billing EXCEPT ![settlement[tx[s].id].case].status = "settled"]
    BY <1>7 DEF CommitUpdateSettlement
  <2> QED BY <1>5, <1>7, <2>3, <2>4
<1>8. CASE ReadStep(s) \/ CommitTransition(s)
  BY <1>1, <1>2, <1>8, ReadStepType DEF CommitTransition, billingVars
<1> QED BY <1>2, <1>3, <1>4, <1>6, <1>7, <1>8 DEF TransitionStep, BillingStep, ReadStep

LEMMA BillingSerialKept ==
  ASSUME OneSession, WorkflowInv, BillingSerial, NEW s \in Sessions,
         TransitionStep(s) \/ BillingStep(s)
  PROVE  BillingSerial'
<1>1. \A t \in Sessions : t = s
  BY DEF OneSession
<1>2. ASSUME NEW c \in Cases, billing'[c] # NoBilling
      PROVE  Sources(billing'[c].amounts) <= billing'[c].total + 4 * Half
  BY <1>2, StoredAmounts DEF BillingSerial, ChargeNearTotal, SameAmounts
<1>3. ASSUME tx'[s].op \in {"createBilling", "updateBilling"}
      PROVE  Sources(Storing(s)'.amounts) <= Storing(s)'.total + 4 * Half
  <2>1. PICK in \in BillingInputs, row \in BillingRows :
          NearAmounts(Storing(s)', row, in) /\ AmountsValid(Merged(in, row))
    BY <1>3, RequestedAmounts
  <2>2. Merged(in, row).amounts \in [Columns -> Nat]
    BY MergedType
  <2>3. /\ Sources(Merged(in, row).amounts) \in Nat
        /\ Sources(Storing(s)'.amounts) <= Sources(Merged(in, row).amounts) + 3 * Half
        /\ Sources(Storing(s)'.amounts) \in Nat
    BY <2>1, <2>2, HalfType DEF NearAmounts, Sources, Columns, SourceColumns
  <2>4. /\ Sources(Merged(in, row).amounts) <= CalculateTotal(Merged(in, row))
        /\ CalculateTotal(Merged(in, row)) \in Nat
    BY <2>1, TotalOfMerged DEF AmountsValid
  <2> QED BY <2>1, <2>3, <2>4, HalfType DEF NearAmounts
<1> QED BY <1>1, <1>2, <1>3 DEF BillingSerial, ChargeNearTotal

NoTotals == \A in \in BillingInputs : in.total = Omitted

LEMMA SumSerialKept ==
  ASSUME OneSession, NoTotals, WorkflowInv, SumSerial, NEW s \in Sessions,
         TransitionStep(s) \/ BillingStep(s)
  PROVE  SumSerial'
<1>1. \A t \in Sessions : t = s
  BY DEF OneSession
<1>2. ASSUME NEW c \in Cases, billing'[c] # NoBilling
      PROVE  NearSum(billing'[c])
  BY <1>2, StoredAmounts DEF SumSerial, TotalNearSum, SameAmounts, NearSum
<1>3. ASSUME tx'[s].op \in {"createBilling", "updateBilling"}
      PROVE  NearSum(Storing(s)')
  <2>1. PICK in \in BillingInputs, row \in BillingRows : NearAmounts(Storing(s)', row, in)
    BY <1>3, RequestedAmounts
  <2>2. Merged(in, row).amounts \in [Columns -> Nat]
    BY MergedType
  <2>3. /\ Base(Merged(in, row).amounts) \in Nat /\ Base(Storing(s)'.amounts) \in Nat
        /\ Base(Storing(s)'.amounts) <= Base(Merged(in, row).amounts) + 4 * Half
        /\ Base(Merged(in, row).amounts) - 4 * Half <= Base(Storing(s)'.amounts)
    BY <2>1, <2>2, HalfType DEF NearAmounts, Base, Columns, BaseColumns
  <2>4. CalculateTotal(Merged(in, row)) = Base(Merged(in, row).amounts)
    BY MergedType DEF NoTotals, CalculateTotal, Or
  <2> QED BY <2>1, <2>3, <2>4, HalfType DEF NearAmounts, NearSum
<1> QED BY <1>1, <1>2, <1>3 DEF SumSerial, TotalNearSum

LEMMA AmountsUndisturbed ==
  ASSUME OneSession, NEW s \in Sessions, StepElsewhere(s, OfficeOps), UNCHANGED billingVars
  PROVE  (BillingSerial => BillingSerial') /\ (SumSerial => SumSerial')
<1>1. /\ \A t \in Sessions : tx'[t].op \notin {"createBilling", "updateBilling"}
      /\ billing' = billing
  BY DEF StepElsewhere, OneSession, billingVars
<1> QED BY <1>1 DEF BillingSerial, ChargeNearTotal, SumSerial, TotalNearSum
-------------------------------------------------------------------------------
(* With one session a transition finds the status it was checked against,  *)
(* and a close what it required of billing.                                *)
LEMMA TransitionsSerialKept ==
  ASSUME OneSession, WorkflowInv, TransitionsSerial, NEW s \in Sessions,
         TransitionStep(s) \/ BillingStep(s)
  PROVE  TransitionsSerial'
<1>1. /\ WorkflowShapes /\ BillingBacked /\ \A t \in Sessions : t = s
      /\ WorkflowShapes'
  BY WorkflowKept DEF OneSession, WorkflowInv, WorkflowNext
<1>2. ASSUME tx'[s].op \notin {"checkBilling", "checkSettlements", "transition"}
      PROVE  TransitionsSerial'
  BY <1>1, <1>2 DEF TransitionsSerial
<1>3. ASSUME NEW c \in Cases, NEW action \in WorkflowActions, ReadForTransition(s, c, action)
      PROVE  TransitionsSerial'
  <2>1. PICK op : /\ op = IF action = "close" THEN "checkBilling" ELSE "transition"
                  /\ tx' = [tx EXCEPT ![s] = [op |-> op, case |-> c, action |-> action]]
    BY <1>3 DEF ReadForTransition, Continue
  <2>2. tx'[s] = [op |-> op, case |-> c, action |-> action] /\ caseRow' = caseRow
    BY <1>1, <1>3, <2>1 DEF WorkflowShapes, ReadForTransition
  <2>3. op # "checkSettlements" /\ (op = "transition" => action # "close")
    BY <2>1
  <2> QED BY <1>1, <1>3, <2>2, <2>3 DEF ReadForTransition, TransitionsSerial
<1>4. ASSUME CheckBilling(s) \/ CheckSettlements(s) PROVE TransitionsSerial'
  <2>1. tx[s] \in WorkflowRequests /\ tx[s].op \in {"checkBilling", "checkSettlements"}
    BY <1>1, <1>4 DEF CheckBilling, CheckSettlements, WorkflowShapes, BillingRequests
  <2>2. PICK op \in {"checkSettlements", "transition"} : tx'[s] = [tx[s] EXCEPT !.op = op]
    BY <1>1, <1>4 DEF CheckBilling, CheckSettlements, Continue, WorkflowShapes
  <2>3. /\ tx'[s].op = op /\ tx'[s].case = tx[s].case /\ tx'[s].action = tx[s].action
        /\ tx[s].case \in Cases
    BY <2>1, <2>2 DEF WorkflowRequests
  <2>4. UNCHANGED <<caseRow, billing, settlement>>
    BY <1>4 DEF CheckBilling, CheckSettlements, billingVars
  <2>5. caseRow'[tx[s].case].status \in FromStatuses(tx[s].action)
    BY <2>1, <2>4 DEF TransitionsSerial
  <2>6. CASE CheckBilling(s)
    <3>1. \/ billing[tx[s].case] = NoBilling /\ op = "transition"
          \/ billing[tx[s].case].status \in BillingCloseReady /\ op = "checkSettlements"
      <4>1. /\ [tx[s] EXCEPT !.op = "transition"].op = "transition"
            /\ [tx[s] EXCEPT !.op = "checkSettlements"].op = "checkSettlements"
        BY <2>1 DEF WorkflowRequests
      <4>2. \/ billing[tx[s].case] = NoBilling /\ tx'[s] = [tx[s] EXCEPT !.op = "transition"]
            \/ /\ billing[tx[s].case].status \in BillingCloseReady
               /\ tx'[s] = [tx[s] EXCEPT !.op = "checkSettlements"]
        BY <1>1, <2>6 DEF CheckBilling, Continue, WorkflowShapes
      <4> QED BY <2>3, <4>1, <4>2
    <3>2. billing[tx[s].case] = NoBilling => ReadyToClose(tx[s].case)
      BY <1>1 DEF ReadyToClose, OpenSettlements, BillingBacked, SettlementBacked
    <3>3. ASSUME NEW c \in Cases, c = tx[s].case, op = "transition" PROVE ReadyToClose(c)'
      BY <2>4, <3>1, <3>2, <3>3 DEF ReadyToClose, OpenSettlements
    <3>4. op = "transition" => ReadyToClose(tx[s].case)'
      BY <2>3, <3>3
    <3> QED BY <1>1, <2>3, <2>4, <2>5, <3>1, <3>4 DEF TransitionsSerial
  <2>7. CASE CheckSettlements(s)
    <3>1. op = "transition"
      <4>1. [tx[s] EXCEPT !.op = "transition"].op = "transition"
        BY <2>1 DEF WorkflowRequests
      <4> QED BY <1>1, <2>3, <2>7, <4>1 DEF CheckSettlements, Continue, WorkflowShapes
    <3>2. ASSUME NEW c \in Cases, c = tx[s].case PROVE ReadyToClose(c)'
      BY <2>4, <2>7, <3>2 DEF CheckSettlements, TransitionsSerial, ReadyToClose, OpenSettlements
    <3>3. ReadyToClose(tx[s].case)'
      BY <2>3, <3>2
    <3> QED BY <1>1, <2>3, <2>5, <3>1, <3>3 DEF TransitionsSerial
  <2> QED BY <1>4, <2>6, <2>7
<1>5. ASSUME \/ \E c \in Cases, in \in BillingInputs :
                  ReadCaseForBilling(s, c, in) \/ ReadBilling(s, c, in)
             \/ \E c \in Cases, in \in SettlementInputs : ReadForSettlement(s, c, in)
             \/ \E x \in Settlements, in \in SettlementInputs : ReadSettlement(s, x, in)
             \/ Release(s)
      PROVE  tx'[s].op \notin {"checkBilling", "checkSettlements", "transition"}
  BY <1>1, <1>5 DEF ReadCaseForBilling, ReadBilling, ReadForSettlement, ReadSettlement,
                    Release, Continue, WorkflowShapes
<1> QED BY <1>2, <1>3, <1>4, <1>5
     DEF TransitionStep, BillingStep, CommitCreateBilling, CommitUpdateBilling, CommitSettlement,
         CommitUpdateSettlement, CommitTransition, RollbackBilling, RollbackTransition

LEMMA TransitionsUndisturbed ==
  ASSUME OneSession, NEW s \in Sessions, StepElsewhere(s, OfficeOps)
  PROVE  TransitionsSerial'
<1>1. \A t \in Sessions : tx'[t].op \notin {"checkBilling", "checkSettlements", "transition"}
  BY DEF StepElsewhere, OneSession
<1> QED BY <1>1 DEF TransitionsSerial

(* What such a transition writes.                                          *)
LEMMA SerialTransition ==
  ASSUME WorkflowInv, TransitionsSerial, NEW s \in Sessions,
         TransitionStep(s) \/ BillingStep(s), caseRow' # caseRow
  PROVE  \E action \in WorkflowActions :
           /\ caseRow[tx[s].case].status \in FromStatuses(action) /\ tx[s].case \in Cases
           /\ action = "close" => ReadyToClose(tx[s].case)
           /\ \A d \in Cases : caseRow'[d] =
                IF d = tx[s].case
                  THEN [status |-> ToStatus[action], stamps |-> caseRow[d].stamps \cup {ToStatus[action]}]
                  ELSE caseRow[d]
<1>1. CommitTransition(s)
  BY ReadStepType
     DEF WorkflowInv, TransitionStep, BillingStep, ReadStep, CommitCreateBilling,
         CommitUpdateBilling, CommitSettlement, CommitUpdateSettlement
<1>2. PICK action \in WorkflowActions : action = tx[s].action
  BY <1>1, TransitionWrites
<1> QED BY <1>1, <1>2, TransitionWrites DEF CommitTransition, TransitionsSerial

LEMMA DecisionsKept ==
  ASSUME WorkflowInv, TransitionsSerial, CasesDecidedOnce, NEW s \in Sessions,
         TransitionStep(s) \/ BillingStep(s)
  PROVE  CasesDecidedOnce'
<1>1. CASE caseRow' = caseRow
  BY <1>1 DEF CasesDecidedOnce, DecidedOnce
<1>2. CASE caseRow' # caseRow
  <2>1. PICK action \in WorkflowActions :
           /\ caseRow[tx[s].case].status \in FromStatuses(action) /\ tx[s].case \in Cases
           /\ \A d \in Cases : caseRow'[d] =
                IF d = tx[s].case
                  THEN [status |-> ToStatus[action], stamps |-> caseRow[d].stamps \cup {ToStatus[action]}]
                  ELSE caseRow[d]
    BY <1>2, SerialTransition
  <2>2. /\ action # "close" => caseRow[tx[s].case].status \in Undecided
        /\ action \in {"submit", "review", "close"} => ToStatus[action] \notin Decisions
        /\ action \in {"accept", "reject", "cancel", "close"} => ToStatus[action] \notin Undecided
    BY <2>1 DEF FromStatuses, Undecided, ToStatus, WorkflowActions, Decisions
  <2>3. ASSUME NEW d \in Cases PROVE DecidedOnce(caseRow'[d])
    <3>1. CASE d # tx[s].case
      BY <2>1, <3>1 DEF CasesDecidedOnce
    <3>2. CASE d = tx[s].case
      <4>1. DecidedOnce(caseRow[d])
        BY DEF CasesDecidedOnce
      <4>2. /\ caseRow'[d].status = ToStatus[action]
            /\ caseRow'[d].stamps = caseRow[d].stamps \cup {ToStatus[action]}
        <5>1. PICK to : to = ToStatus[action]
          OBVIOUS
        <5>2. caseRow'[d] = [status |-> to, stamps |-> caseRow[d].stamps \cup {to}]
          BY <2>1, <3>2, <5>1
        <5> QED BY <5>1, <5>2
      <4>3. CASE action \in {"submit", "review", "close"}
        <5>1. caseRow'[d].stamps \cap Decisions = caseRow[d].stamps \cap Decisions
          BY <2>2, <4>2, <4>3
        <5> QED BY <2>2, <3>2, <4>1, <4>2, <4>3, <5>1 DEF DecidedOnce
      <4>4. CASE action \in {"accept", "reject", "cancel"}
        <5>1. caseRow[d].stamps \cap Decisions = {}
          BY <2>2, <3>2, <4>1, <4>4 DEF DecidedOnce
        <5> QED BY <2>2, <4>2, <4>4, <5>1 DEF DecidedOnce
      <4> QED BY <4>3, <4>4 DEF WorkflowActions
    <3> QED BY <3>1, <3>2
  <2> QED BY <2>3 DEF CasesDecidedOnce
<1> QED BY <1>1, <1>2

LEMMA DecisionsUndisturbed ==
  ASSUME CasesDecidedOnce, NEW statuses, NEW stamps, CasesMoved(statuses, stamps),
         statuses \cap Undecided = {}, stamps \cap Decisions = {}
  PROVE  CasesDecidedOnce'
<1> SUFFICES ASSUME NEW c \in Cases PROVE DecidedOnce(caseRow'[c])
  BY DEF CasesDecidedOnce
<1>1. caseRow'[c].stamps \cap Decisions = caseRow[c].stamps \cap Decisions
  BY DEF CasesMoved
<1>2. caseRow'[c].status \in Undecided => caseRow'[c].status = caseRow[c].status
  BY DEF CasesMoved
<1> QED BY <1>1, <1>2 DEF CasesDecidedOnce, DecidedOnce

LEMMA DecidedOnceMeansOne == CasesDecidedOnce => OneDecision
<1> SUFFICES ASSUME CasesDecidedOnce, NEW c \in Cases
             PROVE  Cardinality(caseRow[c].stamps \cap Decisions) <= 1
  BY DEF OneDecision, Decisions
<1>1. CASE caseRow[c].stamps \cap Decisions = {}
  BY <1>1, FS_EmptySet
<1>2. CASE caseRow[c].stamps \cap Decisions # {}
  <2>1. PICK d : caseRow[c].stamps \cap Decisions = {d}
    BY <1>2 DEF CasesDecidedOnce, DecidedOnce
  <2> QED BY <2>1, FS_Singleton
<1> QED BY <1>1, <1>2

LEMMA CloseStep ==
  ASSUME WorkflowInv, TransitionsSerial, NEW s \in Sessions,
         TransitionStep(s) \/ BillingStep(s),
         NEW c \in Cases, caseRow'[c] # caseRow[c], caseRow'[c].status = "closed"
  PROVE  ReadyToClose(c) /\ caseRow[c].status = "completed"
<1>1. PICK action \in WorkflowActions :
         /\ caseRow[tx[s].case].status \in FromStatuses(action)
         /\ action = "close" => ReadyToClose(tx[s].case)
         /\ \A d \in Cases : caseRow'[d] =
              IF d = tx[s].case
                THEN [status |-> ToStatus[action], stamps |-> caseRow[d].stamps \cup {ToStatus[action]}]
                ELSE caseRow[d]
  BY SerialTransition
<1>2. c = tx[s].case /\ ToStatus[action] = "closed"
  <2>1. PICK to : to = ToStatus[action]
    OBVIOUS
  <2>2. c = tx[s].case /\ caseRow'[c] = [status |-> to, stamps |-> caseRow[c].stamps \cup {to}]
    BY <1>1, <2>1
  <2> QED BY <2>1, <2>2
<1>3. action = "close"
  BY <1>2 DEF ToStatus, WorkflowActions
<1> QED BY <1>1, <1>2, <1>3 DEF FromStatuses
===============================================================================
