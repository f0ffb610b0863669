-------------------------- MODULE CaseLifecycle_proofs --------------------------
(***************************************************************************)
(* Theorems of CaseLifecycle: the services of a case keep each their own   *)
(* invariant beside all the others, for any number of cases, sessions,     *)
(* appointments, parts, settlements and assignments and any request        *)
(* bodies.  What a service has to know of a step of another is that it is  *)
(* on a request of other operations, which statuses it gives to cases, and *)
(* which timestamps (StepElsewhere and CasesMoved).                        *)
(*                                                                         *)
(* The later half is about one session, where no request overlaps another  *)
(* one.                                                                    *)
(***************************************************************************)
EXTENDS CaseLifecycle, ServiceReports_proofs, Office_proofs, TLAPS

(* completed_at is written by the completion of a report only: a case that *)
(* has no report yet was not completed.                                    *)
NoneCompleted == \A row \in InitialCases : "completed" \notin row.stamps

LEMMA OpsApart ==
  /\ AppointmentOps \cap ReportOps = {} /\ AppointmentOps \cap PartOps = {}
  /\ AppointmentOps \cap OfficeOps = {} /\ AppointmentOps \cap DispatchOps = {}
  /\ ReportOps \cap PartOps = {} /\ ReportOps \cap OfficeOps = {}
  /\ ReportOps \cap DispatchOps = {} /\ PartOps \cap OfficeOps = {}
  /\ PartOps \cap DispatchOps = {} /\ OfficeOps \cap DispatchOps = {}
  /\ "idle" \notin AppointmentOps \cup ReportOps \cup PartOps \cup OfficeOps \cup DispatchOps
BY DEF AppointmentOps, ReportOps, PartOps, OfficeOps, DispatchOps

LEMMA ServicesShapes ==
  ServicesInv => /\ SessionsRun /\ caseRow \in [Cases -> CaseRows]
                 /\ ReportShapes
BY DEF ServicesInv, ReportsInv, ReportShapes

LEMMA NothingMoved ==
  ASSUME caseRow \in [Cases -> CaseRows], caseRow' = caseRow
  PROVE  CasesMoved({}, {})
BY DEF CasesMoved
-------------------------------------------------------------------------------
(* A step of one service, and the invariants of all.                       *)
LEMMA VisitStep ==
  ASSUME ServicesInv, NEW s \in Sessions, AppointmentStep(s),
         UNCHANGED <<reportVars, part, billingVars, dispatchVars>>
  PROVE  /\ ServicesInv' /\ CasesMoved({"scheduled"}, {})
         /\ OneSession /\ ServicesSerial => ServicesSerial'
<1>1. StepOf(s, AppointmentOps) /\ CasesMoved({"scheduled"}, {})
  BY AppointmentStepSeen DEF ServicesInv
<1>2. /\ StepElsewhere(s, PartOps) /\ StepElsewhere(s, OfficeOps)
      /\ StepElsewhere(s, DispatchOps)
  BY <1>1, OpsApart, SeenElsewhere
<1>3. AppointmentsInv' /\ ReportsInv'
  BY AppointmentsKept, AppointmentStepKeepsInvariant DEF ServicesInv, AppointmentsNext
<1>4. PartsInv'
  BY <1>2, ServicesShapes, PartsUndisturbed DEF ServicesInv
<1>5. WorkflowInv'
  BY <1>1, <1>2, WorkflowUndisturbed DEF ServicesInv
<1>6. DispatchInv'
  BY <1>1, <1>2, DispatchUndisturbed DEF ServicesInv
<1>7. ASSUME OneSession, ServicesSerial PROVE ServicesSerial'
  <2>1. AppointmentsSerial' /\ ReportsSerial'
    BY <1>7, AppointmentsSerialKept, AppointmentStepSerial DEF ServicesInv, ServicesSerial
  <2>2. PartsSerial' /\ TransitionsSerial' /\ BillingSerial'
    BY <1>2, <1>7, PartsSerialUndisturbed, TransitionsUndisturbed, AmountsUndisturbed
    DEF ServicesSerial
  <2>3. DispatchSerial'
    BY <1>1, <1>2, <1>7, DispatchSerialUndisturbed DEF ServicesInv, ServicesSerial
  <2> QED BY <2>1, <2>2, <2>3 DEF ServicesSerial
<1> QED BY <1>1, <1>3, <1>4, <1>5, <1>6, <1>7 DEF ServicesInv

LEMMA OnSiteStep ==
  ASSUME ServicesInv, NEW s \in Sessions, ReportStep(s),
         UNCHANGED <<part, billingVars, dispatchVars>>
  PROVE  /\ ServicesInv' /\ CasesMoved({"on_site", "completed"}, {"completed"})
         /\ OneSession /\ ServicesSerial => ServicesSerial'
<1>1. StepOf(s, ReportOps) /\ CasesMoved({"on_site", "completed"}, {"completed"})
  BY ReportStepSeen DEF ServicesInv
<1>2. /\ StepElsewhere(s, AppointmentOps) /\ StepElsewhere(s, PartOps)
      /\ StepElsewhere(s, OfficeOps) /\ StepElsewhere(s, DispatchOps)
  BY <1>1, OpsApart, SeenElsewhere
<1>3. UNCHANGED appt /\ caseRow' \in [Cases -> CaseRows]
  BY <1>1 DEF ReportStep, Proceed, Wait, ReadCaseForReport, ReadReport, RequestCompletion,
              CheckFinal, LockReport, ChooseFinal, CommitCreateReport, CommitUpdateReport,
              CommitCompletion, FailReport, RollbackReport, CasesMoved
<1>4. AppointmentsInv' /\ ReportsInv'
  BY <1>2, <1>3, AppointmentsUndisturbed, ReportStepKeepsInvariant DEF ServicesInv
<1>5. PartsInv'
  BY <1>2, ServicesShapes, PartsUndisturbed DEF ServicesInv
<1>6. WorkflowInv'
  BY <1>1, <1>2, WorkflowUndisturbed DEF ServicesInv
<1>7. DispatchInv'
  BY <1>1, <1>2, DispatchUndisturbed DEF ServicesInv
<1>8. ASSUME OneSession, ServicesSerial PROVE ServicesSerial'
  <2>1. AppointmentsSerial' /\ ReportsSerial'
    BY <1>2, <1>3, <1>8, AppointmentsSerialUndisturbed, ReportStepSerial
    DEF ServicesInv, ServicesSerial
  <2>2. PartsSerial' /\ TransitionsSerial' /\ BillingSerial'
    BY <1>2, <1>8, PartsSerialUndisturbed, TransitionsUndisturbed, AmountsUndisturbed
    DEF ServicesSerial
  <2>3. DispatchSerial'
    BY <1>1, <1>2, <1>8, DispatchSerialUndisturbed DEF ServicesInv, ServicesSerial
  <2> QED BY <2>1, <2>2, <2>3 DEF ServicesSerial
<1> QED BY <1>1, <1>4, <1>5, <1>6, <1>7, <1>8 DEF ServicesInv

LEMMA PartsStep ==
  ASSUME ServicesInv, NEW s \in Sessions, PartStep(s), UNCHANGED <<billingVars, dispatchVars>>
  PROVE  /\ ServicesInv' /\ caseRow' = caseRow
         /\ OneSession /\ ServicesSerial => ServicesSerial'
<1>1. PartsInv' /\ StepOf(s, PartOps) /\ UNCHANGED <<caseRow, appt, reportVars>>
  BY ServicesShapes, PartStepSeen DEF ServicesInv
<1>2. /\ StepElsewhere(s, AppointmentOps) /\ StepElsewhere(s, ReportOps)
      /\ StepElsewhere(s, OfficeOps) /\ StepElsewhere(s, DispatchOps)
      /\ StepElsewhere(s, AppointmentOps \cup ReportOps)
  BY <1>1, OpsApart, SeenElsewhere
<1>3. CasesMoved({}, {}) /\ caseRow' \in [Cases -> CaseRows]
  BY <1>1, ServicesShapes, NothingMoved
<1>4. AppointmentsInv' /\ ReportsInv'
  BY <1>1, <1>2, <1>3, AppointmentsUndisturbed, ReportsUndisturbed DEF ServicesInv
<1>5. WorkflowInv'
  BY <1>2, <1>3, WorkflowUndisturbed DEF ServicesInv
<1>6. DispatchInv'
  BY <1>2, <1>3, DispatchUndisturbed DEF ServicesInv
<1>7. ASSUME OneSession, ServicesSerial PROVE ServicesSerial'
  <2>1. AppointmentsSerial' /\ ReportsSerial'
    BY <1>1, <1>2, <1>7, AppointmentsSerialUndisturbed, ReportsSerialUndisturbed
    DEF ServicesSerial
  <2>2. PartsSerial'
    BY <1>7, ServicesShapes, PartsSerialKept DEF ServicesInv, ServicesSerial
  <2>3. TransitionsSerial' /\ BillingSerial'
    BY <1>2, <1>7, TransitionsUndisturbed, AmountsUndisturbed DEF ServicesSerial
  <2>4. DispatchSerial'
    BY <1>2, <1>3, <1>7, DispatchSerialUndisturbed DEF ServicesInv, ServicesSerial
  <2> QED BY <2>1, <2>2, <2>3, <2>4 DEF ServicesSerial
<1> QED BY <1>1, <1>4, <1>5, <1>6, <1>7 DEF ServicesInv

LEMMA DecisionStep ==
  ASSUME ServicesInv, NEW s \in Sessions, OfficeStep(s),
         UNCHANGED <<appt, reportVars, part, dispatchVars>>
  PROVE  /\ ServicesInv' /\ CasesMoved(Decided, Decided)
         /\ OneSession /\ ServicesSerial => ServicesSerial'
<1>1. StepOf(s, OfficeOps) /\ CasesMoved(Decided, Decided) /\ caseRow' \in [Cases -> CaseRows]
  BY WorkflowStepSeen DEF ServicesInv, OfficeStep, CasesMoved
<1>2. /\ StepElsewhere(s, AppointmentOps) /\ StepElsewhere(s, ReportOps)
      /\ StepElsewhere(s, PartOps) /\ StepElsewhere(s, DispatchOps)
      /\ StepElsewhere(s, AppointmentOps \cup ReportOps)
  BY <1>1, OpsApart, SeenElsewhere
<1>3. AppointmentsInv' /\ ReportsInv'
  BY <1>1, <1>2, AppointmentsUndisturbed, ReportsUndisturbed DEF ServicesInv
<1>4. PartsInv'
  BY <1>2, ServicesShapes, PartsUndisturbed DEF ServicesInv
<1>5. WorkflowInv'
  BY WorkflowKept DEF ServicesInv, WorkflowNext, OfficeStep
<1>6. DispatchInv'
  BY <1>1, <1>2, DispatchUndisturbed DEF ServicesInv, Decided
<1>7. ASSUME OneSession, ServicesSerial PROVE ServicesSerial'
  <2>1. AppointmentsSerial' /\ ReportsSerial' /\ PartsSerial'
    BY <1>2, <1>7, AppointmentsSerialUndisturbed, ReportsSerialUndisturbed,
       PartsSerialUndisturbed DEF ServicesSerial
  <2>2. TransitionsSerial' /\ BillingSerial'
    BY <1>7, TransitionsSerialKept, BillingSerialKept DEF ServicesInv, ServicesSerial, OfficeStep
  <2>3. Decided \cap {"dispatch_pending", "assigned"} = {}
    BY DEF Decided
  <2>4. DispatchSerial'
    BY <1>1, <1>2, <1>7, <2>3, DispatchSerialUndisturbed DEF ServicesInv, ServicesSerial
  <2> QED BY <2>1, <2>2, <2>4 DEF ServicesSerial
<1> QED BY <1>1, <1>3, <1>4, <1>5, <1>6, <1>7 DEF ServicesInv

LEMMA AssignStep ==
  ASSUME ServicesInv, NEW s \in Sessions, DispatchStep(s),
         UNCHANGED <<appt, reportVars, part, billingVars>>
  PROVE  /\ ServicesInv' /\ CasesMoved({"dispatch_pending", "assigned"}, {})
         /\ OneSession /\ ServicesSerial => ServicesSerial'
<1>1. /\ StepOf(s, DispatchOps) /\ CasesMoved({"dispatch_pending", "assigned"}, {})
      /\ caseRow' \in [Cases -> CaseRows]
  BY DispatchStepSeen DEF ServicesInv, CasesMoved
<1>2. /\ StepElsewhere(s, AppointmentOps) /\ StepElsewhere(s, ReportOps)
      /\ StepElsewhere(s, PartOps) /\ StepElsewhere(s, OfficeOps)
      /\ StepElsewhere(s, AppointmentOps \cup ReportOps)
  BY <1>1, OpsApart, SeenElsewhere
<1>3. AppointmentsInv' /\ ReportsInv'
  BY <1>1, <1>2, AppointmentsUndisturbed, ReportsUndisturbed DEF ServicesInv
<1>4. PartsInv'
  BY <1>2, ServicesShapes, PartsUndisturbed DEF ServicesInv
<1>5. WorkflowInv'
  BY <1>1, <1>2, WorkflowUndisturbed DEF ServicesInv
<1>6. DispatchInv'
  BY DispatchStepKeeps DEF ServicesInv
<1>7. ASSUME OneSession, ServicesSerial PROVE ServicesSerial'
  <2>1. AppointmentsSerial' /\ ReportsSerial' /\ PartsSerial'
    BY <1>2, <1>7, AppointmentsSerialUndisturbed, ReportsSerialUndisturbed,
       PartsSerialUndisturbed DEF ServicesSerial
  <2>2. TransitionsSerial' /\ BillingSerial'
    BY <1>2, <1>7, TransitionsUndisturbed, AmountsUndisturbed DEF ServicesSerial
  <2>3. DispatchSerial'
    BY <1>7, DispatchSerialKept DEF ServicesInv, ServicesSerial
  <2> QED BY <2>1, <2>2, <2>3 DEF ServicesSerial
<1> QED BY <1>1, <1>3, <1>4, <1>5, <1>6, <1>7 DEF ServicesInv
-------------------------------------------------------------------------------
(* A report stays, and what a step of its service makes of a case is on    *)
(* site, or completed together with its report.                            *)
LEMMA ReportStays ==
  ASSUME ServicesInv, NEW s \in Sessions, ReportStep(s), NEW c \in Cases, report[c] # NoReport
  PROVE  report'[c] # NoReport
<1>1. report[c] \in ReportRows /\ ReportShapes
  BY ServicesShapes DEF ReportShapes
<1>2. CASE report' = report
  BY <1>2
<1>3. CASE CommitCreateReport(s)
  BY <1>1, <1>3 DEF CommitCreateReport, ReportShapes
<1>4. CASE CommitUpdateReport(s)
  <2>1. tx[s].case \in Cases
    BY <1>1, <1>4, ReportRequestShape DEF CommitUpdateReport, ReportOp
  <2>2. CASE tx[s].case # c
    BY <1>1, <1>4, <2>2 DEF CommitUpdateReport, ReportShapes
  <2>3. CASE tx[s].case = c
    <3>1. report'[c] = Edited(report[c], tx[s].set)
      BY <1>1, <1>4, <2>3 DEF CommitUpdateReport, ReportShapes
    <3>2. /\ tx[s].set.status \in ReportStatuses \cup {"null"}
          /\ tx[s].set.sets => tx[s].set.final \in Finals
      BY <1>1, <1>4, ReportRequestShape, NoChangeShape, ServiceReportsAssumption
      DEF CommitUpdateReport, ReportOp
    <3>3. PICK row : row = Edited(report[c], tx[s].set)
      OBVIOUS
    <3>4. row \in ReportRows
      BY <1>1, <3>2, <3>3 DEF Edited, Coalesce, ReportRows
    <3> QED BY <3>1, <3>3, <3>4, ReportRowShape
  <2> QED BY <2>2, <2>3
<1>5. CASE CommitCompletion(s)
  <2>1. PICK row : row = [status |-> "completed", final |-> tx[s].final]
    OBVIOUS
  <2>2. row.status = "completed" /\ row # NoReport
    BY <2>1 DEF NoReport
  <2>3. report' = [report EXCEPT ![tx[s].case] = row]
    BY <1>5, <2>1 DEF CommitCompletion
  <2> QED BY <1>1, <2>2, <2>3 DEF ReportShapes
<1> QED BY <1>2, <1>3, <1>4, <1>5, OnlyCommitsWriteReports

LEMMA CaseMadeOfReport ==
  ASSUME ServicesInv, NEW s \in Sessions, ReportStep(s), NEW c \in Cases
  PROVE  \/ caseRow'[c] = caseRow[c]
         \/ caseRow'[c].status = "on_site" /\ caseRow'[c].stamps = caseRow[c].stamps
         \/ report[c].status # "completed" /\ report'[c].status = "completed"
<1>1. ReportShapes /\ caseRow[c] \in CaseRows
  BY ServicesShapes
<1>2. CASE CommitCreateReport(s)
  BY <1>1, <1>2 DEF CommitCreateReport, SetCaseStatus, ReportShapes, CaseRows
<1>3. CASE CommitCompletion(s)
  <2>1. PICK row : row = [status |-> "completed", final |-> tx[s].final]
    OBVIOUS
  <2>2. row.status = "completed" /\ report' = [report EXCEPT ![tx[s].case] = row]
    BY <1>3, <2>1 DEF CommitCompletion
  <2>3. CASE tx[s].case # c
    BY <1>1, <1>3, <2>3 DEF CommitCompletion, ReportShapes
  <2>4. CASE tx[s].case = c
    BY <1>1, <1>3, <2>2, <2>4 DEF CommitCompletion, ReportShapes
  <2> QED BY <2>3, <2>4
<1>4. CASE ~CommitCreateReport(s) /\ ~CommitCompletion(s)
  BY <1>4 DEF ReportStep, Proceed, Wait, ReadCaseForReport, ReadReport, RequestCompletion,
              CheckFinal, LockReport, ChooseFinal, CommitUpdateReport, FailReport, RollbackReport
<1> QED BY <1>2, <1>3, <1>4

(* Completion is for good: no later step makes a case completed that has   *)
(* no report.                                                              *)
LEMMA CompletedStays ==
  ASSUME CompletedHasReport, NEW statuses, NEW stamps, CasesMoved(statuses, stamps),
         "completed" \notin stamps, report' = report
  PROVE  CompletedHasReport'
BY DEF CompletedHasReport, CasesMoved

(* What a step keeps, whatever service it is of.                           *)
CaseKept ==
  /\ ServicesInv'
  /\ CompletedHasReport => CompletedHasReport'
  /\ OneSession /\ ServicesSerial => ServicesSerial'

LEMMA CaseStepKeeps ==
  ASSUME ServicesInv, CaseNext
  PROVE  CaseKept
<1> PICK s \in Sessions :
      \/ FieldServiceStep(s) /\ UNCHANGED <<billingVars, dispatchVars>>
      \/ OfficeStep(s) /\ UNCHANGED <<appt, reportVars, part, dispatchVars>>
      \/ DispatchStep(s) /\ UNCHANGED <<appt, reportVars, part, billingVars>>
  BY DEF CaseNext
<1>1. ASSUME ReportStep(s), UNCHANGED <<part, billingVars, dispatchVars>> PROVE CaseKept
  <2>1. ServicesInv' /\ (OneSession /\ ServicesSerial => ServicesSerial')
    BY <1>1, OnSiteStep
  <2>2. ASSUME CompletedHasReport, NEW c \in Cases, "completed" \in caseRow'[c].stamps
        PROVE  report'[c] # NoReport
    <3>1. report'[c].status = "completed" => report'[c] # NoReport
      BY DEF NoReport
    <3>2. CASE "completed" \in caseRow[c].stamps
      BY <1>1, <2>2, <3>2, ReportStays DEF CompletedHasReport
    <3>3. CASE "completed" \notin caseRow[c].stamps
      BY <1>1, <2>2, <3>1, <3>3, CaseMadeOfReport
    <3> QED BY <3>2, <3>3
  <2> QED BY <2>1, <2>2 DEF CaseKept, CompletedHasReport
<1>2. ASSUME AppointmentStep(s), UNCHANGED <<reportVars, part, billingVars, dispatchVars>>
      PROVE  CaseKept
  BY <1>2, VisitStep, CompletedStays DEF CaseKept, reportVars
<1>3. ASSUME PartStep(s), UNCHANGED <<billingVars, dispatchVars>> PROVE CaseKept
  <2>1. /\ ServicesInv' /\ caseRow' = caseRow /\ UNCHANGED reportVars
        /\ OneSession /\ ServicesSerial => ServicesSerial'
    BY <1>3, PartsStep, ServicesShapes, PartStepSeen DEF ServicesInv
  <2> QED BY <2>1 DEF CaseKept, CompletedHasReport, reportVars
<1>4. ASSUME OfficeStep(s), UNCHANGED <<appt, reportVars, part, dispatchVars>> PROVE CaseKept
  <2>1. "completed" \notin Decided
    BY DEF Decided
  <2> QED BY <1>4, <2>1, DecisionStep, CompletedStays DEF CaseKept, reportVars
<1>5. ASSUME DispatchStep(s), UNCHANGED <<appt, reportVars, part, billingVars>> PROVE CaseKept
  BY <1>5, AssignStep, CompletedStays DEF CaseKept, reportVars
<1> QED BY <1>1, <1>2, <1>3, <1>4, <1>5 DEF FieldServiceStep

LEMMA CaseStutterKeeps ==
  ASSUME ServicesInv, UNCHANGED caseVars
  PROVE  CaseKept
<1>1. UNCHANGED <<caseRow, tx, appt, report, reportLock, part, billing, settlement, assignment, caseUnit>>
  BY DEF caseVars, reportVars, billingVars, dispatchVars
<1>2. AppointmentsInv' /\ ReportsInv' /\ WorkflowInv'
  BY <1>1, AppointmentsKept, ReportsStepInvariant, WorkflowKept
  DEF ServicesInv, apptVars, vars, reportVars, billingSpecVars, billingVars
<1>3. PartsInv'
  BY <1>1 DEF ServicesInv, PartsInv
<1>4. DispatchInv'
  BY <1>1 DEF ServicesInv, DispatchInv, DispatchShapes, CaseUnitAssigned, CreationsApart,
              ReassignsBacked, AssignmentsOf, SessionsRun
<1>5. CompletedHasReport => CompletedHasReport'
  BY <1>1 DEF CompletedHasReport
<1>6. AppointmentsSerial => AppointmentsSerial'
  BY <1>1 DEF AppointmentsSerial, CompletionRecorded, Exists, Resulting, CompletionConsistent
<1>7. ReportsSerial /\ PartsSerial => ReportsSerial' /\ PartsSerial'
  BY <1>1 DEF ReportsSerial, PartsSerial, WasVisited, Eligible, Exists, Mutable, Stored
<1>8. BillingSerial /\ TransitionsSerial => BillingSerial' /\ TransitionsSerial'
  <2>1. BillingSerial => BillingSerial'
    BY <1>1 DEF BillingSerial, ChargeNearTotal, Storing
  <2>2. TransitionsSerial => TransitionsSerial'
    BY <1>1 DEF TransitionsSerial, ReadyToClose, OpenSettlements
  <2> QED BY <2>1, <2>2
<1>9. DispatchSerial => DispatchSerial'
  BY <1>1 DEF DispatchSerial, SummaryOfLatest, IsLatest, AssignmentsOf
<1> QED BY <1>2, <1>3, <1>4, <1>5, <1>6, <1>7, <1>8, <1>9
        DEF CaseKept, ServicesInv, ServicesSerial

LEMMA CaseInitial ==
  CaseInit => /\ ServicesInv /\ ServicesSerial
              /\ NoneCompleted => CompletedHasReport /\ CompletedForGood
<1> SUFFICES ASSUME CaseInit
             PROVE  /\ ServicesInv /\ ServicesSerial
                    /\ NoneCompleted => CompletedHasReport /\ CompletedForGood
  OBVIOUS
<1>1. ReportsInit /\ AppointmentsInit /\ InitCases /\ PartsInit /\ BillingInit /\ DispatchInit
  BY DEF CaseInit, ReportsInit, AppointmentsInit
<1>2. ServicesInv
  BY <1>1, AppointmentsInitial, ReportsInitInvariant, PartsInitially, WorkflowInitial,
     DispatchInitial DEF ServicesInv
<1>3. \A s \in Sessions : tx[s].op = "idle"
  BY <1>1 DEF InitCases, Idle
<1>4. BillingSerial /\ TransitionsSerial
  BY <1>1, <1>3 DEF BillingInit, BillingSerial, ChargeNearTotal, TransitionsSerial
<1>5. DispatchSerial
  BY <1>1, <1>3 DEF DispatchInit, DispatchSerial, SummaryOfLatest, IsLatest, AssignmentsOf
<1>6. ServicesSerial
  BY <1>1, <1>4, <1>5, AppointmentsSerialInit, ReportsSerialInit, PartsInitially
  DEF ServicesSerial
<1>7. ASSUME NoneCompleted PROVE CompletedHasReport /\ CompletedForGood
  <2>1. \A c \in Cases : "completed" \notin caseRow[c].stamps
    BY <1>1, <1>7 DEF InitCases, NoneCompleted
  <2>2. \A c \in Cases : "closed" \notin caseRow[c].stamps
    BY <1>2, <2>1 DEF ServicesInv, WorkflowInv, DecisionTrail, Before, WorkflowShapes, CaseRows
  <2> QED BY <2>1, <2>2 DEF CompletedHasReport, CompletedForGood
<1> QED BY <1>2, <1>6, <1>7
-------------------------------------------------------------------------------
(* Whatever the services do to each other's cases, each keeps its own      *)
(* invariant.                                                              *)
THEOREM ServicesCompose == CaseSpec => []ServicesInv
<1>1. ServicesInv /\ [CaseNext]_caseVars => ServicesInv'
  BY CaseStepKeeps, CaseStutterKeeps DEF CaseKept
<1> QED BY <1>1, CaseInitial, PTL DEF CaseSpec

(* ... and no case is completed but through a service report, whichever    *)
(* service gave it its status last.                                        *)
THEOREM CaseInvariant ==
  ASSUME NoneCompleted
  PROVE  CaseSpec => []CaseInv
<1>1. CaseInit => CaseInv
  BY CaseInitial DEF CaseInv
<1>2. CaseInv /\ [CaseNext]_caseVars => CaseInv'
  BY CaseStepKeeps, CaseStutterKeeps DEF CaseKept, CaseInv
<1> QED BY <1>1, <1>2, PTL DEF CaseSpec

(* A case that has a billing record was completed, and has its service     *)
(* report: ensureCaseReadyForBilling tests the case, never the report, and *)
(* any service may have moved the case since.                              *)
THEOREM BilledAlwaysServiced ==
  ASSUME NoneCompleted
  PROVE  CaseSpec => []BilledWasServiced
<1>1. CaseInv => BilledWasServiced
  BY DEF CaseInv, ServicesInv, WorkflowInv, BilledWasCompleted, CompletedHasReport,
         BilledWasServiced
<1> QED BY <1>1, CaseInvariant, PTL

(* What is left of the rules when requests overlap, as CaseHistory says    *)
(* it: a step adds a timestamp, a report or a billing record to one case,  *)
(* in that order, or nothing.                                              *)
StampsTold == [c \in Cases |-> caseRow[c].stamps]
Reported == {c \in Cases : report[c] # NoReport}
Billed == {c \in Cases : billing[c] # NoBilling}
HistoryStep == History!Next \/ UNCHANGED <<StampsTold, Reported, Billed>>

LEMMA StampsUnmoved ==
  ASSUME NEW statuses, CasesMoved(statuses, {})
  PROVE  StampsTold' = StampsTold
BY DEF CasesMoved, StampsTold

LEMMA HistoryReaches ==
  ASSUME NEW c \in Cases, NEW stamp \in CaseStamps, Before[stamp] \subseteq caseRow[c].stamps,
         stamp = "completed" => c \in Reported,
         \A d \in Cases : caseRow'[d].stamps = IF d = c THEN caseRow[d].stamps \cup {stamp}
                                               ELSE caseRow[d].stamps,
         UNCHANGED <<Reported, Billed>>
  PROVE  HistoryStep
<1>1. CASE stamp \in caseRow[c].stamps
  BY <1>1 DEF HistoryStep, StampsTold
<1>2. CASE stamp \notin caseRow[c].stamps
  <2>1. StampsTold' = [StampsTold EXCEPT ![c] = @ \cup {stamp}]
    BY DEF StampsTold
  <2>2. History!Reach(c, stamp)
    BY <1>2, <2>1 DEF History!Reach, StampsTold, Reported, Billed
  <2> QED BY <2>2 DEF HistoryStep, History!Next
<1> QED BY <1>1, <1>2

LEMMA ReportHistory ==
  ASSUME ServicesInv, NEW s \in Sessions, ReportStep(s), UNCHANGED billingVars
  PROVE  HistoryStep
<1>0. ReportShapes /\ Billed' = Billed
  BY ServicesShapes DEF Billed, billingVars
<1>1. \A c \in Cases : report[c] # NoReport => report'[c] # NoReport
  BY ReportStays
<1>2. CASE CommitCreateReport(s)
  <2>1. PICK c \in Cases : c = tx[s].case
    BY <1>0, <1>2, ReportRequestShape DEF CommitCreateReport, ReportOp
  <2>2. report[c] = NoReport /\ report'[c] # NoReport
    BY <1>0, <1>2, <2>1 DEF CommitCreateReport, ReportShapes, NoReport
  <2>3. \A d \in Cases \ {c} : report'[d] = report[d]
    BY <1>0, <1>2, <2>1 DEF CommitCreateReport, ReportShapes
  <2>4. StampsTold' = StampsTold
    BY <1>0, <1>2 DEF CommitCreateReport, SetCaseStatus, ReportShapes, CaseRows, StampsTold
  <2>5. Reported' = Reported \cup {c} /\ c \notin Reported
    BY <2>1, <2>2, <2>3 DEF Reported
  <2>6. History!Report(c)
    BY <1>0, <2>4, <2>5 DEF History!Report, StampsTold, Reported, Billed
  <2> QED BY <2>6 DEF HistoryStep, History!Next
<1>3. CASE CommitUpdateReport(s)
  <2>1. tx[s].case \in Cases /\ report[tx[s].case] # NoReport
    BY <1>0, <1>3, ReportRequestShape
    DEF CommitUpdateReport, ReportOp, ServicesInv, ReportsInv, ReportBacked
  <2>2. \A d \in Cases \ {tx[s].case} : report'[d] = report[d]
    BY <1>0, <1>3 DEF CommitUpdateReport, ReportShapes
  <2>3. Reported' = Reported
    BY <1>1, <2>1, <2>2 DEF Reported
  <2> QED BY <1>0, <1>3, <2>3 DEF CommitUpdateReport, HistoryStep, StampsTold
<1>4. CASE CommitCompletion(s)
  <2> DEFINE c == tx[s].case
  <2>1. c \in Cases /\ report[c] # NoReport
    BY <1>0, <1>4, ReportRequestShape
    DEF CommitCompletion, ReportOp, ServicesInv, ReportsInv, ReportBacked
  <2>2. \A d \in Cases \ {c} : report'[d] = report[d]
    BY <1>0, <1>4 DEF CommitCompletion, ReportShapes
  <2>3. Reported' = Reported
    BY <1>1, <2>1, <2>2 DEF Reported
  <2>4. \A d \in Cases : caseRow'[d].stamps = IF d = c THEN caseRow[d].stamps \cup {"completed"}
                                              ELSE caseRow[d].stamps
    BY <1>0, <1>4 DEF CommitCompletion, ReportShapes
  <2>5. "completed" \in CaseStamps /\ Before["completed"] = {} /\ c \in Reported
    BY <2>1 DEF Before, CaseStamps, Reported
  <2> QED BY <1>0, <2>1, <2>3, <2>4, <2>5, HistoryReaches
<1>5. CASE ~CommitCreateReport(s) /\ ~CommitUpdateReport(s) /\ ~CommitCompletion(s)
  <2>1. report' = report
    BY <1>5, OnlyCommitsWriteReports
  <2>2. caseRow' = caseRow
    BY <1>5 DEF ReportStep, Proceed, Wait, ReadCaseForReport, ReadReport, RequestCompletion,
                CheckFinal, LockReport, ChooseFinal, FailReport, RollbackReport
  <2> QED BY <1>0, <2>1, <2>2 DEF HistoryStep, StampsTold, Reported
<1> QED BY <1>2, <1>3, <1>4, <1>5

LEMMA OfficeHistory ==
  ASSUME ServicesInv, NEW s \in Sessions, OfficeStep(s), UNCHANGED reportVars
  PROVE  HistoryStep
<1>0. WorkflowInv /\ [WorkflowNext]_billingSpecVars /\ Reported' = Reported
  BY DEF ServicesInv, WorkflowNext, OfficeStep, Reported, reportVars
<1>1. CASE CommitTransition(s)
  <2>1. PICK to \in Decided : to = ToStatus[tx[s].action]
    BY <1>0, <1>1, TransitionWrites
  <2>2. PICK d \in Cases : d = tx[s].case
    BY <1>0, <1>1, TransitionWrites
  <2>3. \A c \in Cases : caseRow'[c].stamps = IF c = d THEN caseRow[c].stamps \cup {to}
                                             ELSE caseRow[c].stamps
    <3>1. \A c \in Cases :
            caseRow'[c] = IF c = d THEN [status |-> to, stamps |-> caseRow[c].stamps \cup {to}]
                          ELSE caseRow[c]
      BY <1>0, <1>1, <2>1, <2>2, TransitionWrites
    <3>2. \A c \in Cases : c # d => caseRow'[c].stamps = caseRow[c].stamps
      BY <3>1
    <3>3. caseRow'[d] = [status |-> to, stamps |-> caseRow[d].stamps \cup {to}]
      BY <3>1
    <3>4. caseRow'[d].stamps = caseRow[d].stamps \cup {to}
      BY <3>3
    <3> QED BY <3>2, <3>4
  <2>4. Billed' = Billed
    BY <1>1 DEF CommitTransition, billingVars, Billed
  <2>5. Before[to] \subseteq caseRow[d].stamps
    BY <1>0, <1>1, <2>1, <2>2 DEF CommitTransition, WorkflowInv, TransitionsBacked
  <2>6. to \in CaseStamps /\ to # "completed"
    BY <2>1 DEF Decided, CaseStamps
  <2> QED BY <1>0, <2>3, <2>4, <2>5, <2>6, HistoryReaches
<1>2. CASE ~CommitTransition(s)
  <2>1. StampsTold' = StampsTold
    BY <1>2 DEF OfficeStep, TransitionStep, BillingStep, ReadCaseForBilling, ReadBilling,
                ReadForSettlement, ReadSettlement, ReadForTransition, CheckBilling,
                CheckSettlements, RollbackBilling, RollbackTransition, CommitCreateBilling,
                CommitUpdateBilling, CommitSettlement, CommitUpdateSettlement, StampsTold
  <2>2. Billed \subseteq Billed'
    BY <1>0, RowsStay DEF WorkflowInv, Billed
  <2>3. CASE Billed' = Billed
    BY <1>0, <2>1, <2>3 DEF HistoryStep
  <2>4. CASE Billed' # Billed
    <3>1. PICK c \in Cases : billing[c] = NoBilling /\ billing'[c] # NoBilling
      BY <2>2, <2>4 DEF Billed
    <3>2. PICK t \in Sessions : CommitCreateBilling(t) /\ tx[t].case = c
      BY <1>0, <3>1, BilledByCreation
    <3>3. "completed" \in caseRow[c].stamps
      BY <1>0, <3>2 DEF CommitCreateBilling, WorkflowInv, BillingBacked, CreationBacked
    <3>4. \A d \in Cases \ {c} : billing'[d] = billing[d]
      BY <3>2 DEF CommitCreateBilling
    <3>5. Billed' = Billed \cup {c} /\ c \notin Billed
      BY <3>1, <3>4 DEF Billed
    <3>6. History!Bill(c)
      BY <1>0, <2>1, <3>3, <3>5 DEF History!Bill, StampsTold, Reported, Billed
    <3> QED BY <3>6 DEF HistoryStep, History!Next
  <2> QED BY <2>3, <2>4
<1> QED BY <1>1, <1>2

LEMMA CaseHistoryStep ==
  ASSUME ServicesInv, CaseNext
  PROVE  HistoryStep
<1> PICK s \in Sessions :
      \/ FieldServiceStep(s) /\ UNCHANGED <<billingVars, dispatchVars>>
      \/ OfficeStep(s) /\ UNCHANGED <<appt, reportVars, part, dispatchVars>>
      \/ DispatchStep(s) /\ UNCHANGED <<appt, reportVars, part, billingVars>>
  BY DEF CaseNext
<1>1. ASSUME UNCHANGED <<reportVars, billingVars>>, StampsTold' = StampsTold PROVE HistoryStep
  BY <1>1 DEF reportVars, billingVars, HistoryStep, Reported, Billed
<1>2. CASE ReportStep(s) /\ UNCHANGED billingVars
  BY <1>2, ReportHistory
<1>3. CASE AppointmentStep(s) /\ UNCHANGED <<reportVars, billingVars>>
  <2>1. CasesMoved({"scheduled"}, {})
    BY <1>3, AppointmentStepSeen DEF ServicesInv
  <2> QED BY <1>1, <1>3, <2>1, StampsUnmoved
<1>4. CASE PartStep(s) /\ UNCHANGED billingVars
  <2>1. UNCHANGED <<caseRow, reportVars>>
    BY <1>4, ServicesShapes, PartStepSeen DEF ServicesInv
  <2> QED BY <1>1, <1>4, <2>1 DEF StampsTold
<1>5. CASE OfficeStep(s) /\ UNCHANGED reportVars
  BY <1>5, OfficeHistory
<1>6. CASE DispatchStep(s) /\ UNCHANGED <<reportVars, billingVars>>
  <2>1. CasesMoved({"dispatch_pending", "assigned"}, {})
    BY <1>6, DispatchStepSeen DEF ServicesInv
  <2> QED BY <1>1, <1>6, <2>1, StampsUnmoved
<1> QED BY <1>2, <1>3, <1>4, <1>5, <1>6 DEF FieldServiceStep

(* However the requests of all services overlap, the case services         *)
(* together implement CaseHistory.                                         *)
THEOREM HistoryAlwaysKept ==
  ASSUME NoneCompleted
  PROVE  CaseSpec => HistoryKept
<1>1. CaseInit => History!Init
  <2> SUFFICES ASSUME CaseInit PROVE History!Init
    OBVIOUS
  <2>1. ServicesInv /\ ReportsInit /\ BillingInit /\ InitCases
    BY CaseInitial DEF CaseInit, BillingInit
  <2>2. \A c \in Cases : caseRow[c].stamps \in SUBSET (CaseStamps \ {"completed"})
    BY <2>1, CaseStoreAssumption DEF InitCases, CaseRows, NoneCompleted
  <2>3. \A c \in Cases : \A stamp \in caseRow[c].stamps : Before[stamp] \subseteq caseRow[c].stamps
    BY <2>1 DEF ServicesInv, WorkflowInv, DecisionTrail
  <2>4. Reported = {} /\ Billed = {}
    BY <2>1 DEF ReportsInit, BillingInit, Reported, Billed
  <2> QED BY <2>2, <2>3, <2>4 DEF History!Init, History!Ordered, Reported, Billed
<1>2. ServicesInv /\ [CaseNext]_caseVars =>
        [History!Next]_<<[c \in Cases |-> caseRow[c].stamps],
                         {c \in Cases : report[c] # NoReport},
                         {c \in Cases : billing[c] # NoBilling}>>
  <2>1. UNCHANGED caseVars => UNCHANGED <<StampsTold, Reported, Billed>>
    BY DEF caseVars, reportVars, billingVars, StampsTold, Reported, Billed
  <2> QED BY <2>1, CaseHistoryStep DEF HistoryStep, StampsTold, Reported, Billed
<1> QED BY <1>1, <1>2, ServicesCompose, PTL DEF CaseSpec, HistoryKept, History!Spec, History!history

(* A part that was removed is never changed or back, beside any number of  *)
(* requests that read it before: WHERE deleted_at IS NULL.                 *)
THEOREM RemovedPartsStay == CaseSpec => RemovedStays
<1>1. ServicesInv /\ [CaseNext]_caseVars =>
        [\A p \in Parts : Stored(p) /\ part[p].deleted => part'[p] = part[p]]_partVars
  <2> SUFFICES ASSUME ServicesInv, CaseNext \/ UNCHANGED caseVars, NEW p \in Parts, Stored(p), part[p].deleted
               PROVE  part'[p] = part[p]
    OBVIOUS
  <2>1. CASE UNCHANGED caseVars
    BY <2>1 DEF caseVars
  <2>2. ASSUME NEW s \in Sessions, PartStep(s) PROVE part'[p] = part[p]
    BY <2>2, ServicesShapes, PartStepSeen DEF ServicesInv
  <2>3. CASE CaseNext
    BY <2>2, <2>3 DEF CaseNext, FieldServiceStep
  <2> QED BY <2>1, <2>3
<1> QED BY <1>1, ServicesCompose, PTL DEF CaseSpec, RemovedStays

LEMMA EngineersStay ==
  ASSUME ServicesInv, AssignedHasEngineer, CaseNext
  PROVE  AssignedHasEngineer'
<1> PICK s \in Sessions :
      \/ FieldServiceStep(s) /\ UNCHANGED <<billingVars, dispatchVars>>
      \/ OfficeStep(s) /\ UNCHANGED <<appt, reportVars, part, dispatchVars>>
      \/ DispatchStep(s)
  BY DEF CaseNext
<1>1. ASSUME NEW ops, StepOf(s, ops), ops \cap DispatchOps = {}, UNCHANGED dispatchVars,
             NEW statuses, NEW stamps, CasesMoved(statuses, stamps), "assigned" \notin statuses
      PROVE  AssignedHasEngineer'
  <2>1. StepElsewhere(s, DispatchOps)
    BY <1>1, OpsApart, SeenElsewhere
  <2> QED BY <1>1, <2>1, DispatchUndisturbed DEF ServicesInv
<1>2. CASE ReportStep(s) /\ UNCHANGED dispatchVars
  <2>1. StepOf(s, ReportOps) /\ CasesMoved({"on_site", "completed"}, {"completed"})
    BY <1>2, ReportStepSeen DEF ServicesInv
  <2> QED BY <1>1, <1>2, <2>1, OpsApart
<1>3. CASE AppointmentStep(s) /\ UNCHANGED dispatchVars
  <2>1. StepOf(s, AppointmentOps) /\ CasesMoved({"scheduled"}, {})
    BY <1>3, AppointmentStepSeen DEF ServicesInv
  <2> QED BY <1>1, <1>3, <2>1, OpsApart
<1>4. CASE PartStep(s) /\ UNCHANGED dispatchVars
  <2>1. StepOf(s, PartOps) /\ CasesMoved({}, {})
    BY <1>4, ServicesShapes, PartStepSeen, NothingMoved DEF ServicesInv
  <2> QED BY <1>1, <1>4, <2>1, OpsApart
<1>5. CASE OfficeStep(s) /\ UNCHANGED dispatchVars
  <2>1. StepOf(s, OfficeOps) /\ CasesMoved(Decided, Decided) /\ "assigned" \notin Decided
    BY <1>5, WorkflowStepSeen DEF ServicesInv, OfficeStep, Decided
  <2> QED BY <1>1, <1>5, <2>1, OpsApart
<1>6. CASE DispatchStep(s)
  BY <1>6, DispatchStepKeeps DEF ServicesInv
<1> QED BY <1>2, <1>3, <1>4, <1>5, <1>6 DEF FieldServiceStep

(* A case shown as assigned has an assignment with an engineer, although   *)
(* every other service moves cases too: updateDispatchSummary is the only  *)
(* way to assigned.  No case starts out assigned: its assignments are      *)
(* those of the run.                                                       *)
THEOREM EngineerBesideAll ==
  ASSUME NoneAssigned
  PROVE  CaseSpec => []AssignedHasEngineer
<1>1. CaseInit => AssignedHasEngineer
  BY DEF CaseInit, DispatchInit, InitCases, NoneAssigned, AssignedHasEngineer
<1>2. ServicesInv /\ AssignedHasEngineer /\ [CaseNext]_caseVars => AssignedHasEngineer'
  <2>1. ASSUME AssignedHasEngineer, UNCHANGED caseVars PROVE AssignedHasEngineer'
    BY <2>1 DEF caseVars, dispatchVars, AssignedHasEngineer, AssignmentsOf
  <2> QED BY <2>1, EngineersStay
<1> QED BY <1>1, <1>2, ServicesCompose, PTL DEF CaseSpec
-------------------------------------------------------------------------------
(* With one session every check of a service is followed by its own write, *)
(* and what it found is still so, whatever another service did before.     *)
THEOREM ServicesSerialCompose ==
  ASSUME OneSession
  PROVE  CaseSpec => [](ServicesInv /\ ServicesSerial)
<1>1. ServicesInv /\ ServicesSerial /\ [CaseNext]_caseVars => ServicesInv' /\ ServicesSerial'
  BY CaseStepKeeps, CaseStutterKeeps DEF CaseKept
<1> QED BY <1>1, CaseInitial, PTL DEF CaseSpec

(* A case never has more open appointments than the pool has clients,      *)
(* whatever the other services do to the case meanwhile ...                *)
THEOREM OpenBoundedBesideAll == CaseSpec => []OpenAppointmentsBounded
<1>1. ServicesInv => OpenAppointmentsBounded
  BY InvariantBounds DEF ServicesInv
<1> QED BY <1>1, ServicesCompose, PTL

LEMMA OneSessionCounts ==
  ASSUME OneSession
  PROVE  Cardinality(Sessions) \in {0, 1}
<1>1. CASE Sessions = {}
  BY <1>1, FS_EmptySet
<1>2. CASE Sessions # {}
  <2>1. PICK s : Sessions = {s}
    BY <1>2 DEF OneSession
  <2> QED BY <2>1, FS_Singleton
<1> QED BY <1>1, <1>2

(* ... and one client keeps docs/PROJECT_GUARDRAILS.md: one open           *)
(* appointment per case.                                                   *)
THEOREM OneOpenBesideAll ==
  ASSUME OneSession
  PROVE  CaseSpec => []AtMostOneOpen
<1>1. ServicesInv => AtMostOneOpen
  <2> SUFFICES ASSUME ServicesInv, NEW c \in Cases
               PROVE  Cardinality(OpenAppointments(c)) <= 1
    BY DEF AtMostOneOpen
  <2>1. IsFiniteSet(OpenAppointments(c) \cup Reopening(c))
    BY DEF ServicesInv, AppointmentsInv, OpenOrOpeningBounded
  <2>2. Cardinality(OpenAppointments(c)) \in Nat
    <3>1. IsFiniteSet(OpenAppointments(c))
      BY <2>1, FS_Subset
    <3> QED BY <3>1, FS_CardinalityType
  <2>3. Cardinality(OpenAppointments(c)) <= Cardinality(Sessions)
    BY InvariantBounds DEF ServicesInv, OpenAppointmentsBounded
  <2> QED BY <2>2, <2>3, OneSessionCounts
<1> QED BY <1>1, ServicesCompose, PTL

(* A stored appointment is completed exactly when its visit is.            *)
THEOREM CompletionRecordedBesideAll ==
  ASSUME OneSession
  PROVE  CaseSpec => []CompletionRecorded
<1>1. ServicesSerial => CompletionRecorded
  BY DEF ServicesSerial, AppointmentsSerial
<1> QED BY <1>1, ServicesSerialCompose, PTL

(* The source amounts of a stored billing record never exceed its total by *)
(* more than two cents, which the rounding of their columns can make of    *)
(* amounts that passed validateBillingAmounts; not at all, if bodies bring *)
(* whole cents.                                                            *)
THEOREM ChargeAlwaysNearTotal ==
  ASSUME OneSession
  PROVE  CaseSpec => []ChargeNearTotal
<1>1. ServicesSerial => ChargeNearTotal
  BY DEF ServicesSerial, BillingSerial
<1> QED BY <1>1, ServicesSerialCompose, PTL

(* A case and its latest assignment agree, beside all services.            *)
THEOREM SummaryOfLatestBesideAll ==
  ASSUME OneSession
  PROVE  CaseSpec => []SummaryOfLatest
<1>1. ServicesSerial => SummaryOfLatest
  BY DEF ServicesSerial, DispatchSerial
<1> QED BY <1>1, ServicesSerialCompose, PTL
-------------------------------------------------------------------------------
(* Beside the office, nothing decides on a case, closes it or touches its  *)
(* billing; beside the report service, nothing completes it.               *)
LEMMA MovedMore ==
  ASSUME NEW s1, NEW t1, CasesMoved(s1, t1), NEW s2, NEW t2, s1 \subseteq s2, t1 \subseteq t2
  PROVE  CasesMoved(s2, t2)
BY DEF CasesMoved

FieldStatuses == {"scheduled", "on_site", "completed", "dispatch_pending", "assigned"}
FieldStep(s) ==
  StepElsewhere(s, OfficeOps) /\ UNCHANGED billingVars /\ CasesMoved(FieldStatuses, {"completed"})

LEMMA OfficeOrField ==
  ASSUME ServicesInv, CaseNext
  PROVE  \E s \in Sessions : OfficeStep(s) \/ FieldStep(s)
<1> PICK s \in Sessions :
      \/ FieldServiceStep(s) /\ UNCHANGED <<billingVars, dispatchVars>>
      \/ OfficeStep(s)
      \/ DispatchStep(s) /\ UNCHANGED <<appt, reportVars, part, billingVars>>
  BY DEF CaseNext
<1>1. ASSUME ReportStep(s), UNCHANGED billingVars PROVE FieldStep(s)
  <2>1. StepOf(s, ReportOps) /\ CasesMoved({"on_site", "completed"}, {"completed"})
    BY <1>1, ReportStepSeen DEF ServicesInv
  <2> QED BY <1>1, <2>1, OpsApart, SeenElsewhere, MovedMore DEF FieldStep, FieldStatuses
<1>2. ASSUME AppointmentStep(s), UNCHANGED billingVars PROVE FieldStep(s)
  <2>1. StepOf(s, AppointmentOps) /\ CasesMoved({"scheduled"}, {})
    BY <1>2, AppointmentStepSeen DEF ServicesInv
  <2> QED BY <1>2, <2>1, OpsApart, SeenElsewhere, MovedMore DEF FieldStep, FieldStatuses
<1>3. ASSUME PartStep(s), UNCHANGED billingVars PROVE FieldStep(s)
  <2>1. StepOf(s, PartOps) /\ CasesMoved({}, {})
    BY <1>3, ServicesShapes, PartStepSeen, NothingMoved DEF ServicesInv
  <2> QED BY <1>3, <2>1, OpsApart, SeenElsewhere, MovedMore DEF FieldStep
<1>4. ASSUME DispatchStep(s), UNCHANGED billingVars PROVE FieldStep(s)
  <2>1. StepOf(s, DispatchOps) /\ CasesMoved({"dispatch_pending", "assigned"}, {})
    BY <1>4, DispatchStepSeen DEF ServicesInv
  <2> QED BY <1>4, <2>1, OpsApart, SeenElsewhere, MovedMore DEF FieldStep, FieldStatuses
<1> QED BY <1>1, <1>2, <1>3, <1>4 DEF FieldServiceStep

LEMMA CaseReportsOwned ==
  ASSUME ServicesInv, CaseNext \/ UNCHANGED caseVars
  PROVE  ReportsOwned
<1>1. ASSUME NEW s \in Sessions, PartStep(s) PROVE UNCHANGED reportVars
  BY <1>1, ServicesShapes, PartStepSeen DEF ServicesInv
<1> QED BY <1>1 DEF ReportsOwned, CaseNext, FieldServiceStep, caseVars, reportVars

LEMMA CompletedReportStays ==
  ASSUME ServicesInv, ServicesSerial, ReportsOwned, NEW c \in Cases, report[c].status = "completed"
  PROVE  report'[c] = report[c]
<1>1. CASE report' = report
  BY <1>1
<1>2. CASE report' # report
  <2>1. PICK s \in Sessions :
          CommitCreateReport(s) \/ CommitUpdateReport(s) \/ CommitCompletion(s)
    BY <1>2, OnlyCommitsWriteReports DEF ReportsOwned
  <2>2. PICK d \in Cases, row \in ReportRows :
          report' = [report EXCEPT ![d] = row] /\ report[d].status # "completed"
    BY <2>1, SerialWrite DEF ServicesInv, ServicesSerial
  <2> QED BY <2>2, ServicesShapes DEF ReportShapes
<1> QED BY <1>1, <1>2

(* The steps that make a case completed are those that complete its        *)
(* report.                                                                 *)
LEMMA CompletedWithReport ==
  ASSUME ServicesInv, CaseNext, NEW c \in Cases,
         \/ caseRow'[c].status = "completed" /\ caseRow[c].status # "completed"
         \/ "completed" \in caseRow'[c].stamps /\ "completed" \notin caseRow[c].stamps
  PROVE  report[c].status # "completed" /\ report'[c].status = "completed"
<1>1. PICK s \in Sessions :
        \/ FieldServiceStep(s)
        \/ OfficeStep(s)
        \/ DispatchStep(s)
  BY DEF CaseNext
<1>2. ASSUME NEW statuses, NEW stamps, CasesMoved(statuses, stamps),
             "completed" \notin statuses, "completed" \notin stamps
      PROVE  FALSE
  BY <1>2 DEF CasesMoved
<1>3. CASE ReportStep(s)
  BY <1>3, CaseMadeOfReport
<1>4. CASE AppointmentStep(s)
  <2>1. CasesMoved({"scheduled"}, {})
    BY <1>4, AppointmentStepSeen DEF ServicesInv
  <2> QED BY <1>2, <2>1
<1>5. CASE PartStep(s)
  BY <1>5, ServicesShapes, PartStepSeen DEF ServicesInv
<1>6. CASE OfficeStep(s)
  <2>1. CasesMoved(Decided, Decided)
    BY <1>6, WorkflowStepSeen DEF ServicesInv, OfficeStep
  <2> QED BY <1>2, <2>1 DEF Decided
<1>7. CASE DispatchStep(s)
  <2>1. CasesMoved({"dispatch_pending", "assigned"}, {})
    BY <1>7, DispatchStepSeen DEF ServicesInv
  <2> QED BY <1>2, <2>1
<1> QED BY <1>1, <1>3, <1>4, <1>5, <1>6, <1>7 DEF FieldServiceStep

(* The case becomes closed by a close only.                                *)
LEMMA ClosedByClose ==
  ASSUME ServicesInv, ServicesSerial, CaseNext, NEW c \in Cases,
         \/ caseRow'[c].status = "closed" /\ caseRow[c].status # "closed"
         \/ "closed" \in caseRow'[c].stamps /\ "closed" \notin caseRow[c].stamps
  PROVE  /\ caseRow'[c].status = "closed" /\ caseRow[c].status = "completed"
         /\ ReadyToClose(c)
<1>1. PICK s \in Sessions : OfficeStep(s) \/ FieldStep(s)
  BY OfficeOrField
<1>2. OfficeStep(s)
  BY <1>1 DEF FieldStep, CasesMoved, FieldStatuses
<1>3. PICK action \in WorkflowActions :
         \A d \in Cases : caseRow'[d] =
           IF d = tx[s].case
             THEN [status |-> ToStatus[action], stamps |-> caseRow[d].stamps \cup {ToStatus[action]}]
             ELSE caseRow[d]
  BY <1>2, SerialTransition DEF ServicesInv, ServicesSerial, OfficeStep
<1>4. caseRow'[c].status = "closed"
  <2>1. PICK to : to = ToStatus[action]
    OBVIOUS
  <2>2. caseRow'[c] = [status |-> to, stamps |-> caseRow[c].stamps \cup {to}]
    BY <1>3, <2>1
  <2> QED BY <2>2
<1> QED BY <1>2, <1>4, CloseStep DEF ServicesInv, ServicesSerial, OfficeStep

LEMMA CompletedForGoodKept ==
  ASSUME ServicesInv, ServicesSerial, CompletedForGood, CaseNext
  PROVE  CompletedForGood'
<1> SUFFICES ASSUME NEW c \in Cases
             PROVE  /\ "completed" \in caseRow'[c].stamps => report'[c].status = "completed"
                    /\ "closed" \in caseRow'[c].stamps => caseRow'[c].status # "completed"
  BY DEF CompletedForGood
<1>1. "completed" \in caseRow[c].stamps => report'[c] = report[c] /\ report[c].status = "completed"
  BY CaseReportsOwned, CompletedReportStays DEF CompletedForGood
<1>2. ASSUME "completed" \in caseRow'[c].stamps PROVE report'[c].status = "completed"
  BY <1>1, <1>2, CompletedWithReport
<1>3. ASSUME "closed" \in caseRow'[c].stamps, caseRow'[c].status = "completed" PROVE FALSE
  <2>1. "closed" \in caseRow[c].stamps /\ caseRow[c].status # "completed"
    BY <1>3, ClosedByClose DEF CompletedForGood
  <2>2. "completed" \in caseRow[c].stamps
    BY <2>1, ServicesShapes DEF ServicesInv, WorkflowInv, DecisionTrail, Before, CaseRows
  <2> QED BY <1>1, <1>3, <2>1, <2>2, CompletedWithReport
<1> QED BY <1>2, <1>3
-------------------------------------------------------------------------------
(* With one session and bodies that bring no total, a stored total is the  *)
(* sum of its amounts, calculateTotal, but for what rounding four columns  *)
(* and the total makes of it.                                              *)
THEOREM TotalAlwaysNearSum ==
  ASSUME OneSession, NoTotals
  PROVE  CaseSpec => []TotalNearSum
<1>1. CaseInit => SumSerial
  BY DEF CaseInit, BillingInit, InitCases, SumSerial, TotalNearSum, Idle
<1>2. ServicesInv /\ SumSerial /\ [CaseNext]_caseVars => SumSerial'
  <2> SUFFICES ASSUME ServicesInv, SumSerial, CaseNext \/ UNCHANGED caseVars PROVE SumSerial'
    OBVIOUS
  <2>1. CASE UNCHANGED caseVars
    BY <2>1 DEF caseVars, billingVars, SumSerial, TotalNearSum, Storing
  <2>2. CASE CaseNext
    <3>1. PICK s \in Sessions : OfficeStep(s) \/ FieldStep(s)
      BY <2>2, OfficeOrField
    <3>2. CASE OfficeStep(s)
      BY <3>2, SumSerialKept DEF ServicesInv, OfficeStep
    <3>3. CASE FieldStep(s)
      BY <3>3, AmountsUndisturbed DEF FieldStep
    <3> QED BY <3>1, <3>2, <3>3
  <2> QED BY <2>1, <2>2
<1>3. SumSerial => TotalNearSum
  BY DEF SumSerial
<1> QED BY <1>1, <1>2, <1>3, ServicesCompose, PTL DEF CaseSpec

(* docs/task-004: with one session, and cases that start so, a case is     *)
(* accepted, rejected or cancelled once and only one of them, although     *)
(* dispatch, the field services and billing move it in between.            *)
THEOREM CaseDecidedOnce ==
  ASSUME OneSession, \A row \in InitialCases : DecidedOnce(row)
  PROVE  CaseSpec => []OneDecision
<1>1. CaseInit => CasesDecidedOnce
  BY DEF CaseInit, BillingInit, InitCases, CasesDecidedOnce
<1>2. /\ ServicesInv /\ ServicesSerial /\ CasesDecidedOnce /\ [CaseNext]_caseVars
      => CasesDecidedOnce'
  <2> SUFFICES ASSUME ServicesInv, ServicesSerial, CasesDecidedOnce,
                      CaseNext \/ UNCHANGED caseVars
               PROVE  CasesDecidedOnce'
    OBVIOUS
  <2>1. CASE UNCHANGED caseVars
    BY <2>1 DEF caseVars, CasesDecidedOnce, DecidedOnce
  <2>2. CASE CaseNext
    <3>1. PICK s \in Sessions : OfficeStep(s) \/ FieldStep(s)
      BY <2>2, OfficeOrField
    <3>2. CASE OfficeStep(s)
      BY <3>2, DecisionsKept DEF ServicesInv, ServicesSerial, OfficeStep
    <3>3. CASE FieldStep(s)
      <4>1. FieldStatuses \cap Undecided = {} /\ {"completed"} \cap Decisions = {}
        BY DEF FieldStatuses, Undecided, Decisions
      <4> QED BY <3>3, <4>1, DecisionsUndisturbed DEF FieldStep
    <3> QED BY <3>1, <3>2, <3>3
  <2> QED BY <2>1, <2>2
<1> QED BY <1>1, <1>2, DecidedOnceMeansOne, ServicesSerialCompose, PTL DEF CaseSpec

(* README, close rules: with one session a case becomes closed with its    *)
(* billing record, if any, approved or settled and no settlement open.     *)
THEOREM CasesCloseClean ==
  ASSUME OneSession
  PROVE  CaseSpec => ClosesClean
<1>1. ServicesInv /\ ServicesSerial /\ [CaseNext]_caseVars =>
        [\A c \in Cases : caseRow[c].status # "closed" /\ caseRow'[c].status = "closed" =>
           /\ billing[c] = NoBilling \/ billing[c].status \in BillingCloseReady
           /\ OpenSettlements(c) = {}]_billingSpecVars
  BY ClosedByClose DEF caseVars, ReadyToClose
<1> QED BY <1>1, ServicesSerialCompose, PTL DEF CaseSpec, ClosesClean

(* docs/task-351: with one session the parts of a completed report are not *)
(* added, changed or removed.                                              *)
THEOREM CompletedPartsFrozen ==
  ASSUME OneSession
  PROVE  CaseSpec => PartsFrozen
<1>1. ServicesInv /\ ServicesSerial /\ [CaseNext]_caseVars =>
        [\A p \in Parts : part'[p] # part[p] => report[part'[p].case].status # "completed"]_partVars
  <2> SUFFICES ASSUME ServicesInv, ServicesSerial, CaseNext \/ UNCHANGED caseVars,
                      NEW p \in Parts, part'[p] # part[p]
               PROVE  report[part'[p].case].status # "completed"
    OBVIOUS
  <2>1. PICK s \in Sessions : PartStep(s)
    BY DEF CaseNext, FieldServiceStep, caseVars
  <2> QED BY <2>1, ServicesShapes, PartsSerialKept DEF ServicesInv, ServicesSerial
<1> QED BY <1>1, ServicesSerialCompose, PTL DEF CaseSpec, PartsFrozen

(* With one session the report of a case keeps what ReportLifecycle        *)
(* promises beside all services: one creation, edits while it is open, one *)
(* completion, nothing after it.                                           *)
THEOREM LifecycleBesideAll ==
  ASSUME OneSession
  PROVE  CaseSpec => LifecycleKept
<1>1. CaseInit => Lifecycle!Init
  BY LifecycleInit DEF CaseInit
<1>2. ServicesInv /\ ServicesSerial /\ [CaseNext]_caseVars =>
        [Lifecycle!Next]_<<[c \in Cases |-> IF report[c] = NoReport THEN "none"
                                            ELSE IF report[c].status = "completed"
                                                   THEN "done" ELSE "open"],
                           [c \in Cases |-> report[c].final]>>
  BY LifecycleStep, CaseReportsOwned DEF ServicesInv, ServicesSerial, Phases, FinalsNamed
<1> QED BY <1>1, <1>2, ServicesSerialCompose, PTL DEF CaseSpec, LifecycleKept, Lifecycle!Spec

(* With one session a report of a visited case is completed with an        *)
(* appointment of that case whose visit is completed at that moment.       *)
THEOREM CompletionNamesVisitBesideAll ==
  ASSUME OneSession
  PROVE  CaseSpec => CompletionNamesVisit
<1>1. ServicesInv /\ ServicesSerial /\ [CaseNext]_caseVars =>
        [\A c \in Cases :
           /\ report[c].status # "completed" /\ report'[c].status = "completed"
           /\ \E a \in Appointments : Exists(a) /\ appt[a].case = c
           => Eligible(report'[c].final, c)]_vars
  BY CompletionStep, CaseReportsOwned DEF WasVisited, ServicesInv, ServicesSerial
<1> QED BY <1>1, ServicesSerialCompose, PTL DEF CaseSpec, CompletionNamesVisit
-------------------------------------------------------------------------------
(* With one session a case is completed once, with its report.             *)
LEMMA CompletedForGoodInvariant ==
  ASSUME OneSession, NoneCompleted
  PROVE  CaseSpec => []CompletedForGood
<1>1. CaseInit => CompletedForGood
  BY CaseInitial
<1>2. /\ ServicesInv /\ ServicesSerial /\ CompletedForGood /\ [CaseNext]_caseVars
      => CompletedForGood'
  <2>1. ASSUME CompletedForGood, UNCHANGED caseVars PROVE CompletedForGood'
    BY <2>1 DEF caseVars, reportVars, CompletedForGood
  <2> QED BY <2>1, CompletedForGoodKept
<1> QED BY <1>1, <1>2, ServicesSerialCompose, PTL DEF CaseSpec

(* A case that was closed, or is billed, has a service report, and that    *)
(* report is completed and stays so.                                       *)
THEOREM ClosedAlwaysHasReport ==
  ASSUME OneSession, NoneCompleted
  PROVE  CaseSpec => []ClosedHasReport
<1>1. ServicesInv /\ CompletedForGood => ClosedHasReport
  <2> SUFFICES ASSUME ServicesInv, CompletedForGood, NEW c \in Cases,
                      "closed" \in caseRow[c].stamps \/ billing[c] # NoBilling
               PROVE  report[c].status = "completed"
    BY DEF ClosedHasReport
  <2>1. "closed" \in caseRow[c].stamps => "completed" \in caseRow[c].stamps
    BY ServicesShapes DEF ServicesInv, WorkflowInv, DecisionTrail, Before, CaseRows
  <2>2. "completed" \in caseRow[c].stamps
    BY <2>1 DEF ServicesInv, WorkflowInv, BilledWasCompleted
  <2> QED BY <2>2 DEF CompletedForGood
<1> QED BY <1>1, ServicesCompose, CompletedForGoodInvariant, PTL

(* README, close rules: a closed case is not closed again, even after an   *)
(* appointment has pulled it back to scheduled.                            *)
THEOREM CasesCloseOnce ==
  ASSUME OneSession, NoneCompleted
  PROVE  CaseSpec => ClosedOnce
<1>1. ServicesInv /\ ServicesSerial /\ CompletedForGood /\ [CaseNext]_caseVars =>
        [\A c \in Cases : "closed" \in caseRow[c].stamps /\ caseRow'[c].status = "closed" =>
           caseRow[c].status = "closed"]_caseVars
  BY ClosedByClose DEF CompletedForGood, caseVars
<1> QED BY <1>1, ServicesSerialCompose, CompletedForGoodInvariant, PTL DEF CaseSpec, ClosedOnce
===============================================================================
