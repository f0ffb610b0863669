----------------------------- MODULE CaseLifecycle -----------------------------
(***************************************************************************)
(* The services that write cases.status, together on the same cases:       *)
(* workflow decisions, dispatch, appointments, the service report, billing *)
(* and the close.  No service calls another; each reads the status the     *)
(* others left, and only some of them test it.                             *)
(***************************************************************************)
EXTENDS ServiceParts, Workflow, Dispatch

caseVars == <<caseRow, tx, appt, reportVars, part, billingVars, dispatchVars>>

CaseInit ==
  /\ ReportsInit
  /\ PartsInit
  /\ BillingInit
  /\ DispatchInit

FieldServiceStep(s) ==
  \/ ReportStep(s) /\ UNCHANGED part
  \/ AppointmentStep(s) /\ UNCHANGED <<reportVars, part>>
  \/ PartStep(s)
OfficeStep(s) == TransitionStep(s) \/ BillingStep(s)

CaseNext ==
  \E s \in Sessions :
    \/ FieldServiceStep(s) /\ UNCHANGED <<billingVars, dispatchVars>>
    \/ OfficeStep(s) /\ UNCHANGED <<appt, reportVars, part, dispatchVars>>
    \/ DispatchStep(s) /\ UNCHANGED <<appt, reportVars, part, billingVars>>

CaseSpec == CaseInit /\ [][CaseNext]_caseVars
-------------------------------------------------------------------------------
(* Whatever the services of a case do to each other's status, a case that  *)
(* is billed was completed by a service report.                            *)
BilledWasServiced ==
  \A c \in Cases : billing[c] # NoBilling =>
    "completed" \in caseRow[c].stamps /\ report[c] # NoReport

(* However requests overlap, what the timestamps, the reports and the      *)
(* billing records tell is a history CaseHistory allows, although the      *)
(* status may have gone back and forth.                                    *)
History ==
  INSTANCE CaseHistory WITH
    Stamps <- CaseStamps,
    reached <- [c \in Cases |-> caseRow[c].stamps],
    reported <- {c \in Cases : report[c] # NoReport},
    billed <- {c \in Cases : billing[c] # NoBilling}
HistoryKept == History!Spec

(* With one session: a case that was closed, or is billed, has its service *)
(* report, and that report is completed for good.                          *)
ClosedHasReport ==
  \A c \in Cases : "closed" \in caseRow[c].stamps \/ billing[c] # NoBilling =>
    report[c].status = "completed"

(* README, close rules: a closed case cannot be closed again.  An          *)
(* appointment can pull a closed case back to scheduled; what keeps the    *)
(* rule then is that its report, completed already, cannot complete it.    *)
(* True of one session.                                                    *)
ClosedOnce ==
  [][\A c \in Cases : "closed" \in caseRow[c].stamps /\ caseRow'[c].status = "closed" =>
       caseRow[c].status = "closed"]_caseVars

(* The inductive invariant: every service keeps its own, and no case is    *)
(* completed but through a report.                                         *)
ServicesInv == AppointmentsInv /\ ReportsInv /\ PartsInv /\ WorkflowInv /\ DispatchInv
CompletedHasReport ==
  \A c \in Cases : "completed" \in caseRow[c].stamps => report[c] # NoReport
CaseInv == ServicesInv /\ CompletedHasReport

(* With one session every service also finds what it had checked, reports  *)
(* stay completed, and a closed case never looks completed again.          *)
ServicesSerial ==
  /\ AppointmentsSerial
  /\ ReportsSerial
  /\ PartsSerial
  /\ BillingSerial
  /\ TransitionsSerial
  /\ DispatchSerial
CompletedForGood ==
  \A c \in Cases : /\ "completed" \in caseRow[c].stamps => report[c].status = "completed"
                   /\ "closed" \in caseRow[c].stamps => caseRow[c].status # "completed"
CaseSerial == ServicesSerial /\ CompletedForGood
===============================================================================
