----------------------------- MODULE ServiceReports -----------------------------
(***************************************************************************)
(* FieldServiceReportService, beside AppointmentService: a case has one    *)
(* service report, created on site, edited, and completed once.            *)
(*                                                                         *)
(* Completing locks the report row (SELECT ... FOR UPDATE), checks it and  *)
(* chooses its final appointment before it writes.  Editing reads the row  *)
(* without the lock and its UPDATE does not test the status again; it only *)
(* waits for a completion that holds the lock to finish.                   *)
(***************************************************************************)
EXTENDS Appointments

CONSTANTS NoAppointment,    \* NULL in final_appointment_id
          ReportInputs      \* [status, sets, final] of the report PATCH bodies

VARIABLES report,           \* the committed report row of each case
          reportLock        \* the session that holds that row FOR UPDATE

NoSession == "none"

ReportStatuses == {"in_progress", "pending_parts", "completed", "cancelled"}
Finals == Appointments \cup {NoAppointment}

ASSUME ServiceReportsAssumption ==
  /\ NoAppointment \notin Appointments
  /\ NoSession \notin Sessions
  /\ ReportInputs \subseteq [status : ReportStatuses \cup {"null"}, sets : BOOLEAN,
                             final : Finals]

reportVars == <<report, reportLock>>
vars == <<apptVars, reportVars>>

NoReport == [status |-> "absent", final |-> NoAppointment]
NoChange == [status |-> "null", sets |-> FALSE, final |-> NoAppointment]
ReportRows == [status : ReportStatuses, final : Finals]

OnsiteReadyStatuses == {"assigned", "scheduled", "on_site"}

(* ensureFinalAppointmentCompletedForCase *)
Eligible(a, c) ==
  /\ a \in Appointments
  /\ Exists(a) /\ appt[a].case = c /\ appt[a].visit = "completed"

(* A request of this service: which case, the final appointment it asks    *)
(* for, whether that has been checked, and the columns it sets.            *)
ReportRequests ==
  [op : {"createReport", "updateReport", "lockReport", "chooseFinal", "finishReport"},
   case : Cases, final : Finals, checked : BOOLEAN,
   set : ReportInputs \cup {NoChange}, visited : BOOLEAN]

Request(op, c, f, set) ==
  [op |-> op, case |-> c, final |-> f, checked |-> f = NoAppointment, set |-> set,
   visited |-> FALSE]

LockFree(s) == reportLock[tx[s].case] = NoSession
HoldsLock(s) == tx[s].op \in {"chooseFinal", "finishReport"}
ReportOp(s) ==
  tx[s].op \in {"createReport", "updateReport", "lockReport", "chooseFinal", "finishReport"}

(* COMMIT and ROLLBACK free the row lock; the slip keeps it.               *)
KeepLock(s) == UNCHANGED reportLock
Unlock(s) ==
  reportLock' = [c \in Cases |-> IF reportLock[c] = s THEN NoSession ELSE reportLock[c]]
-------------------------------------------------------------------------------
ReportsInit ==
  /\ AppointmentsInit
  /\ report = [c \in Cases |-> NoReport]
  /\ reportLock = [c \in Cases |-> NoSession]

(* createServiceReport: ensureCaseReadyForService.  The slip takes the     *)
(* final appointment on trust.                                             *)
ReadCaseTrusting(s, c, f) ==
  /\ tx[s] = Idle
  /\ caseRow[c].status \in OnsiteReadyStatuses
  /\ Continue(s, [Request("createReport", c, f, NoChange) EXCEPT !.checked = TRUE])
  /\ UNCHANGED <<caseRow, appt, reportVars>>
ReadCaseForReport(s, c, f) ==
  /\ tx[s] = Idle
  /\ caseRow[c].status \in OnsiteReadyStatuses
  /\ Continue(s, Request("createReport", c, f, NoChange))
  /\ UNCHANGED <<caseRow, appt, reportVars>>

(* ensureFinalAppointmentCompletedForCase of a creation or an edit.        *)
CheckFinal(s) ==
  /\ tx[s].op \in {"createReport", "updateReport"}
  /\ ~tx[s].checked
  /\ Eligible(tx[s].final, tx[s].case)
  /\ Continue(s, [tx[s] EXCEPT !.checked = TRUE])
  /\ UNCHANGED <<caseRow, appt, reportVars>>

(* The INSERT, which the unique index refuses when the case has a report,  *)
(* like the read of it just before.                                        *)
CommitCreateReport(s) ==
  LET c == tx[s].case IN
  /\ tx[s].op = "createReport" /\ tx[s].checked
  /\ report[c] = NoReport
  /\ report' = [report EXCEPT ![c] = [status |-> "in_progress", final |-> tx[s].final]]
  /\ SetCaseStatus(c, "on_site")
  /\ Release(s)
  /\ UNCHANGED <<appt, reportLock>>

(* updateServiceReport: a read without a lock, ensureReportMutable; the    *)
(* slip edits a completed report too.                                      *)
ReadAnyReport(s, c, in) ==
  /\ tx[s] = Idle
  /\ in.status # "completed"
  /\ report[c] # NoReport
  /\ Continue(s, Request("updateReport", c, IF in.sets THEN in.final ELSE NoAppointment, in))
  /\ UNCHANGED <<caseRow, appt, reportVars>>
ReadReport(s, c, in) ==
  /\ tx[s] = Idle
  /\ in.status # "completed"
  /\ report[c] # NoReport /\ report[c].status # "completed"
  /\ Continue(s, Request("updateReport", c, IF in.sets THEN in.final ELSE NoAppointment, in))
  /\ UNCHANGED <<caseRow, appt, reportVars>>

(* The UPDATE ... WHERE id waits for whoever holds the row and then writes *)
(* over it, whatever its status has become.                                *)
Edited(row, set) ==
  [status |-> Coalesce(set.status, row.status),
   final  |-> IF set.sets THEN set.final ELSE row.final]
CommitUpdateReport(s) ==
  LET c == tx[s].case IN
  /\ tx[s].op = "updateReport" /\ tx[s].checked
  /\ LockFree(s)
  /\ report' = [report EXCEPT ![c] = Edited(@, tx[s].set)]
  /\ Release(s)
  /\ UNCHANGED <<caseRow, appt, reportLock>>

(* completeServiceReport arrives, alone or as a PATCH to completed.        *)
RequestCompletion(s, c, f) ==
  /\ tx[s] = Idle
  /\ report[c] # NoReport
  /\ Continue(s, Request("lockReport", c, f, NoChange))
  /\ UNCHANGED <<caseRow, appt, reportVars>>

(* SELECT ... FOR UPDATE, the status check and hasAppointmentsByCaseId.    *)
(* The slip is the same read without FOR UPDATE.                           *)
ReadWithoutLock(s) ==
  LET c == tx[s].case IN
  /\ tx[s].op = "lockReport"
  /\ report[c].status # "completed"
  /\ Continue(s, [tx[s] EXCEPT !.op = "chooseFinal",
                               !.visited = \E a \in Appointments : Exists(a) /\ appt[a].case = c])
  /\ UNCHANGED <<caseRow, appt, reportVars>>
LockReport(s) ==
  LET c == tx[s].case IN
  /\ tx[s].op = "lockReport"
  /\ LockFree(s)
  /\ report[c].status # "completed"
  /\ reportLock' = [reportLock EXCEPT ![c] = s]
  /\ Continue(s, [tx[s] EXCEPT !.op = "chooseFinal",
                               !.visited = \E a \in Appointments : Exists(a) /\ appt[a].case = c])
  /\ UNCHANGED <<caseRow, appt, report>>

(* ensureCompletionFinalAppointment: the one supplied, else the report's,  *)
(* else, if the case was ever visited, an eligible one: the code takes the *)
(* latest by sequence and times, which the model does not keep.  The slip  *)
(* accepts what the request or the report names, or nothing.               *)
AnyCandidate(s) ==
  {IF tx[s].final # NoAppointment THEN tx[s].final ELSE report[tx[s].case].final}
FinalCandidates(s) ==
  LET c == tx[s].case
      asked == IF tx[s].final # NoAppointment THEN tx[s].final ELSE report[c].final IN
  IF asked # NoAppointment THEN {asked} \cap {a \in Appointments : Eligible(a, c)}
  ELSE IF tx[s].visited THEN {a \in Appointments : Eligible(a, c)}
  ELSE {NoAppointment}
ChooseFinal(s) ==
  /\ tx[s].op = "chooseFinal"
  /\ \E f \in FinalCandidates(s) :
       Continue(s, [tx[s] EXCEPT !.op = "finishReport", !.final = f])
  /\ UNCHANGED <<caseRow, appt, reportVars>>

(* completeServiceReportFirstTransition and the case's service summary.    *)
(* The slip forgets the summary.                                           *)
CommitReportOnly(s) ==
  LET c == tx[s].case IN
  /\ tx[s].op = "finishReport"
  /\ report' = [report EXCEPT ![c] = [status |-> "completed", final |-> tx[s].final]]
  /\ Release(s)
  /\ Unlock(s)
  /\ UNCHANGED <<caseRow, appt>>
CommitCompletion(s) ==
  LET c == tx[s].case IN
  /\ tx[s].op = "finishReport"
  /\ report[c].status # "completed"
  /\ report' = [report EXCEPT ![c] = [status |-> "completed", final |-> tx[s].final]]
  /\ caseRow' = [caseRow EXCEPT ![c] = [status |-> "completed",
                                       stamps |-> @.stamps \cup {"completed"}]]
  /\ Release(s)
  /\ Unlock(s)
  /\ UNCHANGED appt

(* A check that fails throws: ROLLBACK, which frees the row.               *)
CheckFails(s) ==
  LET c == tx[s].case IN
  \/ tx[s].op \in {"createReport", "updateReport"} /\ ~tx[s].checked
       /\ ~Eligible(tx[s].final, c)
  \/ tx[s].op = "createReport" /\ tx[s].checked /\ report[c] # NoReport
  \/ tx[s].op = "lockReport" /\ LockFree(s) /\ report[c].status = "completed"
  \/ tx[s].op = "chooseFinal" /\ FinalCandidates(s) = {}
  \/ tx[s].op = "finishReport" /\ report[c].status = "completed"
FailReport(s) ==
  /\ ReportOp(s)
  /\ CheckFails(s)
  /\ Release(s)
  /\ Unlock(s)
  /\ UNCHANGED <<caseRow, appt, report>>

(* A lost connection or any other error.                                   *)
RollbackReport(s) ==
  /\ ReportOp(s)
  /\ Release(s)
  /\ Unlock(s)
  /\ UNCHANGED <<caseRow, appt, report>>

(* What the process and the database do for a request once it has arrived, *)
(* and the steps among them that may wait for a row lock.                  *)
Proceed(s) == CheckFinal(s) \/ CommitCreateReport(s) \/ ChooseFinal(s) \/ CommitCompletion(s)
Wait(s) == LockReport(s) \/ CommitUpdateReport(s) \/ FailReport(s)

ReportStep(s) ==
  \/ \E c \in Cases, f \in Finals : ReadCaseForReport(s, c, f)
  \/ \E c \in Cases, in \in ReportInputs : ReadReport(s, c, in)
  \/ \E c \in Cases, f \in Finals : RequestCompletion(s, c, f)
  \/ Proceed(s)
  \/ Wait(s)
  \/ RollbackReport(s)

ReportsNext ==
  \E s \in Sessions : ReportStep(s) \/ (AppointmentStep(s) /\ UNCHANGED reportVars)

ReportsSpec == ReportsInit /\ [][ReportsNext]_vars

(* Node goes on with a request as long as the database answers, so each    *)
(* step of a request is taken; a row lock is granted in arrival order, so  *)
(* a request that finds the row free again and again gets it.  Nothing     *)
(* makes a client send requests or a connection fail.                      *)
Fairness ==
  \A s \in Sessions :
    /\ WF_vars(CommitCreate(s) /\ UNCHANGED reportVars)
    /\ WF_vars(CheckNoOther(s) /\ UNCHANGED reportVars)
    /\ WF_vars(CommitUpdate(s) /\ UNCHANGED reportVars)
    /\ WF_vars(MustFail(s) /\ RollbackAppointment(s) /\ UNCHANGED reportVars)
    /\ WF_vars(Proceed(s))
    /\ SF_vars(Wait(s))

ReportsFairSpec == ReportsSpec /\ Fairness
-------------------------------------------------------------------------------
ReportsTypeOK ==
  /\ caseRow \in [Cases -> CaseRows]
  /\ appt \in [Appointments -> AppointmentRows \cup {NoRow}]
  /\ tx \in [Sessions -> AppointmentRequests \cup ReportRequests \cup {Idle}]
  /\ report \in [Cases -> ReportRows \cup {NoReport}]
  /\ reportLock \in [Cases -> Sessions \cup {NoSession}]

(* The final appointment of a report, completed or not, is one of the same *)
(* case that has a visit result, whatever edits, completions and PATCHes   *)
(* of the appointment overlap.                                             *)
Visited(a, c) == Exists(a) /\ appt[a].case = c /\ appt[a].visit # "null"
FinalOfSameCase ==
  \A c \in Cases : report[c].final # NoAppointment => Visited(report[c].final, c)

(* A completion under way holds its report's row, and nobody completes     *)
(* that report behind its back: FOR UPDATE makes the second test of        *)
(* completeServiceReportFirstTransition unreachable.                       *)
CompletionsExclude ==
  /\ \A s \in Sessions : HoldsLock(s) =>
       /\ reportLock[tx[s].case] = s
       /\ report[tx[s].case].status # "completed"
  /\ \A c \in Cases : reportLock[c] # NoSession =>
       HoldsLock(reportLock[c]) /\ tx[reportLock[c]].case = c

(* A completed report and the completion of its case are one COMMIT: no    *)
(* interleaving completes a report whose case was never completed.         *)
CompletedReportCompletesCase ==
  \A c \in Cases : report[c].status = "completed" => "completed" \in caseRow[c].stamps

(* Every request is answered: none waits for a row lock for ever.          *)
RequestsFinish == \A s \in Sessions : tx[s] # Idle ~> tx[s] = Idle

(* With one session: completing a report of a visited case names an        *)
(* appointment of that case whose visit is completed at that moment.       *)
CompletionNamesVisit ==
  [][\A c \in Cases :
       /\ report[c].status # "completed" /\ report'[c].status = "completed"
       /\ \E a \in Appointments : Exists(a) /\ appt[a].case = c
       => Eligible(report'[c].final, c)]_vars

(* With one session the service keeps what ReportLifecycle promises; the   *)
(* phases are the columns service_status can be told apart by.             *)
Lifecycle ==
  INSTANCE ReportLifecycle WITH
    phase <- [c \in Cases |-> IF report[c] = NoReport THEN "none"
                              ELSE IF report[c].status = "completed" THEN "done" ELSE "open"],
    final <- [c \in Cases |-> report[c].final]
LifecycleKept == Lifecycle!Spec
-------------------------------------------------------------------------------
(* The invariant of the proofs.  A request works on a report that is       *)
(* there, never edits one to completed, and stores no final appointment it *)
(* has not found to be visited: a visit result is changed, never lost.     *)
UpdatesOfRows ==
  \A s \in Sessions : tx[s].op \in {"checkOthers", "updateAppt"} => Exists(tx[s].appt)
StoresFinal(s) ==
  \/ tx[s].op \in {"createReport", "updateReport"} /\ tx[s].checked
  \/ tx[s].op = "finishReport"
ReportBacked(s) ==
  /\ ReportOp(s) /\ tx[s].op # "createReport" => report[tx[s].case] # NoReport
  /\ tx[s].op = "updateReport" =>
       /\ tx[s].set.status # "completed"
       /\ tx[s].set.sets => tx[s].final = tx[s].set.final
  /\ StoresFinal(s) /\ tx[s].final # NoAppointment => Visited(tx[s].final, tx[s].case)

ReportOps == {"createReport", "updateReport", "lockReport", "chooseFinal", "finishReport"}
ReportShapes ==
  /\ caseRow \in [Cases -> CaseRows]
  /\ appt \in [Appointments -> AppointmentRows \cup {NoRow}]
  /\ SessionsRun
  /\ \A s \in Sessions : tx[s].op \in AppointmentOps \cup ReportOps =>
       tx[s] \in AppointmentRequests \cup ReportRequests
  /\ report \in [Cases -> ReportRows \cup {NoReport}]
  /\ reportLock \in [Cases -> Sessions \cup {NoSession}]

ReportsInv ==
  /\ ReportShapes /\ FinalOfSameCase /\ CompletionsExclude /\ CompletedReportCompletesCase
  /\ UpdatesOfRows /\ \A s \in Sessions : ReportBacked(s)

(* With one session, what a request has read is still so when it writes.   *)
WasVisited(c) == \E a \in Appointments : Exists(a) /\ appt[a].case = c
ReportsSerial ==
  \A s \in Sessions :
    /\ tx[s].op = "updateReport" => report[tx[s].case].status # "completed"
    /\ tx[s].op = "chooseFinal" => (tx[s].visited <=> WasVisited(tx[s].case))
    /\ tx[s].op = "finishReport" /\ WasVisited(tx[s].case) => Eligible(tx[s].final, tx[s].case)
===============================================================================
