-------------------------- MODULE ServiceReports_proofs --------------------------
(***************************************************************************)
(* Theorems of ServiceReports, beside appointments, for any number of      *)
(* cases, appointments and sessions and any request bodies.                *)
(***************************************************************************)
EXTENDS ServiceParts, Appointments_proofs, TLAPS

USE DEF CreateRequests, UpdateRequests

Requests == AppointmentRequests \cup ReportRequests \cup {Idle}
RequestsTyped ==
  /\ SessionsRun
  /\ \A t \in Sessions : tx[t].op \in AppointmentOps \cup ReportOps =>
       tx[t] \in AppointmentRequests \cup ReportRequests
OthersStay(s) == \A t \in Sessions \ {s} : tx'[t] = tx[t]

(* What never goes back: visits with a result, timestamps.                 *)
VisitsKept ==
  /\ \A a \in Appointments : Exists(a) => Exists(a)'
  /\ \A a \in Appointments, c \in Cases : Visited(a, c) => Visited(a, c)'
StampsKept == \A c \in Cases : caseRow[c].stamps \subseteq caseRow'[c].stamps

LEMMA IdleShape == Idle.op = "idle" /\ Idle \in Requests
BY DEF Idle, Requests

LEMMA NoChangeShape == NoChange.status = "null" /\ NoChange.sets = FALSE
BY DEF NoChange

LEMMA ContinueShape ==
  ASSUME ReportShapes, NEW s \in Sessions, NEW q \in Requests, Continue(s, q)
  PROVE  tx'[s] = q /\ OthersStay(s) /\ RequestsTyped'
<1>1. SessionsRun' /\ tx'[s] = q /\ OthersStay(s)
  BY RequestReplaced DEF ReportShapes, OthersStay
<1>2. q.op \in AppointmentOps \cup ReportOps => q \in AppointmentRequests \cup ReportRequests
  BY DEF Requests, Idle, AppointmentOps, ReportOps
<1> QED BY <1>1, <1>2 DEF ReportShapes, RequestsTyped, OthersStay

LEMMA ReportRequestShape ==
  ASSUME ReportShapes, NEW s \in Sessions, ReportOp(s)
  PROVE  /\ tx[s] \in ReportRequests /\ tx[s].case \in Cases /\ tx[s].final \in Finals
         /\ tx[s].set \in ReportInputs \cup {NoChange}
<1>1. tx[s] \in ReportRequests
  BY DEF ReportShapes, ReportOp, ReportOps, AppointmentRequests
<1> QED BY <1>1 DEF ReportRequests

LEMMA AppointmentRequestShape ==
  ASSUME ReportShapes, NEW s \in Sessions
  PROVE  /\ tx[s].op = "createAppt" => tx[s] \in CreateRequests /\ tx[s].case \in Cases
         /\ tx[s].op \in {"checkOthers", "updateAppt"} =>
              /\ tx[s] \in UpdateRequests /\ tx[s].appt \in Appointments
              /\ tx[s].set \in [status : AppointmentStatuses \cup {"null"}, visit : Visits,
                                moved : BOOLEAN]
BY DEF ReportShapes, AppointmentOps, AppointmentRequests, ReportRequests

LEMMA RowShape ==
  ASSUME NEW row \in AppointmentRows
  PROVE  row # NoRow /\ row.case \in Cases
BY DEF AppointmentRows, NoRow, AppointmentStatuses

LEMMA ReportRowShape ==
  ASSUME NEW row \in ReportRows
  PROVE  row # NoReport /\ row.final \in Finals /\ row.status \in ReportStatuses
BY DEF ReportRows, NoReport, ReportStatuses

LEMMA EligibleIsVisited ==
  ASSUME NEW a, NEW c, Eligible(a, c)
  PROVE  a \in Appointments /\ Visited(a, c)
BY DEF Eligible, Visited
-------------------------------------------------------------------------------
(* What a request that goes on still refers to.                            *)
LEMMA BackedKept ==
  ASSUME ReportsInv, VisitsKept, NEW t \in Sessions, tx'[t] = tx[t],
         report[tx[t].case] # NoReport => report'[tx[t].case] # NoReport
  PROVE  ReportBacked(t)'
<1>1. ReportShapes /\ ReportBacked(t)
  BY DEF ReportsInv
<1>2. ReportOp(t)' = ReportOp(t) /\ StoresFinal(t)' = StoresFinal(t)
  BY DEF ReportOp, StoresFinal
<1>3. StoresFinal(t) => ReportOp(t)
  BY DEF ReportOp, StoresFinal
<1>4. ASSUME StoresFinal(t), tx[t].final # NoAppointment
      PROVE  Visited(tx[t].final, tx[t].case)'
  <2>1. tx[t].final \in Appointments /\ tx[t].case \in Cases
    BY <1>1, <1>3, <1>4, ReportRequestShape DEF Finals
  <2>2. Visited(tx[t].final, tx[t].case)
    BY <1>1, <1>4 DEF ReportBacked
  <2>3. PICK a \in Appointments, c \in Cases : a = tx[t].final /\ c = tx[t].case
    BY <2>1
  <2>4. Visited(a, c)'
    BY <2>2, <2>3 DEF VisitsKept
  <2> QED BY <2>3, <2>4 DEF Visited, Exists
<1> QED BY <1>1, <1>2, <1>4 DEF ReportBacked

(* A step that writes no report.                                           *)
LEMMA QuietReports ==
  ASSUME ReportsInv, ReportShapes', NEW s \in Sessions, OthersStay(s), report' = report,
         VisitsKept, StampsKept, UpdatesOfRows', ReportBacked(s)', CompletionsExclude'
  PROVE  ReportsInv'
<1>1. FinalOfSameCase'
  <2> SUFFICES ASSUME NEW c \in Cases, report[c].final # NoAppointment
               PROVE  Visited(report[c].final, c)'
    BY DEF FinalOfSameCase, Visited, Exists
  <2>1. report[c].final \in Appointments /\ Visited(report[c].final, c)
    BY DEF ReportsInv, ReportShapes, FinalOfSameCase, ReportRows, NoReport, Finals
  <2>2. PICK a \in Appointments : a = report[c].final
    BY <2>1
  <2>3. Visited(a, c)'
    BY <2>1, <2>2 DEF VisitsKept
  <2> QED BY <2>2, <2>3 DEF Visited, Exists
<1>2. CompletedReportCompletesCase'
  BY DEF ReportsInv, CompletedReportCompletesCase, StampsKept
<1>3. \A t \in Sessions : ReportBacked(t)'
  BY BackedKept DEF OthersStay
<1> QED BY <1>1, <1>2, <1>3 DEF ReportsInv

(* The locks of a step that neither takes one nor frees another's.         *)
LEMMA LocksKept ==
  ASSUME ReportsInv, NEW s \in Sessions, OthersStay(s), report' = report,
         \/ /\ reportLock' = reportLock /\ (HoldsLock(s)' <=> HoldsLock(s))
            /\ HoldsLock(s) => tx'[s].case = tx[s].case
         \/ Unlock(s) /\ ~HoldsLock(s)'
  PROVE  CompletionsExclude'
<1>1. CompletionsExclude /\ ReportShapes
  BY DEF ReportsInv
<1>2. ASSUME NEW t \in Sessions, HoldsLock(t)'
      PROVE  /\ HoldsLock(t) /\ tx'[t].case = tx[t].case /\ tx[t].case \in Cases
             /\ reportLock'[tx[t].case] = t
  <2>1. HoldsLock(t) /\ tx'[t].case = tx[t].case
    BY <1>2 DEF OthersStay, HoldsLock
  <2>2. tx[t].case \in Cases /\ reportLock[tx[t].case] = t
    BY <1>1, <2>1, ReportRequestShape DEF HoldsLock, ReportOp, CompletionsExclude
  <2>3. Unlock(s) => t # s
    BY <1>2, <2>1, <2>2, ServiceReportsAssumption DEF Unlock
  <2> QED BY <1>2, <2>1, <2>2, <2>3 DEF Unlock
<1>3. ASSUME NEW c \in Cases, reportLock'[c] # NoSession
      PROVE  /\ tx'[reportLock'[c]].op \in {"chooseFinal", "finishReport"}
             /\ tx'[reportLock'[c]].case = c
  <2>1. reportLock'[c] = reportLock[c] /\ (Unlock(s) => reportLock[c] # s)
    BY <1>3 DEF Unlock
  <2>2. PICK t \in Sessions : t = reportLock[c]
    BY <1>1, <1>3, <2>1 DEF ReportShapes
  <2>3. HoldsLock(t) /\ tx[t].case = c
    BY <1>1, <1>3, <2>1, <2>2 DEF CompletionsExclude
  <2>4. HoldsLock(t)' /\ tx'[t].case = c
    BY <2>1, <2>2, <2>3 DEF OthersStay, HoldsLock
  <2> QED BY <2>1, <2>2, <2>4 DEF HoldsLock
<1>4. \A t \in Sessions : HoldsLock(t)' =>
        reportLock'[tx'[t].case] = t /\ report'[tx'[t].case].status # "completed"
  BY <1>1, <1>2 DEF CompletionsExclude
<1> QED BY <1>3, <1>4 DEF CompletionsExclude, HoldsLock
-------------------------------------------------------------------------------
(* Appointments, beside which no report changes.                           *)
LEMMA ResultingShape ==
  ASSUME NEW row \in AppointmentRows,
         NEW set \in [status : AppointmentStatuses \cup {"null"}, visit : Visits,
                      moved : BOOLEAN]
  PROVE  LET next == Resulting(row, set) IN
         /\ next \in AppointmentRows /\ next.case = row.case
         /\ row.visit # "null" => next.visit # "null"
BY DEF Resulting, Coalesce, Visits, AppointmentRows

LEMMA NextStatusShape ==
  ASSUME NEW in \in PatchInputs
  PROVE  [status |-> NextStatus(in), visit |-> in.visit, moved |-> in.moved]
           \in [status : AppointmentStatuses \cup {"null"}, visit : Visits, moved : BOOLEAN]
<1>1. in \in [status : AppointmentStatuses \cup {"null"}, visit : Visits, moved : BOOLEAN]
  BY AppointmentsAssumption
<1> QED BY <1>1 DEF NextStatus, AppointmentStatuses

(* A step of an appointment request that goes on to q.                     *)
LEMMA AppointmentRequestKeeps ==
  ASSUME ReportsInv, NEW s \in Sessions, ~ReportOp(s), UNCHANGED reportVars,
         NEW q \in AppointmentRequests \cup {Idle}, Continue(s, q),
         appt' \in [Appointments -> AppointmentRows \cup {NoRow}],
         caseRow' \in [Cases -> CaseRows], VisitsKept, StampsKept,
         q.op \in {"checkOthers", "updateAppt"} => Exists(q.appt)'
  PROVE  ReportsInv'
<1>1. ReportShapes /\ q \in Requests /\ report' = report /\ reportLock' = reportLock
  BY DEF ReportsInv, Requests, reportVars
<1>2. tx'[s] = q /\ OthersStay(s) /\ RequestsTyped'
  BY <1>1, ContinueShape
<1>3. ReportShapes'
  BY <1>1, <1>2 DEF ReportShapes, RequestsTyped
<1>4. ~ReportOp(s)' /\ ~HoldsLock(s)' /\ ~HoldsLock(s)
  BY <1>2 DEF ReportOp, HoldsLock, AppointmentRequests, Idle
<1>5. ReportBacked(s)'
  BY <1>4 DEF ReportBacked, ReportOp, StoresFinal
<1>6. UpdatesOfRows'
  <2> SUFFICES ASSUME NEW t \in Sessions, tx'[t].op \in {"checkOthers", "updateAppt"}
               PROVE  Exists(tx[t].appt)'
    BY DEF UpdatesOfRows
  <2>1. CASE t = s
    BY <1>2, <2>1 DEF Exists
  <2>2. CASE t # s
    <3>1. tx'[t] = tx[t]
      BY <1>2, <2>2 DEF OthersStay
    <3>2. PICK a \in Appointments : a = tx[t].appt
      BY <1>1, <3>1, AppointmentRequestShape
    <3>3. Exists(a)
      BY <3>1, <3>2 DEF ReportsInv, UpdatesOfRows
    <3>4. Exists(a)'
      BY <3>3 DEF VisitsKept
    <3> QED BY <3>1, <3>2, <3>4 DEF Exists
  <2> QED BY <2>1, <2>2
<1>7. CompletionsExclude'
  <2>1. HoldsLock(s)' <=> HoldsLock(s)
    BY <1>4
  <2> QED BY <1>1, <1>2, <1>4, <2>1, LocksKept
<1> QED BY <1>1, <1>2, <1>3, <1>5, <1>6, <1>7, QuietReports

LEMMA NothingWritten ==
  ASSUME ReportsInv, UNCHANGED <<caseRow, appt>>
  PROVE  /\ appt' \in [Appointments -> AppointmentRows \cup {NoRow}]
         /\ caseRow' \in [Cases -> CaseRows] /\ VisitsKept /\ StampsKept
BY DEF ReportsInv, ReportShapes, VisitsKept, StampsKept, Visited, Exists

LEMMA StatusSet ==
  ASSUME ReportsInv, NEW c \in Cases, NEW x \in CaseStatuses, SetCaseStatus(c, x)
  PROVE  caseRow' \in [Cases -> CaseRows] /\ StampsKept
BY DEF ReportsInv, ReportShapes, SetCaseStatus, CaseRows, StampsKept

LEMMA RowWritten ==
  ASSUME ReportsInv, NEW a \in Appointments, NEW row \in AppointmentRows,
         appt' = [appt EXCEPT ![a] = row],
         Exists(a) => row.case = appt[a].case /\ (appt[a].visit # "null" => row.visit # "null")
  PROVE  appt' \in [Appointments -> AppointmentRows \cup {NoRow}] /\ VisitsKept
<1>1. appt \in [Appointments -> AppointmentRows \cup {NoRow}] /\ row # NoRow
  BY RowShape DEF ReportsInv, ReportShapes
<1> QED BY <1>1 DEF VisitsKept, Visited, Exists

LEMMA AppointmentStepKeepsInvariant ==
  ASSUME ReportsInv, NEW s \in Sessions, AppointmentStep(s), UNCHANGED reportVars
  PROVE  ReportsInv'
<1>1. ReportShapes /\ UpdatesOfRows
  BY DEF ReportsInv
<1>2. ~ReportOp(s)
  <2>1. tx[s] = Idle \/ tx[s].op \in {"createAppt", "checkOthers", "updateAppt"}
    BY DEF AppointmentStep, ReadForCreate, CommitCreate, ReadAppointment, CheckNoOther,
           CommitUpdate, RollbackAppointment
  <2> QED BY <2>1 DEF ReportOp, Idle
<1>3. "scheduled" \in CaseStatuses /\ "scheduled" \in AppointmentStatuses
  BY DEF CaseStatuses, AppointmentStatuses
<1>4. Idle \in AppointmentRequests \cup {Idle} /\ Idle.op = "idle"
  BY DEF Idle
<1>5. ASSUME NEW c \in Cases, ReadForCreate(s, c) PROVE ReportsInv'
  <2>1. PICK q : q = [op |-> "createAppt", case |-> c]
    OBVIOUS
  <2>2. q \in AppointmentRequests \cup {Idle} /\ q.op = "createAppt"
    BY <2>1 DEF AppointmentRequests
  <2> QED BY <1>2, <1>5, <2>1, <2>2, NothingWritten, AppointmentRequestKeeps DEF ReadForCreate
<1>6. CASE CommitCreate(s)
  <2>1. PICK a \in Appointments :
          \E row : /\ \E v \in CreateVisits :
                       row = [case |-> tx[s].case, status |-> "scheduled", visit |-> v]
                   /\ ~Exists(a) /\ appt' = [appt EXCEPT ![a] = row]
    BY <1>6 DEF CommitCreate
  <2>2. PICK row : /\ \E v \in CreateVisits :
                        row = [case |-> tx[s].case, status |-> "scheduled", visit |-> v]
                   /\ ~Exists(a) /\ appt' = [appt EXCEPT ![a] = row]
    BY <2>1
  <2>3. tx[s].case \in Cases /\ SetCaseStatus(tx[s].case, "scheduled") /\ Continue(s, Idle)
    BY <1>1, <1>6, AppointmentRequestShape DEF CommitCreate, Release
  <2>4. row \in AppointmentRows
    BY <1>3, <2>2, <2>3, AppointmentsAssumption DEF AppointmentRows
  <2>5. appt' \in [Appointments -> AppointmentRows \cup {NoRow}] /\ VisitsKept
    BY <2>2, <2>4, RowWritten
  <2>6. caseRow' \in [Cases -> CaseRows] /\ StampsKept
    BY <1>3, <2>3, StatusSet
  <2> QED BY <1>2, <1>4, <2>3, <2>5, <2>6, AppointmentRequestKeeps
<1>7. ASSUME NEW a \in Appointments, NEW in \in PatchInputs, ReadAppointment(s, a, in)
      PROVE  ReportsInv'
  <2>1. PICK set : set = [status |-> NextStatus(in), visit |-> in.visit, moved |-> in.moved]
    OBVIOUS
  <2>2. set \in [status : AppointmentStatuses \cup {"null"}, visit : Visits, moved : BOOLEAN]
    BY <2>1, NextStatusShape
  <2>3. PICK q : /\ Continue(s, q) /\ q.op \in {"checkOthers", "updateAppt"}
                 /\ q \in UpdateRequests /\ q.appt = a
    <3>1. PICK o \in {"checkOthers", "updateAppt"} :
            Continue(s, [op |-> o, appt |-> a, set |-> set])
      BY <1>7, <2>1 DEF ReadAppointment
    <3> QED BY <2>2, <3>1
  <2>4. Exists(a) /\ UNCHANGED <<caseRow, appt>>
    BY <1>7 DEF ReadAppointment
  <2>5. q \in AppointmentRequests \cup {Idle} /\ Exists(q.appt)'
    BY <2>3, <2>4 DEF AppointmentRequests, Exists
  <2> QED BY <1>2, <2>3, <2>4, <2>5, NothingWritten, AppointmentRequestKeeps
<1>8. CASE CheckNoOther(s)
  <2>1. /\ tx[s] \in UpdateRequests /\ Exists(tx[s].appt) /\ UNCHANGED <<caseRow, appt>>
        /\ Continue(s, [tx[s] EXCEPT !.op = "updateAppt"])
    BY <1>1, <1>8, AppointmentRequestShape DEF CheckNoOther, UpdatesOfRows
  <2>2. PICK q : q = [tx[s] EXCEPT !.op = "updateAppt"]
    OBVIOUS
  <2>3. q \in UpdateRequests /\ q.appt = tx[s].appt
    BY <2>1, <2>2
  <2>4. q \in AppointmentRequests \cup {Idle} /\ Exists(q.appt)'
    BY <2>1, <2>3 DEF AppointmentRequests, Exists
  <2> QED BY <1>2, <2>1, <2>2, <2>4, NothingWritten, AppointmentRequestKeeps
<1>9. CASE CommitUpdate(s)
  <2>1. PICK a \in Appointments : a = tx[s].appt
    BY <1>1, <1>9, AppointmentRequestShape DEF CommitUpdate
  <2>2. PICK row : row = Resulting(appt[a], tx[s].set)
    OBVIOUS
  <2>3. appt[a] \in AppointmentRows
    BY <1>1, <1>9, <2>1 DEF CommitUpdate, UpdatesOfRows, Exists, ReportShapes
  <2>4. /\ row \in AppointmentRows /\ row.case = appt[a].case /\ row.case \in Cases
        /\ appt[a].visit # "null" => row.visit # "null"
    BY <1>1, <1>9, <2>2, <2>3, AppointmentRequestShape, ResultingShape, RowShape
    DEF CommitUpdate
  <2>5. /\ appt' = [appt EXCEPT ![a] = row] /\ Continue(s, Idle)
        /\ UNCHANGED caseRow \/ SetCaseStatus(row.case, "scheduled")
    BY <1>9, <2>1, <2>2 DEF CommitUpdate, Release
  <2>6. appt' \in [Appointments -> AppointmentRows \cup {NoRow}] /\ VisitsKept
    BY <2>4, <2>5, RowWritten
  <2>7. caseRow' \in [Cases -> CaseRows] /\ StampsKept
    <3>1. CASE UNCHANGED caseRow
      BY <1>1, <3>1 DEF ReportShapes, StampsKept
    <3> QED BY <1>3, <2>4, <2>5, <3>1, StatusSet
  <2> QED BY <1>2, <1>4, <2>5, <2>6, <2>7, AppointmentRequestKeeps
<1>10. CASE RollbackAppointment(s)
  <2>1. Continue(s, Idle) /\ UNCHANGED <<caseRow, appt>>
    BY <1>10 DEF RollbackAppointment, Release
  <2> QED BY <1>2, <1>4, <2>1, NothingWritten, AppointmentRequestKeeps
<1> QED BY <1>5, <1>6, <1>7, <1>8, <1>9, <1>10 DEF AppointmentStep
-------------------------------------------------------------------------------
(* Requests of the service itself, up to their writes.                     *)
BackedRequest(q) ==
  /\ q.op \notin {"idle", "createReport"} => report[q.case] # NoReport
  /\ q.op = "updateReport" =>
       q.set.status # "completed" /\ (q.set.sets => q.final = q.set.final)
  /\ \/ q.op \in {"createReport", "updateReport"} /\ q.checked
     \/ q.op = "finishReport"
     => q.final = NoAppointment \/ Visited(q.final, q.case)

LEMMA ReportRequestKeeps ==
  ASSUME ReportsInv, NEW s \in Sessions, UNCHANGED <<caseRow, appt, report>>,
         NEW q \in ReportRequests \cup {Idle}, Continue(s, q), BackedRequest(q),
         reportLock' \in [Cases -> Sessions \cup {NoSession}], CompletionsExclude'
  PROVE  ReportsInv'
<1>1. ReportShapes /\ q \in Requests
  BY DEF ReportsInv, Requests
<1>2. tx'[s] = q /\ OthersStay(s) /\ RequestsTyped'
  BY <1>1, ContinueShape
<1>3. ReportShapes'
  BY <1>1, <1>2 DEF ReportShapes, RequestsTyped
<1>4. ReportBacked(s)'
  BY <1>2 DEF ReportBacked, BackedRequest, StoresFinal, ReportOp, Visited, Exists
<1>5. UpdatesOfRows'
  <2>1. q.op \notin {"checkOthers", "updateAppt"}
    BY DEF ReportRequests, Idle
  <2> QED BY <1>2, <2>1 DEF ReportsInv, UpdatesOfRows, OthersStay, Exists
<1>6. VisitsKept /\ StampsKept
  BY NothingWritten
<1> QED BY <1>2, <1>3, <1>4, <1>5, <1>6, QuietReports

(* A request that holds no lock and takes none.                            *)
LEMMA LocklessRequestKeeps ==
  ASSUME ReportsInv, NEW s \in Sessions, UNCHANGED <<caseRow, appt, reportVars>>,
         NEW q \in ReportRequests \cup {Idle}, Continue(s, q), BackedRequest(q),
         ~HoldsLock(s), q.op \notin {"chooseFinal", "finishReport"}
  PROVE  ReportsInv'
<1>1. ReportShapes /\ q \in Requests /\ report' = report /\ reportLock' = reportLock
  BY DEF ReportsInv, Requests, reportVars
<1>2. tx'[s] = q /\ OthersStay(s)
  BY <1>1, ContinueShape
<1>3. HoldsLock(s)' <=> HoldsLock(s)
  BY <1>2 DEF HoldsLock
<1>4. CompletionsExclude'
  BY <1>1, <1>2, <1>3, LocksKept
<1> QED BY <1>1, <1>4, ReportRequestKeeps DEF ReportShapes

LEMMA RequestShape ==
  ASSUME NEW op \in {"createReport", "updateReport", "lockReport"}, NEW c \in Cases,
         NEW f \in Finals, NEW set \in ReportInputs \cup {NoChange}
  PROVE  /\ Request(op, c, f, set) \in ReportRequests
         /\ Request(op, c, f, set).op = op /\ Request(op, c, f, set).case = c
         /\ Request(op, c, f, set).final = f /\ Request(op, c, f, set).set = set
         /\ Request(op, c, f, set).checked => f = NoAppointment
BY DEF Request, ReportRequests

LEMMA ArrivalKeepsInvariant ==
  ASSUME ReportsInv, NEW s \in Sessions, NEW c \in Cases,
         \/ \E f \in Finals : ReadCaseForReport(s, c, f)
         \/ \E in \in ReportInputs : ReadReport(s, c, in)
         \/ \E f \in Finals : RequestCompletion(s, c, f)
  PROVE  ReportsInv'
<1>1. /\ tx[s] = Idle /\ ~HoldsLock(s) /\ UNCHANGED <<caseRow, appt, reportVars>>
  BY DEF ReadCaseForReport, ReadReport, RequestCompletion, HoldsLock, Idle
<1>2. ASSUME NEW f \in Finals, ReadCaseForReport(s, c, f) PROVE ReportsInv'
  <2>1. PICK q : q = Request("createReport", c, f, NoChange)
    OBVIOUS
  <2>2. q \in ReportRequests /\ q.op = "createReport" /\ Continue(s, q) /\ BackedRequest(q)
    BY <1>2, <2>1, RequestShape DEF ReadCaseForReport, BackedRequest
  <2> QED BY <1>1, <2>2, LocklessRequestKeeps
<1>3. ASSUME NEW in \in ReportInputs, ReadReport(s, c, in) PROVE ReportsInv'
  <2>1. PICK f : f = IF in.sets THEN in.final ELSE NoAppointment
    OBVIOUS
  <2>2. f \in Finals
    BY <2>1, ServiceReportsAssumption DEF Finals
  <2>3. PICK q : q = Request("updateReport", c, f, in)
    OBVIOUS
  <2>4. q \in ReportRequests /\ q.op = "updateReport" /\ Continue(s, q)
    BY <1>3, <2>1, <2>2, <2>3, RequestShape DEF ReadReport
  <2>5. BackedRequest(q)
    BY <1>3, <2>1, <2>2, <2>3, RequestShape DEF ReadReport, BackedRequest
  <2> QED BY <1>1, <2>4, <2>5, LocklessRequestKeeps
<1>4. ASSUME NEW f \in Finals, RequestCompletion(s, c, f) PROVE ReportsInv'
  <2>1. PICK q : q = Request("lockReport", c, f, NoChange)
    OBVIOUS
  <2>2. q \in ReportRequests /\ q.op = "lockReport" /\ Continue(s, q) /\ BackedRequest(q)
    BY <1>4, <2>1, RequestShape DEF RequestCompletion, BackedRequest
  <2> QED BY <1>1, <2>2, LocklessRequestKeeps
<1> QED BY <1>2, <1>3, <1>4

LEMMA CheckFinalKeepsInvariant ==
  ASSUME ReportsInv, NEW s \in Sessions, CheckFinal(s)
  PROVE  ReportsInv'
<1>1. /\ tx[s] \in ReportRequests /\ ReportBacked(s) /\ ReportOp(s) /\ ~HoldsLock(s)
      /\ tx[s].op \in {"createReport", "updateReport"}
      /\ Visited(tx[s].final, tx[s].case)
  BY ReportRequestShape, EligibleIsVisited DEF ReportsInv, CheckFinal, ReportOp, HoldsLock
<1>2. PICK q : q = [tx[s] EXCEPT !.checked = TRUE]
  OBVIOUS
<1>3. /\ q \in ReportRequests /\ q.op = tx[s].op /\ q.case = tx[s].case
      /\ q.final = tx[s].final /\ q.set = tx[s].set
  BY <1>1, <1>2 DEF ReportRequests
<1>4. BackedRequest(q)
  BY <1>1, <1>3 DEF BackedRequest, ReportBacked
<1> QED BY <1>1, <1>2, <1>3, <1>4, LocklessRequestKeeps DEF CheckFinal

(* SELECT ... FOR UPDATE                                                   *)
LEMMA LockKeepsInvariant ==
  ASSUME ReportsInv, NEW s \in Sessions, LockReport(s)
  PROVE  ReportsInv'
<1> DEFINE c == tx[s].case
<1>1. /\ ReportShapes /\ tx[s] \in ReportRequests /\ c \in Cases /\ ReportBacked(s)
      /\ tx[s].op = "lockReport" /\ ReportOp(s) /\ CompletionsExclude
      /\ reportLock[c] = NoSession /\ report[c].status # "completed"
      /\ reportLock' = [reportLock EXCEPT ![c] = s]
      /\ UNCHANGED <<caseRow, appt, report>>
  BY ReportRequestShape DEF ReportsInv, LockReport, ReportOp, LockFree
<1>2. PICK q : q = [tx[s] EXCEPT !.op = "chooseFinal",
                                 !.visited = \E a \in Appointments : Exists(a) /\ appt[a].case = c]
  OBVIOUS
<1>3. PICK v \in BOOLEAN : v = (\E a \in Appointments : Exists(a) /\ appt[a].case = c)
  OBVIOUS
<1>4. /\ q \in ReportRequests /\ q.op = "chooseFinal" /\ q.case = c /\ q \in Requests
  BY <1>1, <1>2, <1>3 DEF ReportRequests, Requests
<1>5. Continue(s, q) /\ BackedRequest(q)
  BY <1>1, <1>2, <1>4 DEF LockReport, BackedRequest, ReportBacked
<1>6. tx'[s] = q /\ OthersStay(s)
  BY <1>1, <1>4, <1>5, ContinueShape
<1> HIDE DEF c
<1>7. reportLock' \in [Cases -> Sessions \cup {NoSession}]
  BY <1>1 DEF ReportShapes
<1>8. \A d \in Cases : reportLock'[d] = IF d = c THEN s ELSE reportLock[d]
  BY <1>1 DEF ReportShapes
<1>9. ASSUME NEW t \in Sessions, HoldsLock(t)'
      PROVE  reportLock'[tx'[t].case] = t /\ report'[tx'[t].case].status # "completed"
  <2>1. CASE t = s
    BY <1>1, <1>4, <1>6, <1>8, <2>1
  <2>2. CASE t # s
    <3>1. HoldsLock(t) /\ tx'[t] = tx[t]
      BY <1>6, <1>9, <2>2 DEF OthersStay, HoldsLock
    <3>2. tx[t].case \in Cases /\ reportLock[tx[t].case] = t
      BY <1>1, <3>1, ReportRequestShape DEF HoldsLock, ReportOp, CompletionsExclude
    <3>3. tx[t].case # c
      BY <1>1, <3>2, ServiceReportsAssumption
    <3> QED BY <1>1, <1>8, <3>1, <3>2, <3>3 DEF CompletionsExclude
  <2> QED BY <2>1, <2>2
<1>10. ASSUME NEW d \in Cases, reportLock'[d] # NoSession
       PROVE  /\ tx'[reportLock'[d]].op \in {"chooseFinal", "finishReport"}
              /\ tx'[reportLock'[d]].case = d
  <2>1. CASE d = c
    BY <1>4, <1>6, <1>8, <2>1
  <2>2. CASE d # c
    <3>1. PICK t \in Sessions : t = reportLock[d]
      BY <1>1, <1>8, <1>10, <2>2 DEF ReportShapes
    <3>2. HoldsLock(t) /\ tx[t].case = d
      BY <1>1, <1>8, <1>10, <2>2, <3>1 DEF CompletionsExclude
    <3>3. t # s
      BY <1>1, <3>2 DEF HoldsLock
    <3> QED BY <1>6, <1>8, <2>2, <3>1, <3>2, <3>3 DEF OthersStay, HoldsLock
  <2> QED BY <2>1, <2>2
<1>11. CompletionsExclude'
  BY <1>9, <1>10 DEF CompletionsExclude, HoldsLock
<1> QED BY <1>1, <1>4, <1>5, <1>7, <1>11, ReportRequestKeeps

LEMMA CandidatesAreVisited ==
  ASSUME ReportShapes, NEW s \in Sessions, ReportOp(s), NEW f \in FinalCandidates(s)
  PROVE  f = NoAppointment \/ (f \in Appointments /\ Visited(f, tx[s].case))
<1>1. \/ f = NoAppointment
      \/ Eligible(f, tx[s].case)
  BY DEF FinalCandidates
<1> QED BY <1>1, EligibleIsVisited

LEMMA ChooseFinalKeepsInvariant ==
  ASSUME ReportsInv, NEW s \in Sessions, ChooseFinal(s)
  PROVE  ReportsInv'
<1>1. /\ ReportShapes /\ tx[s] \in ReportRequests /\ ReportBacked(s)
      /\ tx[s].op = "chooseFinal" /\ ReportOp(s) /\ HoldsLock(s)
      /\ UNCHANGED <<caseRow, appt, reportVars>>
  BY ReportRequestShape DEF ReportsInv, ChooseFinal, ReportOp, HoldsLock
<1>2. PICK f \in FinalCandidates(s) :
        Continue(s, [tx[s] EXCEPT !.op = "finishReport", !.final = f])
  BY DEF ChooseFinal
<1>3. f = NoAppointment \/ (f \in Appointments /\ Visited(f, tx[s].case))
  BY <1>1, CandidatesAreVisited
<1>4. PICK q : q = [tx[s] EXCEPT !.op = "finishReport", !.final = f]
  OBVIOUS
<1>5. /\ q \in ReportRequests /\ q.op = "finishReport" /\ q.case = tx[s].case /\ q.final = f
      /\ q \in Requests
  BY <1>1, <1>3, <1>4 DEF ReportRequests, Finals, Requests
<1>6. BackedRequest(q)
  BY <1>1, <1>3, <1>5 DEF BackedRequest, ReportBacked
<1>7. tx'[s] = q /\ OthersStay(s)
  BY <1>1, <1>2, <1>4, <1>5, ContinueShape
<1>8. CompletionsExclude'
  <2>1. HoldsLock(s)' <=> HoldsLock(s)
    BY <1>1, <1>5, <1>7 DEF HoldsLock
  <2>2. tx'[s].case = tx[s].case
    BY <1>5, <1>7
  <2> QED BY <1>1, <1>7, <2>1, <2>2, LocksKept DEF reportVars
<1> QED BY <1>1, <1>2, <1>4, <1>5, <1>6, <1>8, ReportRequestKeeps DEF ReportShapes, reportVars

(* A failed check or a ROLLBACK frees the row.                             *)
LEMMA ReleaseKeepsInvariant ==
  ASSUME ReportsInv, NEW s \in Sessions, FailReport(s) \/ RollbackReport(s)
  PROVE  ReportsInv'
<1>1. ReportShapes /\ Continue(s, Idle) /\ Unlock(s) /\ UNCHANGED <<caseRow, appt, report>>
  BY DEF ReportsInv, FailReport, RollbackReport, Release
<1>2. tx'[s] = Idle /\ OthersStay(s)
  BY <1>1, IdleShape, ContinueShape
<1>3. reportLock' \in [Cases -> Sessions \cup {NoSession}]
  BY <1>1 DEF ReportShapes, Unlock
<1>4. BackedRequest(Idle)
  BY IdleShape DEF BackedRequest
<1>5. CompletionsExclude'
  <2>1. ~HoldsLock(s)'
    BY <1>2, IdleShape DEF HoldsLock
  <2> QED BY <1>1, <1>2, <2>1, LocksKept
<1> QED BY <1>1, <1>3, <1>4, <1>5, ReportRequestKeeps
-------------------------------------------------------------------------------
(* A COMMIT that writes the report of case c.                              *)
LEMMA ReportWritten ==
  ASSUME ReportsInv, NEW s \in Sessions, NEW c \in Cases, NEW row \in ReportRows,
         report' = [report EXCEPT ![c] = row], Release(s), appt' = appt, StampsKept,
         caseRow' \in [Cases -> CaseRows],
         row.final # NoAppointment => Visited(row.final, c),
         row.status = "completed" => "completed" \in caseRow'[c].stamps,
         \A t \in Sessions \ {s} : HoldsLock(t) => tx[t].case # c,
         Unlock(s) \/ (reportLock' = reportLock /\ ~HoldsLock(s))
  PROVE  ReportsInv'
<1>1. ReportShapes /\ CompletionsExclude /\ row # NoReport
  BY ReportRowShape DEF ReportsInv
<1>2. tx'[s] = Idle /\ OthersStay(s) /\ RequestsTyped'
  BY <1>1, IdleShape, ContinueShape DEF Release
<1>3. report' \in [Cases -> ReportRows \cup {NoReport}]
      /\ \A d \in Cases : report'[d] = IF d = c THEN row ELSE report[d]
  BY <1>1 DEF ReportShapes
<1>4. reportLock' \in [Cases -> Sessions \cup {NoSession}]
  BY <1>1 DEF ReportShapes, Unlock
<1>5. ReportShapes'
  BY <1>1, <1>2, <1>3, <1>4 DEF ReportShapes, RequestsTyped
<1>6. VisitsKept
  BY DEF VisitsKept, Visited, Exists
<1>7. FinalOfSameCase'
  BY <1>3 DEF ReportsInv, FinalOfSameCase, Visited, Exists
<1>8. CompletedReportCompletesCase'
  BY <1>3 DEF ReportsInv, CompletedReportCompletesCase, StampsKept
<1>9. UpdatesOfRows'
  BY <1>2, IdleShape DEF ReportsInv, UpdatesOfRows, OthersStay, Exists
<1>10. ASSUME NEW t \in Sessions PROVE ReportBacked(t)'
  <2>1. CASE t = s
    BY <1>2, <2>1, IdleShape DEF ReportBacked, ReportOp, StoresFinal
  <2>2. CASE t # s
    <3>1. tx'[t] = tx[t]
      BY <1>2, <2>2 DEF OthersStay
    <3>2. CASE ReportOp(t)
      <4>1. tx[t].case \in Cases
        BY <1>1, <3>2, ReportRequestShape
      <4>2. report[tx[t].case] # NoReport => report'[tx[t].case] # NoReport
        BY <1>1, <1>3, <4>1
      <4> QED BY <1>6, <3>1, <4>2, BackedKept
    <3>3. CASE ~ReportOp(t)
      BY <3>1, <3>3 DEF ReportBacked, ReportOp, StoresFinal
    <3> QED BY <3>2, <3>3
  <2> QED BY <2>1, <2>2
<1>11. CompletionsExclude'
  <2>1. ASSUME NEW t \in Sessions, HoldsLock(t)'
        PROVE  reportLock'[tx'[t].case] = t /\ report'[tx'[t].case].status # "completed"
    <3>1. t # s /\ HoldsLock(t) /\ tx'[t] = tx[t]
      BY <1>2, <2>1, IdleShape DEF OthersStay, HoldsLock
    <3>2. tx[t].case \in Cases /\ tx[t].case # c /\ reportLock[tx[t].case] = t
      BY <1>1, <3>1, ReportRequestShape DEF HoldsLock, ReportOp, CompletionsExclude
    <3>3. reportLock'[tx[t].case] = t
      BY <3>1, <3>2 DEF Unlock
    <3> QED BY <1>1, <1>3, <3>1, <3>2, <3>3 DEF CompletionsExclude
  <2>2. ASSUME NEW d \in Cases, reportLock'[d] # NoSession
        PROVE  /\ tx'[reportLock'[d]].op \in {"chooseFinal", "finishReport"}
               /\ tx'[reportLock'[d]].case = d
    <3>1. reportLock'[d] = reportLock[d]
      BY <2>2 DEF Unlock
    <3>2. PICK t \in Sessions : t = reportLock[d]
      BY <1>1, <2>2, <3>1 DEF ReportShapes
    <3>3. HoldsLock(t) /\ tx[t].case = d
      BY <1>1, <2>2, <3>1, <3>2 DEF CompletionsExclude
    <3>4. t # s
      BY <2>2, <3>1, <3>2, <3>3 DEF Unlock
    <3> QED BY <1>2, <3>1, <3>2, <3>3, <3>4 DEF OthersStay, HoldsLock
  <2> QED BY <2>1, <2>2 DEF CompletionsExclude, HoldsLock
<1> QED BY <1>5, <1>7, <1>8, <1>9, <1>10, <1>11 DEF ReportsInv

LEMMA CreateKeepsInvariant ==
  ASSUME ReportsInv, NEW s \in Sessions, CommitCreateReport(s)
  PROVE  ReportsInv'
<1> DEFINE c == tx[s].case
<1>1. /\ ReportShapes /\ CompletionsExclude /\ c \in Cases /\ tx[s].final \in Finals
      /\ tx[s].op = "createReport" /\ ~HoldsLock(s) /\ StoresFinal(s) /\ ReportBacked(s)
      /\ report[c] = NoReport /\ SetCaseStatus(c, "on_site") /\ appt' = appt
      /\ reportLock' = reportLock /\ Release(s)
  BY ReportRequestShape
  DEF ReportsInv, CommitCreateReport, ReportOp, HoldsLock, StoresFinal
<1>2. PICK row : row = [status |-> "in_progress", final |-> tx[s].final]
  OBVIOUS
<1>3. row \in ReportRows /\ row.final = tx[s].final /\ row.status # "completed"
  BY <1>1, <1>2 DEF ReportRows, ReportStatuses
<1>4. report' = [report EXCEPT ![c] = row]
  BY <1>2 DEF CommitCreateReport
<1>5. row.final # NoAppointment => Visited(row.final, c)
  BY <1>1, <1>3 DEF ReportBacked
<1>6. caseRow' \in [Cases -> CaseRows] /\ StampsKept
  <2>1. "on_site" \in CaseStatuses
    BY DEF CaseStatuses
  <2> QED BY <1>1, <2>1, StatusSet
<1>7. ASSUME NEW t \in Sessions, HoldsLock(t), tx[t].case = c PROVE FALSE
  <2>1. ReportOp(t) /\ tx[t].op # "createReport" /\ ReportBacked(t)
    BY <1>7 DEF HoldsLock, ReportOp, ReportsInv
  <2> QED BY <1>1, <1>7, <2>1 DEF ReportBacked
<1> HIDE DEF c
<1> QED BY <1>1, <1>3, <1>4, <1>5, <1>6, <1>7, ReportWritten

LEMMA UpdateKeepsInvariant ==
  ASSUME ReportsInv, NEW s \in Sessions, CommitUpdateReport(s)
  PROVE  ReportsInv'
<1> DEFINE c == tx[s].case
<1>1. /\ ReportShapes /\ CompletionsExclude /\ c \in Cases /\ tx[s].final \in Finals
      /\ tx[s].set \in ReportInputs \cup {NoChange} /\ ReportOp(s)
      /\ tx[s].op = "updateReport" /\ ~HoldsLock(s) /\ StoresFinal(s) /\ ReportBacked(s)
      /\ reportLock[c] = NoSession /\ report' = [report EXCEPT ![c] = Edited(@, tx[s].set)]
      /\ caseRow' = caseRow /\ appt' = appt /\ reportLock' = reportLock /\ Release(s)
  BY ReportRequestShape
  DEF ReportsInv, CommitUpdateReport, LockFree, ReportOp, HoldsLock, StoresFinal
<1>2. report[c] \in ReportRows
  BY <1>1 DEF ReportBacked, ReportShapes
<1>3. /\ tx[s].set.status \in ReportStatuses \cup {"null"} /\ tx[s].set.status # "completed"
      /\ tx[s].set.final \in Finals /\ tx[s].set.sets \in BOOLEAN
  <2>1. tx[s].set \in ReportInputs => tx[s].set.status \in ReportStatuses \cup {"null"}
          /\ tx[s].set.final \in Finals /\ tx[s].set.sets \in BOOLEAN
    BY ServiceReportsAssumption
  <2>2. NoChange.status = "null" /\ NoChange.sets = FALSE /\ NoChange.final \in Finals
    BY DEF NoChange, Finals
  <2> QED BY <1>1, <2>1, <2>2 DEF ReportBacked
<1>4. PICK row : row = Edited(report[c], tx[s].set)
  OBVIOUS
<1>5. /\ row \in ReportRows
      /\ row.status = "completed" => report[c].status = "completed"
      /\ row.final = IF tx[s].set.sets THEN tx[s].final ELSE report[c].final
  BY <1>1, <1>2, <1>3, <1>4 DEF Edited, Coalesce, ReportRows, ReportBacked, ReportStatuses
<1>6. report' = [report EXCEPT ![c] = row]
  BY <1>1, <1>4 DEF ReportShapes
<1>7. row.final # NoAppointment => Visited(row.final, c)
  BY <1>1, <1>5 DEF ReportBacked, ReportsInv, FinalOfSameCase
<1>8. row.status = "completed" => "completed" \in caseRow'[c].stamps
  BY <1>1, <1>5 DEF ReportsInv, CompletedReportCompletesCase
<1>9. caseRow' \in [Cases -> CaseRows] /\ StampsKept
  BY <1>1, NothingWritten
<1>10. ASSUME NEW t \in Sessions, HoldsLock(t), tx[t].case = c PROVE FALSE
  BY <1>1, <1>10, ServiceReportsAssumption DEF CompletionsExclude
<1> HIDE DEF c
<1> QED BY <1>1, <1>5, <1>6, <1>7, <1>8, <1>9, <1>10, ReportWritten

LEMMA CompletionKeepsInvariant ==
  ASSUME ReportsInv, NEW s \in Sessions, CommitCompletion(s)
  PROVE  ReportsInv'
<1> DEFINE c == tx[s].case
<1>1. /\ ReportShapes /\ CompletionsExclude /\ c \in Cases /\ tx[s].final \in Finals
      /\ tx[s].op = "finishReport" /\ HoldsLock(s) /\ StoresFinal(s) /\ ReportBacked(s)
      /\ appt' = appt /\ Release(s) /\ Unlock(s)
      /\ caseRow' = [caseRow EXCEPT ![c] = [status |-> "completed",
                                           stamps |-> @.stamps \cup {"completed"}]]
  BY ReportRequestShape
  DEF ReportsInv, CommitCompletion, ReportOp, HoldsLock, StoresFinal
<1>2. PICK row : row = [status |-> "completed", final |-> tx[s].final]
  OBVIOUS
<1>3. row \in ReportRows /\ row.final = tx[s].final
  BY <1>1, <1>2 DEF ReportRows, ReportStatuses
<1>4. report' = [report EXCEPT ![c] = row]
  BY <1>2 DEF CommitCompletion
<1>5. row.final # NoAppointment => Visited(row.final, c)
  BY <1>1, <1>3 DEF ReportBacked
<1> HIDE DEF c
<1>6. /\ caseRow' \in [Cases -> CaseRows] /\ StampsKept
      /\ "completed" \in caseRow'[c].stamps
  <2>1. caseRow \in [Cases -> CaseRows]
    BY <1>1 DEF ReportShapes
  <2>2. PICK cr : cr = [status |-> "completed", stamps |-> caseRow[c].stamps \cup {"completed"}]
    OBVIOUS
  <2>3. cr \in CaseRows /\ caseRow[c].stamps \subseteq cr.stamps /\ "completed" \in cr.stamps
    BY <1>1, <2>1, <2>2 DEF CaseRows, CaseStatuses, CaseStamps
  <2>4. caseRow' = [caseRow EXCEPT ![c] = cr]
    BY <1>1, <2>1, <2>2
  <2> QED BY <1>1, <2>1, <2>3, <2>4 DEF StampsKept
<1>7. ASSUME NEW t \in Sessions \ {s}, HoldsLock(t), tx[t].case = c PROVE FALSE
  BY <1>1, <1>7 DEF CompletionsExclude, c
<1> QED BY <1>1, <1>3, <1>4, <1>5, <1>6, <1>7, ReportWritten
-------------------------------------------------------------------------------
LEMMA ReportsInitInvariant == ReportsInit => ReportsInv
<1> SUFFICES ASSUME ReportsInit PROVE ReportsInv
  OBVIOUS
<1>1. /\ caseRow \in [Cases -> CaseRows] /\ appt = [a \in Appointments |-> NoRow]
      /\ tx = [s \in Sessions |-> Idle] /\ report = [c \in Cases |-> NoReport]
      /\ reportLock = [c \in Cases |-> NoSession]
  BY CaseStoreAssumption DEF ReportsInit, AppointmentsInit, InitCases
<1>2. ReportShapes
  BY <1>1 DEF ReportShapes, SessionsRun, Idle, AppointmentOps, ReportOps
<1>3. NoReport.final = NoAppointment /\ NoReport.status # "completed"
  BY DEF NoReport
<1>4. FinalOfSameCase /\ CompletedReportCompletesCase
  BY <1>1, <1>3 DEF FinalOfSameCase, CompletedReportCompletesCase
<1>5. CompletionsExclude /\ UpdatesOfRows /\ \A s \in Sessions : ReportBacked(s)
  BY <1>1, IdleShape
  DEF CompletionsExclude, UpdatesOfRows, ReportBacked, HoldsLock, ReportOp, StoresFinal
<1> QED BY <1>2, <1>4, <1>5 DEF ReportsInv

LEMMA ReportStepKeepsInvariant ==
  ASSUME ReportsInv, NEW s \in Sessions, ReportStep(s)
  PROVE  ReportsInv'
<1>1. ASSUME NEW c \in Cases,
             \/ \E f \in Finals : ReadCaseForReport(s, c, f)
             \/ \E in \in ReportInputs : ReadReport(s, c, in)
             \/ \E f \in Finals : RequestCompletion(s, c, f)
      PROVE  ReportsInv'
  BY <1>1, ArrivalKeepsInvariant
<1>2. CASE Proceed(s)
  BY <1>2, CheckFinalKeepsInvariant, CreateKeepsInvariant, ChooseFinalKeepsInvariant,
     CompletionKeepsInvariant DEF Proceed
<1>3. CASE Wait(s) \/ RollbackReport(s)
  BY <1>3, LockKeepsInvariant, UpdateKeepsInvariant, ReleaseKeepsInvariant DEF Wait
<1> QED BY <1>1, <1>2, <1>3 DEF ReportStep

(* What a step is to the other services: it is on a request of this one,   *)
(* and shows cases on site or completed, the latter with its timestamp.    *)
LEMMA ReportRequestSeen ==
  ASSUME ReportShapes, NEW s \in Sessions, tx[s] = Idle \/ ReportOp(s),
         NEW q \in ReportRequests \cup {Idle}, Continue(s, q)
  PROVE  StepOf(s, ReportOps)
<1>1. tx'[s] = q
  BY ContinueShape DEF Requests
<1>2. q = Idle \/ q.op \in ReportOps
  BY DEF ReportRequests, ReportOps
<1> QED BY <1>1, <1>2 DEF StepOf, Moves, Continue, ReportOp, ReportOps

LEMMA ReportStepSeen ==
  ASSUME ReportsInv, NEW s \in Sessions, ReportStep(s)
  PROVE  StepOf(s, ReportOps) /\ CasesMoved({"on_site", "completed"}, {"completed"})
<1>1. ReportShapes /\ caseRow \in [Cases -> CaseRows]
  BY DEF ReportsInv, ReportShapes
<1>2. ASSUME NEW c \in Cases, NEW f \in Finals,
             ReadCaseForReport(s, c, f) \/ RequestCompletion(s, c, f)
      PROVE  StepOf(s, ReportOps)
  <2>1. PICK q : /\ q = Request("createReport", c, f, NoChange)
                    \/ q = Request("lockReport", c, f, NoChange)
                 /\ Continue(s, q)
    BY <1>2 DEF ReadCaseForReport, RequestCompletion
  <2>2. q \in ReportRequests
    BY <2>1, RequestShape
  <2> QED BY <1>1, <1>2, <2>1, <2>2, ReportRequestSeen DEF ReadCaseForReport, RequestCompletion
<1>3. ASSUME NEW c \in Cases, NEW in \in ReportInputs, ReadReport(s, c, in)
      PROVE  StepOf(s, ReportOps)
  <2>1. PICK f : f = IF in.sets THEN in.final ELSE NoAppointment
    OBVIOUS
  <2>2. f \in Finals
    BY <2>1, ServiceReportsAssumption DEF Finals
  <2>3. PICK q : q = Request("updateReport", c, f, in)
    OBVIOUS
  <2>4. q \in ReportRequests
    BY <2>2, <2>3, RequestShape
  <2> QED BY <1>1, <1>3, <2>1, <2>3, <2>4, ReportRequestSeen DEF ReadReport
<1>4. ASSUME CheckFinal(s) \/ LockReport(s) \/ ChooseFinal(s)
      PROVE  StepOf(s, ReportOps)
  <2>1. ReportOp(s) /\ tx[s] \in ReportRequests
    BY <1>1, <1>4, ReportRequestShape DEF CheckFinal, LockReport, ChooseFinal, ReportOp
  <2>2. PICK v \in BOOLEAN :
          v = (\E a \in Appointments : Exists(a) /\ appt[a].case = tx[s].case)
    OBVIOUS
  <2>3. ASSUME NEW f \in FinalCandidates(s) PROVE f \in Finals
    BY <1>1, <2>1, CandidatesAreVisited DEF Finals
  <2>4. PICK q : /\ Continue(s, q)
                 /\ \/ q = [tx[s] EXCEPT !.checked = TRUE]
                    \/ q = [tx[s] EXCEPT !.op = "chooseFinal", !.visited = v]
                    \/ \E f \in FinalCandidates(s) :
                         q = [tx[s] EXCEPT !.op = "finishReport", !.final = f]
    <3>1. CASE CheckFinal(s)
      BY <3>1 DEF CheckFinal
    <3>2. CASE LockReport(s)
      BY <2>2, <3>2 DEF LockReport
    <3>3. CASE ChooseFinal(s)
      BY <3>3 DEF ChooseFinal
    <3> QED BY <1>4, <3>1, <3>2, <3>3
  <2>5. q \in ReportRequests
    BY <2>1, <2>2, <2>3, <2>4 DEF ReportRequests
  <2> QED BY <1>1, <2>1, <2>4, <2>5, ReportRequestSeen
<1>5. ASSUME ReportOp(s), Continue(s, Idle) PROVE StepOf(s, ReportOps)
  BY <1>1, <1>5, ReportRequestSeen
<1>6. StepOf(s, ReportOps)
  BY <1>2, <1>3, <1>4, <1>5
     DEF ReportStep, Proceed, Wait, CommitCreateReport, CommitUpdateReport, CommitCompletion,
         FailReport, RollbackReport, Release, ReportOp
<1>7. CASE UNCHANGED caseRow
  BY <1>1, <1>6, <1>7 DEF CasesMoved
<1>8. CASE CommitCreateReport(s)
  <2>1. tx[s].case \in Cases /\ SetCaseStatus(tx[s].case, "on_site")
    BY <1>1, <1>8, ReportRequestShape DEF CommitCreateReport, ReportOp
  <2>2. CasesMoved({"on_site", "completed"}, {"completed"})
    BY <1>1, <2>1 DEF SetCaseStatus, CasesMoved, CaseRows, CaseStatuses, CaseStamps
  <2> QED BY <1>6, <2>2
<1>9. CASE CommitCompletion(s)
  <2>1. tx[s].case \in Cases
    BY <1>1, <1>9, ReportRequestShape DEF CommitCompletion, ReportOp
  <2>2. PICK cr : cr = [status |-> "completed",
                        stamps |-> caseRow[tx[s].case].stamps \cup {"completed"}]
    OBVIOUS
  <2>3. cr \in CaseRows
    BY <1>1, <2>1, <2>2 DEF CaseRows, CaseStatuses, CaseStamps
  <2>4. caseRow' = [caseRow EXCEPT ![tx[s].case] = cr]
    BY <1>1, <1>9, <2>1, <2>2 DEF CommitCompletion
  <2>5. caseRow' \in [Cases -> CaseRows]
        /\ \A c \in Cases : caseRow'[c] = IF c = tx[s].case THEN cr ELSE caseRow[c]
    BY <1>1, <2>3, <2>4
  <2>6. CasesMoved({"on_site", "completed"}, {"completed"})
    BY <2>2, <2>5 DEF CasesMoved
  <2> QED BY <1>6, <2>6
<1> QED BY <1>7, <1>8, <1>9
  DEF ReportStep, Proceed, Wait, ReadCaseForReport, ReadReport, RequestCompletion, CheckFinal,
      LockReport, ChooseFinal, CommitUpdateReport, FailReport, RollbackReport

(* A step of another service keeps the invariant.                          *)
LEMMA ReportsUndisturbed ==
  ASSUME ReportsInv, NEW s \in Sessions, StepElsewhere(s, AppointmentOps \cup ReportOps),
         NEW statuses, NEW stamps, CasesMoved(statuses, stamps), UNCHANGED <<appt, reportVars>>
  PROVE  ReportsInv'
<1>1. /\ ReportShapes /\ SessionsRun' /\ OthersStay(s)
      /\ tx[s].op \notin AppointmentOps \cup ReportOps
      /\ tx'[s].op \notin AppointmentOps \cup ReportOps
      /\ report' = report /\ reportLock' = reportLock /\ appt' = appt
  BY DEF StepElsewhere, Moves, ReportsInv, ReportShapes, SessionsRun, OthersStay, reportVars
<1>2. ReportShapes'
  BY <1>1 DEF ReportShapes, OthersStay, CasesMoved
<1>3. VisitsKept /\ StampsKept
  BY <1>1 DEF VisitsKept, Visited, Exists, StampsKept, CasesMoved
<1>4. ReportBacked(s)'
  BY <1>1 DEF ReportBacked, ReportOp, StoresFinal, ReportOps
<1>5. UpdatesOfRows'
  BY <1>1 DEF ReportsInv, UpdatesOfRows, OthersStay, Exists, AppointmentOps
<1>6. CompletionsExclude'
  <2>1. ~HoldsLock(s) /\ ~HoldsLock(s)'
    BY <1>1 DEF HoldsLock, ReportOps
  <2> QED BY <1>1, <2>1, LocksKept
<1> QED BY <1>1, <1>2, <1>3, <1>4, <1>5, <1>6, QuietReports

LEMMA ReportsStepInvariant == ReportsInv /\ [ReportsNext]_vars => ReportsInv'
<1> SUFFICES ASSUME ReportsInv, [ReportsNext]_vars PROVE ReportsInv'
  OBVIOUS
<1>1. CASE UNCHANGED vars
  <2>1. UNCHANGED <<caseRow, tx, appt, report, reportLock>>
    BY <1>1 DEF vars, apptVars, reportVars
  <2> QED BY <2>1
    DEF ReportsInv, ReportShapes, SessionsRun, FinalOfSameCase, CompletionsExclude,
        CompletedReportCompletesCase, UpdatesOfRows, ReportBacked, StoresFinal, ReportOp,
        HoldsLock, Visited, Exists
<1>2. ASSUME NEW s \in Sessions, AppointmentStep(s), UNCHANGED reportVars PROVE ReportsInv'
  BY <1>2, AppointmentStepKeepsInvariant
<1>3. ASSUME NEW s \in Sessions, ReportStep(s) PROVE ReportsInv'
  BY <1>3, ReportStepKeepsInvariant
<1> QED BY <1>1, <1>2, <1>3 DEF ReportsNext

(* ReportsInv is inductive, whatever edits, completions and PATCHes of      *)
(* appointments overlap in FieldServiceReportService and                   *)
(* AppointmentService.                                                     *)
THEOREM ReportsInvariant == ReportsSpec => []ReportsInv
BY ReportsInitInvariant, ReportsStepInvariant, PTL DEF ReportsSpec

(* Cases, appointments, reports, locks and requests keep their types.      *)
THEOREM ReportsTypeCorrect == ReportsSpec => []ReportsTypeOK
<1> DEFINE Own == \A s \in Sessions : tx[s] = Idle \/ tx[s].op \in AppointmentOps \cup ReportOps
           Both == AppointmentsInv /\ ReportsInv /\ Own
<1>1. ReportsInit => Both
  BY AppointmentsInitial, ReportsInitInvariant DEF ReportsInit, AppointmentsInit, InitCases
<1>2. Both /\ [ReportsNext]_vars => Both'
  <2> SUFFICES ASSUME Both, [ReportsNext]_vars PROVE Both'
    OBVIOUS
  <2>1. ReportsInv'
    BY ReportsStepInvariant
  <2>2. ASSUME NEW s \in Sessions, ReportStep(s)
        PROVE  AppointmentsInv' /\ StepOf(s, AppointmentOps \cup ReportOps)
    <3>1. StepOf(s, ReportOps) /\ caseRow' \in [Cases -> CaseRows]
      BY <2>2, ReportStepSeen DEF CasesMoved
    <3>2. StepElsewhere(s, AppointmentOps)
      BY <3>1, SeenElsewhere DEF AppointmentOps, ReportOps
    <3>3. UNCHANGED appt
      BY <2>2 DEF ReportStep, Proceed, Wait, ReadCaseForReport, ReadReport, RequestCompletion,
                  CheckFinal, LockReport, ChooseFinal, CommitCreateReport, CommitUpdateReport,
                  CommitCompletion, FailReport, RollbackReport
    <3> QED BY <3>1, <3>2, <3>3, AppointmentsUndisturbed DEF StepOf
  <2>3. ASSUME NEW s \in Sessions, AppointmentStep(s)
        PROVE  AppointmentsInv' /\ StepOf(s, AppointmentOps \cup ReportOps)
    BY <2>3, AppointmentsKept, AppointmentStepSeen DEF AppointmentsNext, StepOf
  <2>4. CASE UNCHANGED vars
    <3>1. UNCHANGED apptVars /\ UNCHANGED tx
      BY <2>4 DEF vars, apptVars
    <3> QED BY <2>1, <3>1, AppointmentsKept
  <2>5. CASE ReportsNext
    <3>1. PICK s \in Sessions : AppointmentsInv' /\ StepOf(s, AppointmentOps \cup ReportOps)
      BY <2>2, <2>3, <2>5 DEF ReportsNext
    <3>2. \A t \in Sessions \ {s} : tx'[t] = tx[t]
      BY <3>1 DEF StepOf, Moves, ReportsInv, ReportShapes, SessionsRun
    <3> QED BY <2>1, <3>1, <3>2 DEF StepOf
  <2> QED BY <2>4, <2>5
<1>3. Both => ReportsTypeOK
  BY DEF ReportsInv, ReportShapes, SessionsRun, ReportsTypeOK
<1> QED BY <1>1, <1>2, <1>3, PTL DEF ReportsSpec

(* The final appointment a report names is always one of its own case that *)
(* has a visit result: ensureFinalAppointmentCompletedForCase and          *)
(* ensureCompletionFinalAppointment, although neither locks what it reads. *)
THEOREM FinalsBelongToTheCase == ReportsSpec => []FinalOfSameCase
<1>1. ReportsInv => FinalOfSameCase
  BY DEF ReportsInv
<1> QED BY <1>1, ReportsInvariant, PTL

(* SELECT ... FOR UPDATE in completeServiceReport: the session that is     *)
(* completing a report is the only one, and finds it uncompleted.          *)
THEOREM OneCompletionAtATime == ReportsSpec => []CompletionsExclude
<1>1. ReportsInv => CompletionsExclude
  BY DEF ReportsInv
<1> QED BY <1>1, ReportsInvariant, PTL

(* A completed report's case has been completed: one COMMIT writes both,   *)
(* and no later write takes completed_at away.                             *)
THEOREM ReportAndCaseCompleteTogether == ReportsSpec => []CompletedReportCompletesCase
<1>1. ReportsInv => CompletedReportCompletesCase
  BY DEF ReportsInv
<1> QED BY <1>1, ReportsInvariant, PTL
-------------------------------------------------------------------------------
(* One session: what a request has read is still so when it writes.        *)

LEMMA OnlyStepOf ==
  ASSUME ReportShapes, OneSession, NEW s \in Sessions, NEW q \in Requests, Continue(s, q),
         q.op = "updateReport" => report'[q.case].status # "completed",
         q.op = "chooseFinal" => (q.visited <=> WasVisited(q.case)'),
         q.op = "finishReport" /\ WasVisited(q.case)' => Eligible(q.final, q.case)'
  PROVE  ReportsSerial'
<1>1. tx'[s] = q /\ \A t \in Sessions : t = s
  BY ContinueShape DEF OneSession
<1> QED BY <1>1 DEF ReportsSerial, WasVisited, Eligible, Exists

LEMMA AppointmentStepSerial ==
  ASSUME ReportsInv, OneSession, NEW s \in Sessions, AppointmentStep(s)
  PROVE  ReportsSerial'
<1>1. ReportShapes
  BY DEF ReportsInv
<1>2. Idle.op = "idle" /\ Idle \in AppointmentRequests \cup {Idle}
  BY DEF Idle
<1>3. PICK q : Continue(s, q) /\ q \in AppointmentRequests \cup {Idle}
  <2>1. ASSUME NEW c \in Cases, ReadForCreate(s, c)
        PROVE  \E q \in AppointmentRequests \cup {Idle} : Continue(s, q)
    BY <2>1 DEF ReadForCreate, AppointmentRequests
  <2>2. ASSUME NEW a \in Appointments, NEW in \in PatchInputs, ReadAppointment(s, a, in)
        PROVE  \E q \in AppointmentRequests \cup {Idle} : Continue(s, q)
    <3>1. PICK set : set = [status |-> NextStatus(in), visit |-> in.visit, moved |-> in.moved]
      OBVIOUS
    <3>2. PICK o \in {"checkOthers", "updateAppt"} :
            Continue(s, [op |-> o, appt |-> a, set |-> set])
      BY <2>2, <3>1 DEF ReadAppointment
    <3> QED BY <3>1, <3>2, NextStatusShape DEF AppointmentRequests
  <2>3. CASE CheckNoOther(s)
    <3>1. tx[s] \in UpdateRequests /\ Continue(s, [tx[s] EXCEPT !.op = "updateAppt"])
      BY <1>1, <2>3, AppointmentRequestShape DEF CheckNoOther
    <3> QED BY <3>1 DEF AppointmentRequests
  <2>4. CASE CommitCreate(s) \/ CommitUpdate(s) \/ RollbackAppointment(s)
    BY <1>2, <2>4 DEF CommitCreate, CommitUpdate, RollbackAppointment, Release
  <2> QED BY <2>1, <2>2, <2>3, <2>4 DEF AppointmentStep
<1>4. q \in Requests /\ q.op \notin {"updateReport", "chooseFinal", "finishReport"}
  BY <1>2, <1>3 DEF Requests, AppointmentRequests
<1> QED BY <1>1, <1>3, <1>4, OnlyStepOf

LEMMA ReportStepSerial ==
  ASSUME ReportsInv, ReportsSerial, OneSession, NEW s \in Sessions, ReportStep(s)
  PROVE  ReportsSerial'
<1>1. ReportShapes
  BY DEF ReportsInv
<1>2. CASE Continue(s, Idle)
  BY <1>1, <1>2, IdleShape, OnlyStepOf
<1>3. ASSUME NEW c \in Cases, NEW f \in Finals,
             ReadCaseForReport(s, c, f) \/ RequestCompletion(s, c, f)
      PROVE  ReportsSerial'
  <2>1. PICK q : /\ q = Request("createReport", c, f, NoChange)
                    \/ q = Request("lockReport", c, f, NoChange)
                 /\ Continue(s, q)
    BY <1>3 DEF ReadCaseForReport, RequestCompletion
  <2>2. q \in Requests /\ q.op \in {"createReport", "lockReport"}
    BY <2>1, RequestShape DEF Requests
  <2> QED BY <1>1, <2>1, <2>2, OnlyStepOf
<1>4. ASSUME NEW c \in Cases, NEW in \in ReportInputs, ReadReport(s, c, in)
      PROVE  ReportsSerial'
  <2>1. PICK f : f = IF in.sets THEN in.final ELSE NoAppointment
    OBVIOUS
  <2>2. f \in Finals
    BY <2>1, ServiceReportsAssumption DEF Finals
  <2>3. PICK q : q = Request("updateReport", c, f, in)
    OBVIOUS
  <2>4. q \in Requests /\ q.op = "updateReport" /\ q.case = c
    BY <2>2, <2>3, RequestShape DEF Requests
  <2>5. Continue(s, q) /\ report'[c].status # "completed"
    BY <1>4, <2>1, <2>3 DEF ReadReport, reportVars
  <2> QED BY <1>1, <2>4, <2>5, OnlyStepOf
<1>5. CASE CheckFinal(s)
  <2>1. tx[s] \in ReportRequests /\ tx[s].op \in {"createReport", "updateReport"}
    BY <1>1, <1>5, ReportRequestShape DEF CheckFinal, ReportOp
  <2>2. PICK q : q = [tx[s] EXCEPT !.checked = TRUE]
    OBVIOUS
  <2>3. q \in Requests /\ q.op = tx[s].op /\ q.case = tx[s].case
    BY <2>1, <2>2 DEF ReportRequests, Requests
  <2>4. Continue(s, q) /\ report' = report
    BY <1>5, <2>2 DEF CheckFinal, reportVars
  <2>5. q.op = "updateReport" => report'[q.case].status # "completed"
    BY <2>3, <2>4 DEF ReportsSerial
  <2> QED BY <1>1, <2>1, <2>3, <2>4, <2>5, OnlyStepOf
<1>6. CASE LockReport(s)
  <2>1. tx[s] \in ReportRequests /\ tx[s].op = "lockReport"
    BY <1>1, <1>6, ReportRequestShape DEF LockReport, ReportOp
  <2>2. PICK v \in BOOLEAN : v = WasVisited(tx[s].case)
    BY DEF WasVisited
  <2>3. PICK q : q = [tx[s] EXCEPT !.op = "chooseFinal", !.visited = v]
    OBVIOUS
  <2>4. /\ q \in Requests /\ q.op = "chooseFinal" /\ q.case = tx[s].case
        /\ q.visited = v
    BY <2>1, <2>2, <2>3 DEF ReportRequests, Requests
  <2>5. Continue(s, q) /\ appt' = appt
    BY <1>6, <2>2, <2>3 DEF LockReport, WasVisited
  <2>6. q.visited <=> WasVisited(q.case)'
    BY <2>2, <2>4, <2>5 DEF WasVisited, Exists
  <2> QED BY <1>1, <2>4, <2>5, <2>6, OnlyStepOf
<1>7. CASE ChooseFinal(s)
  <2>1. /\ tx[s] \in ReportRequests /\ tx[s].op = "chooseFinal" /\ ReportOp(s)
        /\ appt' = appt
    BY <1>1, <1>7, ReportRequestShape DEF ChooseFinal, ReportOp
  <2>2. PICK f \in FinalCandidates(s) :
          Continue(s, [tx[s] EXCEPT !.op = "finishReport", !.final = f])
    BY <1>7 DEF ChooseFinal
  <2>3. f \in Finals
    BY <1>1, <2>1, CandidatesAreVisited DEF Finals
  <2>4. PICK q : q = [tx[s] EXCEPT !.op = "finishReport", !.final = f]
    OBVIOUS
  <2>5. q \in Requests /\ q.op = "finishReport" /\ q.case = tx[s].case /\ q.final = f
    BY <2>1, <2>3, <2>4 DEF ReportRequests, Requests
  <2>6. WasVisited(tx[s].case) => Eligible(f, tx[s].case)
    <3>1. tx[s].visited <=> WasVisited(tx[s].case)
      BY <2>1 DEF ReportsSerial
    <3> QED BY <2>2, <3>1 DEF FinalCandidates
  <2>7. WasVisited(q.case)' => Eligible(q.final, q.case)'
    BY <2>1, <2>5, <2>6 DEF WasVisited, Eligible, Exists
  <2> QED BY <1>1, <2>2, <2>4, <2>5, <2>7, OnlyStepOf
<1> QED BY <1>2, <1>3, <1>4, <1>5, <1>6, <1>7
  DEF ReportStep, Proceed, Wait, CommitCreateReport, CommitUpdateReport, CommitCompletion,
      FailReport, RollbackReport, Release

LEMMA ReportsSerialUndisturbed ==
  ASSUME OneSession, NEW s \in Sessions, StepElsewhere(s, ReportOps)
  PROVE  ReportsSerial'
<1>1. \A t \in Sessions : tx'[t].op \notin ReportOps
  BY DEF StepElsewhere, OneSession
<1> QED BY <1>1 DEF ReportsSerial, ReportOps

LEMMA ReportsSerialInit == ReportsInit => ReportsSerial
BY IdleShape DEF ReportsInit, AppointmentsInit, InitCases, ReportsSerial

LEMMA ReportsSerialStep ==
  ASSUME OneSession, ReportsInv, ReportsSerial, [ReportsNext]_vars
  PROVE  ReportsSerial'
<1>1. CASE UNCHANGED vars
  <2>1. UNCHANGED <<caseRow, tx, appt, report, reportLock>>
    BY <1>1 DEF vars, apptVars, reportVars
  <2> QED BY <2>1 DEF ReportsSerial, WasVisited, Eligible, Exists
<1>2. CASE ReportsNext
  BY <1>2, AppointmentStepSerial, ReportStepSerial DEF ReportsNext
<1> QED BY <1>1, <1>2
-------------------------------------------------------------------------------
(* What ReportLifecycle sees of the reports, and of a commit that writes   *)
(* one of them.                                                            *)
ReportPhase(row) ==
  IF row = NoReport THEN "none" ELSE IF row.status = "completed" THEN "done" ELSE "open"
Phases == [c \in Cases |-> IF report[c] = NoReport THEN "none"
                           ELSE IF report[c].status = "completed" THEN "done" ELSE "open"]
FinalsNamed == [c \in Cases |-> report[c].final]

LEMMA MappedWrite ==
  ASSUME ReportShapes, NEW c \in Cases, NEW row \in ReportRows,
         report' = [report EXCEPT ![c] = row]
  PROVE  /\ Phases[c] = ReportPhase(report[c])
         /\ Phases' = [Phases EXCEPT ![c] = IF row.status = "completed" THEN "done" ELSE "open"]
         /\ FinalsNamed' = [FinalsNamed EXCEPT ![c] = row.final] /\ row.final \in Finals
<1>1. row # NoReport /\ row.final \in Finals
  BY ReportRowShape
<1>2. \A d \in Cases : report'[d] = IF d = c THEN row ELSE report[d]
  BY DEF ReportShapes
<1>3. PICK p : p = IF row.status = "completed" THEN "done" ELSE "open"
  OBVIOUS
<1>4. Phases' = [Phases EXCEPT ![c] = p]
  <2>1. Phases' = [d \in Cases |-> IF d = c THEN p ELSE Phases[d]]
    BY <1>1, <1>2, <1>3 DEF Phases
  <2> QED BY <2>1 DEF Phases
<1>5. FinalsNamed' = [FinalsNamed EXCEPT ![c] = row.final]
  <2>1. FinalsNamed' = [d \in Cases |-> IF d = c THEN row.final ELSE FinalsNamed[d]]
    BY <1>2 DEF FinalsNamed
  <2> QED BY <2>1 DEF FinalsNamed
<1>6. Phases[c] = ReportPhase(report[c])
  BY DEF Phases, ReportPhase
<1> QED BY <1>1, <1>3, <1>4, <1>5, <1>6

LEMMA OnlyCommitsWriteReports ==
  ASSUME NEW s \in Sessions, ReportStep(s), report' # report
  PROVE  CommitCreateReport(s) \/ CommitUpdateReport(s) \/ CommitCompletion(s)
BY DEF ReportStep, Proceed, Wait, ReadCaseForReport, ReadReport, RequestCompletion, CheckFinal,
       LockReport, ChooseFinal, FailReport, RollbackReport, reportVars

(* What each of the three commits writes, when requests do not overlap.    *)
LEMMA SerialWrite ==
  ASSUME ReportsInv, ReportsSerial, NEW s \in Sessions,
         CommitCreateReport(s) \/ CommitUpdateReport(s) \/ CommitCompletion(s)
  PROVE  \E c \in Cases, row \in ReportRows :
           /\ report' = [report EXCEPT ![c] = row] /\ report[c].status # "completed"
           /\ \/ report[c] = NoReport /\ row.status # "completed"
              \/ report[c] # NoReport /\ row.status # "completed"
              \/ /\ report[c] # NoReport /\ row.status = "completed"
                 /\ WasVisited(c) => Eligible(row.final, c)
<1> DEFINE c == tx[s].case
<1>1. /\ ReportShapes /\ c \in Cases /\ tx[s].final \in Finals /\ ReportBacked(s)
      /\ ReportOp(s) /\ tx[s].set \in ReportInputs \cup {NoChange}
  BY ReportRequestShape
  DEF ReportsInv, ReportOp, CommitCreateReport, CommitUpdateReport, CommitCompletion
<1>2. CASE CommitCreateReport(s)
  <2>1. PICK row : row = [status |-> "in_progress", final |-> tx[s].final]
    OBVIOUS
  <2>2. row \in ReportRows /\ row.status # "completed"
    BY <1>1, <2>1 DEF ReportRows, ReportStatuses
  <2>3. report' = [report EXCEPT ![c] = row] /\ report[c] = NoReport
    BY <1>2, <2>1 DEF CommitCreateReport
  <2>4. report[c].status # "completed"
    BY <2>3 DEF NoReport
  <2> QED BY <1>1, <2>2, <2>3, <2>4
<1>3. CASE CommitUpdateReport(s)
  <2>1. report[c].status # "completed" /\ report[c] # NoReport /\ tx[s].op = "updateReport"
    BY <1>1, <1>3 DEF CommitUpdateReport, ReportsSerial, ReportBacked
  <2>2. report[c] \in ReportRows
    BY <1>1, <2>1 DEF ReportShapes
  <2>3. PICK row : row = Edited(report[c], tx[s].set)
    OBVIOUS
  <2>4. /\ tx[s].set.status \in ReportStatuses \cup {"null"} /\ tx[s].set.status # "completed"
        /\ tx[s].set.sets => tx[s].set.final \in Finals
    <3>1. tx[s].set \in ReportInputs =>
            tx[s].set.status \in ReportStatuses \cup {"null"} /\ tx[s].set.final \in Finals
      BY ServiceReportsAssumption
    <3>2. NoChange.status = "null" /\ NoChange.sets = FALSE
      BY NoChangeShape
    <3> QED BY <1>1, <2>1, <3>1, <3>2 DEF ReportBacked
  <2>5. row \in ReportRows /\ row.status # "completed"
    BY <2>1, <2>2, <2>3, <2>4 DEF Edited, Coalesce, ReportRows
  <2>6. report' = [report EXCEPT ![c] = row]
    BY <1>1, <1>3, <2>3 DEF ReportShapes, CommitUpdateReport
  <2> QED BY <1>1, <2>1, <2>5, <2>6
<1>4. CASE CommitCompletion(s)
  <2>1. PICK row : row = [status |-> "completed", final |-> tx[s].final]
    OBVIOUS
  <2>2. row \in ReportRows /\ row.status = "completed" /\ row.final = tx[s].final
    BY <1>1, <2>1 DEF ReportRows, ReportStatuses
  <2>3. /\ report' = [report EXCEPT ![c] = row] /\ report[c].status # "completed"
        /\ report[c] # NoReport /\ tx[s].op = "finishReport"
    BY <1>1, <1>4, <2>1 DEF CommitCompletion, ReportBacked
  <2>4. WasVisited(c) => Eligible(row.final, c)
    BY <2>2, <2>3 DEF ReportsSerial
  <2> QED BY <1>1, <2>2, <2>3, <2>4
<1> QED BY <1>2, <1>3, <1>4

LEMMA LifecycleInit == ReportsInit => Lifecycle!Init
<1> SUFFICES ASSUME ReportsInit PROVE Lifecycle!Init
  OBVIOUS
<1>1. report = [c \in Cases |-> NoReport] /\ NoReport.final \in Finals
  BY DEF ReportsInit, NoReport, Finals
<1> QED BY <1>1 DEF Lifecycle!Init

(* A step, of this service or beside it: only this one's write reports.    *)
ReportsOwned == report' # report => \E s \in Sessions : ReportStep(s)

LEMMA ReportsNextOwned ==
  ASSUME [ReportsNext]_vars
  PROVE  ReportsOwned
BY DEF ReportsOwned, ReportsNext, vars, reportVars

LEMMA LifecycleStep ==
  ASSUME ReportsInv, ReportsSerial, ReportsOwned
  PROVE  [Lifecycle!Next]_<<Phases, FinalsNamed>>
<1>1. CASE report' = report
  BY <1>1 DEF Phases, FinalsNamed
<1>2. CASE report' # report
  <2>1. PICK s \in Sessions :
          CommitCreateReport(s) \/ CommitUpdateReport(s) \/ CommitCompletion(s)
    BY <1>2, OnlyCommitsWriteReports DEF ReportsOwned
  <2>2. PICK c \in Cases, row \in ReportRows :
           /\ report' = [report EXCEPT ![c] = row] /\ report[c].status # "completed"
           /\ \/ report[c] = NoReport /\ row.status # "completed"
              \/ report[c] # NoReport /\ row.status # "completed"
              \/ report[c] # NoReport /\ row.status = "completed"
    BY <2>1, SerialWrite
  <2>3. /\ Phases[c] = ReportPhase(report[c])
        /\ Phases' = [Phases EXCEPT ![c] = IF row.status = "completed" THEN "done" ELSE "open"]
        /\ FinalsNamed' = [FinalsNamed EXCEPT ![c] = row.final] /\ row.final \in Finals
    BY <2>2, MappedWrite DEF ReportsInv
  <2>4. CASE report[c] = NoReport /\ row.status # "completed"
    <3>1. Phases[c] = "none" /\ Phases' = [Phases EXCEPT ![c] = "open"]
      BY <2>3, <2>4 DEF ReportPhase
    <3>2. Lifecycle!Create(c)
      BY <2>3, <3>1 DEF Lifecycle!Create, Phases, FinalsNamed
    <3> QED BY <3>2 DEF Lifecycle!Next
  <2>5. CASE report[c] # NoReport /\ row.status # "completed"
    <3>1. Phases[c] = "open" /\ Phases' = [Phases EXCEPT ![c] = "open"]
      BY <2>2, <2>3, <2>5 DEF ReportPhase
    <3>2. Phases' = Phases
      BY <3>1 DEF Phases
    <3>3. Lifecycle!Edit(c)
      BY <2>3, <3>1, <3>2 DEF Lifecycle!Edit, Phases, FinalsNamed
    <3> QED BY <3>3 DEF Lifecycle!Next
  <2>6. CASE report[c] # NoReport /\ row.status = "completed"
    <3>1. Phases[c] = "open" /\ Phases' = [Phases EXCEPT ![c] = "done"]
      BY <2>2, <2>3, <2>6 DEF ReportPhase
    <3>2. Lifecycle!Complete(c)
      BY <2>3, <3>1 DEF Lifecycle!Complete, Phases, FinalsNamed
    <3> QED BY <3>2 DEF Lifecycle!Next
  <2> QED BY <2>2, <2>4, <2>5, <2>6
<1> QED BY <1>1, <1>2
-------------------------------------------------------------------------------
LEMMA CompletionStep ==
  ASSUME ReportsInv, ReportsSerial, ReportsOwned, NEW c \in Cases,
         report[c].status # "completed", report'[c].status = "completed", WasVisited(c)
  PROVE  Eligible(report'[c].final, c)
<1>1. PICK s \in Sessions :
        CommitCreateReport(s) \/ CommitUpdateReport(s) \/ CommitCompletion(s)
  BY OnlyCommitsWriteReports DEF ReportsOwned
<1>2. PICK d \in Cases, row \in ReportRows :
         /\ report' = [report EXCEPT ![d] = row]
         /\ row.status = "completed" => (WasVisited(d) => Eligible(row.final, d))
  BY <1>1, SerialWrite
<1>3. d = c /\ report'[c] = row
  BY <1>2 DEF ReportsInv, ReportShapes
<1> QED BY <1>2, <1>3

(* With one session, what FieldServiceReportService does to a report is    *)
(* what ReportLifecycle allows: one creation, edits while it is open, one  *)
(* completion, nothing after it.  With two sessions an edit that has read  *)
(* an open report can reopen a completed one:                              *)
(* FieldServiceReportService.js:263-281.                                   *)
THEOREM LifecycleOfOneSession ==
  ASSUME \A s, t \in Sessions : s = t
  PROVE  ReportsSpec => LifecycleKept
<1>1. ReportsInit => ReportsSerial /\ Lifecycle!Init
  BY ReportsSerialInit, LifecycleInit
<1>2. ReportsInv /\ ReportsSerial /\ [ReportsNext]_vars => ReportsSerial'
  BY ReportsSerialStep DEF OneSession
<1>3. ReportsInv /\ ReportsSerial /\ [ReportsNext]_vars =>
        [Lifecycle!Next]_<<[c \in Cases |-> IF report[c] = NoReport THEN "none"
                                            ELSE IF report[c].status = "completed"
                                                   THEN "done" ELSE "open"],
                           [c \in Cases |-> report[c].final]>>
  BY LifecycleStep, ReportsNextOwned DEF Phases, FinalsNamed
<1> QED BY <1>1, <1>2, <1>3, ReportsInvariant, PTL
        DEF ReportsSpec, LifecycleKept, Lifecycle!Spec

(* With one session, the report of a case that was ever visited is         *)
(* completed with an appointment of that case whose visit is completed at  *)
(* that moment: ensureCompletionFinalAppointment.                          *)
THEOREM CompletionsNameAVisit ==
  ASSUME \A s, t \in Sessions : s = t
  PROVE  ReportsSpec => CompletionNamesVisit
<1>1. ReportsInit => ReportsSerial
  BY ReportsSerialInit
<1>2. ReportsInv /\ ReportsSerial /\ [ReportsNext]_vars => ReportsSerial'
  BY ReportsSerialStep DEF OneSession
<1>3. ReportsInv /\ ReportsSerial /\ [ReportsNext]_vars =>
        [\A c \in Cases :
           /\ report[c].status # "completed" /\ report'[c].status = "completed"
           /\ \E a \in Appointments : Exists(a) /\ appt[a].case = c
           => Eligible(report'[c].final, c)]_vars
  BY CompletionStep, ReportsNextOwned DEF WasVisited
<1> QED BY <1>1, <1>2, <1>3, ReportsInvariant, PTL DEF ReportsSpec, CompletionNamesVisit
-------------------------------------------------------------------------------
(* The parts under a report, beside any other service.                     *)
LEMMA PartRequestShape ==
  ASSUME PartsInv, NEW s \in Sessions
  PROVE  /\ tx[s].op = "createPart" =>
              tx[s].case \in Cases /\ tx[s].status \in PartStatuses \cup {"null"}
         /\ tx[s].op \in {"updatePart", "deletePart"} =>
              tx[s].id \in Parts /\ tx[s].status \in PartStatuses \cup {"null"}
BY DEF PartsInv, PartOps, PartRequests

LEMMA PartRowShape ==
  ASSUME NEW row \in PartRows
  PROVE  row # NoPart
BY DEF PartRows, NoPart, PartStatuses

(* What a COMMIT writes: a new row, or another status or removal of a row  *)
(* that is listed.                                                         *)
LEMMA PartWritten ==
  ASSUME PartsInv, NEW s \in Sessions,
         CommitCreatePart(s) \/ CommitUpdatePart(s) \/ CommitDeletePart(s)
  PROVE  \E p \in Parts, row \in PartRows :
           /\ part' = [part EXCEPT ![p] = row]
           /\ \/ ~Stored(p) /\ row.case = tx[s].case /\ tx[s].op = "createPart"
              \/ /\ Listed(p) /\ row.case = part[p].case
                 /\ p = tx[s].id /\ tx[s].op \in {"updatePart", "deletePart"}
<1>1. part \in [Parts -> PartRows \cup {NoPart}]
  BY DEF PartsInv
<1>2. CASE CommitCreatePart(s)
  <2>1. PICK row : row = [case |-> tx[s].case, status |-> Coalesce(tx[s].status, "planned"),
                          deleted |-> FALSE]
    OBVIOUS
  <2>2. row \in PartRows /\ row.case = tx[s].case
    BY <1>2, <2>1, PartRequestShape DEF CommitCreatePart, PartRows, PartStatuses, Coalesce
  <2> QED BY <1>2, <2>1, <2>2 DEF CommitCreatePart
<1>3. CASE CommitUpdatePart(s) \/ CommitDeletePart(s)
  <2> DEFINE p == tx[s].id
  <2>1. /\ p \in Parts /\ tx[s].status \in PartStatuses \cup {"null"} /\ Listed(p)
        /\ tx[s].op \in {"updatePart", "deletePart"}
    BY <1>3, PartRequestShape DEF CommitUpdatePart, CommitDeletePart
  <2>2. part[p] \in PartRows
    BY <1>1, <2>1 DEF Listed
  <2>3. PICK row : /\ part' = [part EXCEPT ![p] = row]
                   /\ \/ row = [part[p] EXCEPT !.status = Coalesce(tx[s].status, @)]
                      \/ row = [part[p] EXCEPT !.deleted = TRUE]
    BY <1>3 DEF CommitUpdatePart, CommitDeletePart
  <2>4. row \in PartRows /\ row.case = part[p].case
    BY <2>1, <2>2, <2>3 DEF PartRows, Coalesce
  <2> QED BY <2>1, <2>3, <2>4
<1> QED BY <1>2, <1>3

(* What a step is to the other services.                                   *)
LEMMA PartStepSeen ==
  ASSUME SessionsRun, PartsInv, NEW s \in Sessions, PartStep(s)
  PROVE  /\ PartsInv' /\ StepOf(s, PartOps) /\ UNCHANGED <<caseRow, appt, reportVars>>
         /\ \A p \in Parts : Stored(p) /\ part[p].deleted => part'[p] = part[p]
<1>1. part \in [Parts -> PartRows \cup {NoPart}]
  BY DEF PartsInv
<1>2. UNCHANGED <<caseRow, appt, reportVars>>
  BY DEF PartStep, ReadReportForPart, ReadPart, CommitCreatePart, CommitUpdatePart,
         CommitDeletePart, RollbackPart
<1>3. ASSUME NEW q, Continue(s, q), q = Idle \/ q \in PartRequests,
             tx[s] = Idle \/ tx[s].op \in PartOps,
             part' \in [Parts -> PartRows \cup {NoPart}]
      PROVE  PartsInv' /\ StepOf(s, PartOps)
  <2>1. tx'[s] = q /\ \A t \in Sessions \ {s} : tx'[t] = tx[t]
    BY <1>3, RequestReplaced
  <2>2. /\ q = Idle \/ q.op \in PartOps
        /\ q.op \in PartOps => q \in PartRequests
    BY <1>3 DEF PartRequests, PartOps, Idle
  <2>3. PartsInv'
    BY <1>3, <2>1, <2>2 DEF PartsInv
  <2> QED BY <1>3, <2>1, <2>2, <2>3 DEF StepOf, Moves, Continue
<1>4. ASSUME NEW c \in Cases, NEW status \in PartInputs, ReadReportForPart(s, c, status)
      PROVE  PartsInv' /\ StepOf(s, PartOps) /\ part' = part
  <2>1. PICK q : q = [op |-> "createPart", case |-> c, status |-> status]
    OBVIOUS
  <2>2. q \in PartRequests
    BY <2>1, ServicePartsAssumption DEF PartRequests
  <2> QED BY <1>1, <1>3, <1>4, <2>1, <2>2 DEF ReadReportForPart
<1>5. ASSUME NEW p \in Parts, NEW op \in {"updatePart", "deletePart"},
             NEW status \in PartInputs \cup {"null"}, ReadPart(s, p, op, status)
      PROVE  PartsInv' /\ StepOf(s, PartOps) /\ part' = part
  <2>1. PICK q : q = [op |-> op, id |-> p, status |-> status]
    OBVIOUS
  <2>2. q \in PartRequests
    BY <2>1, ServicePartsAssumption DEF PartRequests
  <2> QED BY <1>1, <1>3, <1>5, <2>1, <2>2 DEF ReadPart
<1>6. CASE RollbackPart(s)
  BY <1>1, <1>2, <1>3, <1>6 DEF RollbackPart, Release
<1>7. CASE CommitCreatePart(s) \/ CommitUpdatePart(s) \/ CommitDeletePart(s)
  <2>1. PICK p \in Parts, row \in PartRows :
          /\ part' = [part EXCEPT ![p] = row]
          /\ ~Stored(p) \/ Listed(p)
    BY <1>7, PartWritten
  <2>2. part' \in [Parts -> PartRows \cup {NoPart}]
        /\ \A x \in Parts : Stored(x) /\ part[x].deleted => part'[x] = part[x]
    BY <1>1, <2>1 DEF Stored, Listed
  <2>3. Continue(s, Idle) /\ tx[s].op \in PartOps
    BY <1>7 DEF CommitCreatePart, CommitUpdatePart, CommitDeletePart, Release, PartOps
  <2> QED BY <1>2, <1>3, <2>2, <2>3
<1> QED BY <1>2, <1>4, <1>5, <1>6, <1>7 DEF PartStep

LEMMA PartsUndisturbed ==
  ASSUME SessionsRun, PartsInv, NEW s \in Sessions, StepElsewhere(s, PartOps), UNCHANGED part
  PROVE  PartsInv'
<1>1. tx'[s].op \notin PartOps /\ \A t \in Sessions \ {s} : tx'[t] = tx[t]
  BY DEF StepElsewhere, Moves, SessionsRun
<1> QED BY <1>1 DEF PartsInv

(* With one session the report a part request found mutable is mutable     *)
(* when it writes.                                                         *)
LEMMA PartsSerialKept ==
  ASSUME OneSession, SessionsRun, PartsInv, PartsSerial, NEW s \in Sessions, PartStep(s)
  PROVE  /\ PartsSerial'
         /\ \A p \in Parts : part'[p] # part[p] => report[part'[p].case].status # "completed"
<1>1. \A t \in Sessions : t = s
  BY DEF OneSession
<1>2. /\ report' = report /\ PartsInv'
      /\ part \in [Parts -> PartRows \cup {NoPart}]
  BY PartStepSeen DEF reportVars, PartsInv
<1>3. ASSUME Continue(s, Idle) PROVE PartsSerial'
  <2>1. tx'[s] = Idle
    BY <1>3, RequestReplaced
  <2> QED BY <1>1, <2>1 DEF PartsSerial, Idle
<1>4. ASSUME NEW c \in Cases, NEW status \in PartInputs, ReadReportForPart(s, c, status)
      PROVE  PartsSerial' /\ part' = part
  <2>1. tx'[s] = [op |-> "createPart", case |-> c, status |-> status]
    BY <1>4, RequestReplaced DEF ReadReportForPart
  <2> QED BY <1>1, <1>2, <1>4, <2>1 DEF ReadReportForPart, PartsSerial, Mutable
<1>5. ASSUME NEW p \in Parts, NEW op \in {"updatePart", "deletePart"},
             NEW status \in PartInputs \cup {"null"}, ReadPart(s, p, op, status)
      PROVE  PartsSerial' /\ part' = part
  <2>1. tx'[s] = [op |-> op, id |-> p, status |-> status]
    BY <1>5, RequestReplaced DEF ReadPart
  <2> QED BY <1>1, <1>2, <1>5, <2>1 DEF ReadPart, PartsSerial, Mutable, Stored, Listed
<1>6. CASE RollbackPart(s)
  BY <1>3, <1>6 DEF RollbackPart, Release
<1>7. CASE CommitCreatePart(s) \/ CommitUpdatePart(s) \/ CommitDeletePart(s)
  <2>1. PICK p \in Parts, row \in PartRows :
          /\ part' = [part EXCEPT ![p] = row]
          /\ \/ row.case = tx[s].case /\ tx[s].op = "createPart"
             \/ /\ row.case = part[p].case
                /\ p = tx[s].id /\ tx[s].op \in {"updatePart", "deletePart"}
    BY <1>7, PartWritten
  <2>2. report[row.case].status # "completed"
    BY <2>1 DEF PartsSerial, Mutable
  <2>3. Continue(s, Idle)
    BY <1>7 DEF CommitCreatePart, CommitUpdatePart, CommitDeletePart, Release
  <2> QED BY <1>2, <1>3, <2>1, <2>2, <2>3
<1> QED BY <1>4, <1>5, <1>6, <1>7 DEF PartStep, RollbackPart

LEMMA PartsSerialUndisturbed ==
  ASSUME OneSession, NEW s \in Sessions, StepElsewhere(s, PartOps)
  PROVE  PartsSerial'
<1>1. \A t \in Sessions : tx'[t].op \notin PartOps
  BY DEF StepElsewhere, OneSession
<1> QED BY <1>1 DEF PartsSerial, PartOps

LEMMA PartsInitially ==
  ASSUME InitCases, PartsInit
  PROVE  PartsInv /\ PartsSerial
BY DEF InitCases, PartsInit, PartsInv, PartsSerial, PartOps, Idle
===============================================================================
