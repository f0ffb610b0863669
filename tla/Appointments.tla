------------------------------ MODULE Appointments ------------------------------
(***************************************************************************)
(* AppointmentService: booking a visit for a case, and the one PATCH that  *)
(* reschedules, cancels, completes or annotates it.                        *)
(*                                                                         *)
(* The rule the service keeps is that a case has one open appointment at a *)
(* time and that a completed appointment has a completed visit.  Both are  *)
(* checked on rows read before the write and not locked in between.        *)
(***************************************************************************)
EXTENDS CaseStore

CONSTANTS Appointments,     \* ids of table appointments, used or not
          CreateVisits,     \* visitResult of the POST bodies
          PatchInputs       \* [status, visit, moved] of the PATCH bodies

VARIABLE appt               \* the committed row of each appointment id

(* Omitted in a request body, or NULL in a column: "null".                 *)
AppointmentStatuses == {"scheduled", "rescheduled", "cancelled", "completed", "no_show"}
VisitResults ==
  {"completed", "pending_parts", "pending_quote", "need_second_visit",
   "customer_not_home", "customer_cancelled", "unable_to_repair", "rescheduled",
   "no_show"}
Visits == VisitResults \cup {"null"}

TerminalStatuses == {"cancelled", "completed", "no_show"}

ASSUME AppointmentsAssumption ==
  /\ CreateVisits \subseteq Visits
  /\ PatchInputs \subseteq [status : AppointmentStatuses \cup {"null"},
                            visit : Visits, moved : BOOLEAN]

AppointmentRows == [case : Cases, status : AppointmentStatuses, visit : Visits]
NoRow == [status |-> "absent"]

apptVars == <<caseRow, tx, appt>>

Exists(a) == appt[a] # NoRow

(* isAppointmentOpen; every visit result is a terminal one.                *)
IsOpen(row) == row.status \notin TerminalStatuses /\ row.visit = "null"

(* findOpenAppointmentsByCaseId *)
OpenAppointments(c) ==
  {a \in Appointments : Exists(a) /\ appt[a].case = c /\ IsOpen(appt[a])}

(* The status a PATCH stores: the one given, or the one its visit result   *)
(* or its new time range implies; "null" leaves the stored one.            *)
NextStatus(in) ==
  IF in.status # "null" THEN in.status
  ELSE IF in.visit = "completed" THEN "completed"
  ELSE IF in.moved THEN "rescheduled" ELSE "null"

(* The row after coalesce of the columns in set.                           *)
Resulting(row, set) ==
  [row EXCEPT !.status = Coalesce(set.status, @), !.visit = Coalesce(set.visit, @)]

(* ensureAppointmentCompletionConsistency; a slip would keep only its      *)
(* second error.                                                           *)
VisitImpliesStatus(row) == row.visit = "completed" => row.status = "completed"
CompletionConsistent(row) == row.status = "completed" <=> row.visit = "completed"

CreateRequests == [op : {"createAppt"}, case : Cases]
UpdateRequests ==
  [op : {"checkOthers", "updateAppt"}, appt : Appointments,
   set : [status : AppointmentStatuses \cup {"null"}, visit : Visits, moved : BOOLEAN]]
AppointmentRequests == CreateRequests \cup UpdateRequests
-------------------------------------------------------------------------------
AppointmentsInit == InitCases /\ appt = [a \in Appointments |-> NoRow]

(* createAppointment up to assertNoOtherOpenAppointment; without it a slip. *)
ReadForCreateUnchecked(s, c) ==
  /\ tx[s] = Idle
  /\ Continue(s, [op |-> "createAppt", case |-> c])
  /\ UNCHANGED <<caseRow, appt>>
ReadForCreate(s, c) ==
  /\ tx[s] = Idle
  /\ OpenAppointments(c) = {}
  /\ Continue(s, [op |-> "createAppt", case |-> c])
  /\ UNCHANGED <<caseRow, appt>>

(* ... and from the INSERT on.                                             *)
CommitCreate(s) ==
  /\ tx[s].op = "createAppt"
  /\ \E a \in Appointments, v \in CreateVisits :
       LET row == [case |-> tx[s].case, status |-> "scheduled", visit |-> v] IN
       /\ ~Exists(a)
       /\ CompletionConsistent(row)
       /\ appt' = [appt EXCEPT ![a] = row]
  /\ SetCaseStatus(tx[s].case, "scheduled")
  /\ Release(s)

(* rescheduleAppointment up to the checks on the row it read: a PATCH that *)
(* reopens the appointment looks for another open one first.  The slip     *)
(* goes straight to the UPDATE.                                            *)
ReadAppointmentUnchecked(s, a, in) ==
  /\ tx[s] = Idle
  /\ Exists(a)
  /\ Continue(s, [op |-> "updateAppt", appt |-> a,
                  set |-> [status |-> NextStatus(in), visit |-> in.visit, moved |-> in.moved]])
  /\ UNCHANGED <<caseRow, appt>>
ReadAppointment(s, a, in) ==
  LET set  == [status |-> NextStatus(in), visit |-> in.visit, moved |-> in.moved]
      next == Resulting(appt[a], set) IN
  /\ tx[s] = Idle
  /\ Exists(a)
  /\ CompletionConsistent(next)
  /\ Continue(s, [op |-> IF ~IsOpen(appt[a]) /\ IsOpen(next)
                           THEN "checkOthers" ELSE "updateAppt",
                  appt |-> a, set |-> set])
  /\ UNCHANGED <<caseRow, appt>>

(* assertNoOtherOpenAppointment of a PATCH; without it a slip.             *)
GoOnUnchecked(s) ==
  /\ tx[s].op = "checkOthers"
  /\ Continue(s, [tx[s] EXCEPT !.op = "updateAppt"])
  /\ UNCHANGED <<caseRow, appt>>
CheckNoOther(s) ==
  /\ tx[s].op = "checkOthers"
  /\ OpenAppointments(appt[tx[s].appt].case) \subseteq {tx[s].appt}
  /\ Continue(s, [tx[s] EXCEPT !.op = "updateAppt"])
  /\ UNCHANGED <<caseRow, appt>>

(* updateAppointment: coalesce works on the row as it is now.              *)
CommitUpdate(s) ==
  LET a   == tx[s].appt
      row == Resulting(appt[a], tx[s].set) IN
  /\ tx[s].op = "updateAppt"
  /\ appt' = [appt EXCEPT ![a] = row]
  /\ IF row.status = "rescheduled" \/ tx[s].set.moved
       THEN SetCaseStatus(row.case, "scheduled")
       ELSE UNCHANGED caseRow
  /\ Release(s)

(* The check of a PATCH that finds another open appointment throws.  (An   *)
(* INSERT beyond the ids of the model has no counterpart in the code.)     *)
MustFail(s) ==
  \/ /\ tx[s].op = "checkOthers"
     /\ ~(OpenAppointments(appt[tx[s].appt].case) \subseteq {tx[s].appt})
  \/ tx[s].op = "createAppt" /\ \A a \in Appointments : Exists(a)

(* ROLLBACK: a check that fails, a lost connection, any thrown error.      *)
RollbackAppointment(s) ==
  /\ tx[s].op \in {"createAppt", "checkOthers", "updateAppt"}
  /\ Release(s)
  /\ UNCHANGED <<caseRow, appt>>

AppointmentStep(s) ==
  \/ \E c \in Cases : ReadForCreate(s, c)
  \/ CommitCreate(s)
  \/ \E a \in Appointments, in \in PatchInputs : ReadAppointment(s, a, in)
  \/ CheckNoOther(s)
  \/ CommitUpdate(s)
  \/ RollbackAppointment(s)

AppointmentsNext == \E s \in Sessions : AppointmentStep(s)
AppointmentsSpec == AppointmentsInit /\ [][AppointmentsNext]_apptVars
-------------------------------------------------------------------------------
AppointmentsTypeOK ==
  /\ caseRow \in [Cases -> CaseRows]
  /\ appt \in [Appointments -> AppointmentRows \cup {NoRow}]
  /\ tx \in [Sessions -> AppointmentRequests \cup {Idle}]

(* However requests interleave, a case never has more open appointments    *)
(* than there are sessions: each extra one needs a request that passed     *)
(* assertNoOtherOpenAppointment and had not committed when the others did. *)
OpenAppointmentsBounded ==
  \A c \in Cases : Cardinality(OpenAppointments(c)) <= Cardinality(Sessions)

(* What makes it inductive: the sessions that will open one by inserting   *)
(* it, and the appointments a checked PATCH will open, count as open ones. *)
Creating(c) == {s \in Sessions : tx[s].op = "createAppt" /\ tx[s].case = c}
Reopening(c) ==
  {tx[s].appt : s \in {t \in Sessions : /\ tx[t].op = "updateAppt"
                                       /\ tx[t].set.status \in {"scheduled", "rescheduled"}
                                       /\ IsOpen(Resulting(appt[tx[t].appt], tx[t].set))
                                       /\ appt[tx[t].appt].case = c}}
OpenOrOpeningBounded ==
  \A c \in Cases :
    LET opening == OpenAppointments(c) \cup Reopening(c) IN
    /\ IsFiniteSet(opening)
    /\ Cardinality(opening) + Cardinality(Creating(c)) <= Cardinality(Sessions)

(* What docs/PROJECT_GUARDRAILS.md asks: one open appointment per case.    *)
(* True of one session, where every check is followed by its own write.    *)
AtMostOneOpen == \A c \in Cases : Cardinality(OpenAppointments(c)) <= 1

(* An appointment is never completed without a visit result, even when the *)
(* PATCH that completes it was checked against an older row.               *)
CompletedHasResult ==
  \A a \in Appointments : Exists(a) /\ appt[a].status = "completed" => appt[a].visit # "null"

(* What makes it inductive: a PATCH in flight works on a row that exists,  *)
(* and one that completes it brings a visit result or found one.           *)
UpdatesBacked ==
  \A s \in Sessions : tx[s].op \in {"checkOthers", "updateAppt"} =>
    /\ Exists(tx[s].appt)
    /\ tx[s].set.status = "completed" =>
         Resulting(appt[tx[s].appt], tx[s].set).visit # "null"

(* The inductive invariant that carries both, whatever requests other      *)
(* services are running.                                                   *)
AppointmentOps == {"createAppt", "checkOthers", "updateAppt"}
AppointmentShapes ==
  /\ caseRow \in [Cases -> CaseRows]
  /\ appt \in [Appointments -> AppointmentRows \cup {NoRow}]
  /\ SessionsRun
  /\ \A s \in Sessions : tx[s].op \in AppointmentOps => tx[s] \in AppointmentRequests
AppointmentsInv ==
  AppointmentShapes /\ OpenOrOpeningBounded /\ CompletedHasResult /\ UpdatesBacked

(* The two errors of ensureAppointmentCompletionConsistency as a rule on   *)
(* stored rows: completed status and completed visit go together.          *)
CompletionRecorded ==
  \A a \in Appointments : Exists(a) => CompletionConsistent(appt[a])

(* What makes it inductive with one session: a PATCH in flight leaves the  *)
(* row it was checked against consistent.                                  *)
AppointmentsSerial ==
  /\ CompletionRecorded
  /\ \A s \in Sessions : tx[s].op \in {"checkOthers", "updateAppt"} =>
       CompletionConsistent(Resulting(appt[tx[s].appt], tx[s].set))
===============================================================================
