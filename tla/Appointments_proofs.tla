--------------------------- MODULE Appointments_proofs ---------------------------
(***************************************************************************)
(* Theorems of Appointments, for any number of cases, appointments and     *)
(* sessions and any request bodies the validators let through.             *)
(***************************************************************************)
EXTENDS Appointments, FiniteSetTheorems, TLAPS

USE DEF AppointmentRows, NoRow, AppointmentRequests, CreateRequests, UpdateRequests

(* A PATCH stores a status and a visit result of the column types.         *)
LEMMA ResultingType ==
  ASSUME NEW row \in AppointmentRows,
         NEW set \in [status : AppointmentStatuses \cup {"null"}, visit : Visits,
                      moved : BOOLEAN]
  PROVE  /\ Resulting(row, set) \in AppointmentRows
         /\ Resulting(row, set).case = row.case
BY DEF Resulting, Coalesce, Visits

LEMMA NextStatusType ==
  ASSUME NEW in \in [status : AppointmentStatuses \cup {"null"}, visit : Visits,
                     moved : BOOLEAN]
  PROVE  NextStatus(in) \in AppointmentStatuses \cup {"null"}
BY DEF NextStatus, AppointmentStatuses

(* A PATCH past its checks opens one appointment, its own, and a POST past *)
(* its check opens one: the appointments of a case that checked requests   *)
(* account for are no more than the sessions.                              *)
LEMMA OneOpeningPerSession ==
  ASSUME NEW t, NEW c \in Cases,
         NEW W \in SUBSET {t[s].appt : s \in {x \in Sessions : t[x].op = "updateAppt"}}
  PROVE  /\ IsFiniteSet(W)
         /\ Cardinality(W)
            + Cardinality({s \in Sessions : t[s].op = "createAppt" /\ t[s].case = c})
              <= Cardinality(Sessions)
<1> DEFINE U == {x \in Sessions : t[x].op = "updateAppt"}
           T == {t[s].appt : s \in U}
           K == {s \in Sessions : t[s].op = "createAppt" /\ t[s].case = c}
           f == [s \in U |-> t[s].appt]
<1>1. IsFiniteSet(U) /\ IsFiniteSet(K)
  BY CaseStoreAssumption, FS_Subset
<1>2. f \in Surjection(U, T)
  BY DEF Surjection
<1>3. IsFiniteSet(T) /\ Cardinality(T) <= Cardinality(U)
  BY <1>1, <1>2, FS_Surjection
<1>4. IsFiniteSet(W) /\ Cardinality(W) <= Cardinality(T)
  BY <1>3, FS_Subset
<1>5. U \cap K = {} /\ U \cup K \in SUBSET Sessions
  OBVIOUS
<1>6. Cardinality(U \cup K) = Cardinality(U) + Cardinality(K) - Cardinality({})
  BY <1>1, <1>5, FS_Union
<1>7. Cardinality(U \cup K) <= Cardinality(Sessions)
  BY <1>5, CaseStoreAssumption, FS_Subset
<1>8. /\ Cardinality(U) \in Nat /\ Cardinality(K) \in Nat /\ Cardinality(T) \in Nat
      /\ Cardinality(W) \in Nat /\ Cardinality(Sessions) \in Nat
  BY <1>1, <1>3, <1>4, CaseStoreAssumption, FS_CardinalityType
<1>9. Cardinality({}) = 0
  BY FS_EmptySet
<1> HIDE DEF U, T, K, f
<1>10. Cardinality(W) + Cardinality(K) <= Cardinality(Sessions)
  BY <1>3, <1>4, <1>6, <1>7, <1>8, <1>9
<1> QED BY <1>4, <1>10 DEF K

(* The bound survives a step that opens nothing and starts no creation.    *)
LEMMA BoundShrinks ==
  ASSUME NEW W, IsFiniteSet(W), NEW K \in SUBSET Sessions,
         Cardinality(W) + Cardinality(K) <= Cardinality(Sessions),
         NEW V \in SUBSET W, NEW L \in SUBSET K
  PROVE  IsFiniteSet(V) /\ Cardinality(V) + Cardinality(L) <= Cardinality(Sessions)
<1>1. IsFiniteSet(V) /\ Cardinality(V) <= Cardinality(W)
  BY FS_Subset
<1>2. IsFiniteSet(K)
  BY CaseStoreAssumption, FS_Subset
<1>3. IsFiniteSet(L) /\ Cardinality(L) <= Cardinality(K)
  BY <1>2, FS_Subset
<1>4. /\ Cardinality(V) \in Nat /\ Cardinality(W) \in Nat /\ Cardinality(K) \in Nat
      /\ Cardinality(L) \in Nat /\ Cardinality(Sessions) \in Nat
  BY <1>1, <1>2, <1>3, CaseStoreAssumption, FS_CardinalityType
<1> QED BY <1>1, <1>3, <1>4

(* ... and one that turns a pending creation into an open appointment.     *)
LEMMA BoundMoves ==
  ASSUME NEW W, IsFiniteSet(W), NEW K \in SUBSET Sessions,
         Cardinality(W) + Cardinality(K) <= Cardinality(Sessions),
         NEW a, NEW s \in K
  PROVE  /\ IsFiniteSet(W \cup {a})
         /\ Cardinality(W \cup {a}) + Cardinality(K \ {s}) <= Cardinality(Sessions)
<1>1. /\ IsFiniteSet(W \cup {a})
      /\ Cardinality(W \cup {a}) = IF a \in W THEN Cardinality(W) ELSE Cardinality(W) + 1
  BY FS_AddElement
<1>2. IsFiniteSet(K)
  BY CaseStoreAssumption, FS_Subset
<1>3. Cardinality(K \ {s}) = Cardinality(K) - 1
  BY <1>2, FS_RemoveElement
<1>4. /\ Cardinality(W) \in Nat /\ Cardinality(K) \in Nat
      /\ Cardinality(Sessions) \in Nat
  BY <1>2, CaseStoreAssumption, FS_CardinalityType
<1> QED BY <1>1, <1>3, <1>4
-------------------------------------------------------------------------------
(* A step replaces the request of its session.                             *)
LEMMA RequestReplaced ==
  ASSUME SessionsRun, NEW s \in Sessions, NEW q, Continue(s, q)
  PROVE  SessionsRun' /\ tx'[s] = q /\ \A t \in Sessions \ {s} : tx'[t] = tx[t]
BY DEF SessionsRun, Continue

LEMMA ShapesKept ==
  ASSUME AppointmentShapes, NEW s \in Sessions, NEW q, Continue(s, q),
         q.op \in AppointmentOps => q \in AppointmentRequests,
         caseRow' \in [Cases -> CaseRows],
         appt' \in [Appointments -> AppointmentRows \cup {NoRow}]
  PROVE  AppointmentShapes'
BY RequestReplaced DEF AppointmentShapes

(* Facts about the requests in flight, for the steps below.                *)
LEMMA InFlight ==
  ASSUME AppointmentShapes, UpdatesBacked, NEW s \in Sessions
  PROVE  /\ tx[s].op = "createAppt" => tx[s] \in CreateRequests
         /\ tx[s].op \in {"checkOthers", "updateAppt"} =>
              /\ tx[s] \in UpdateRequests
              /\ appt[tx[s].appt] \in AppointmentRows
BY DEF AppointmentShapes, AppointmentOps, UpdatesBacked, Exists

LEMMA TypeStep ==
  AppointmentShapes /\ UpdatesBacked /\ [AppointmentsNext]_apptVars => AppointmentShapes'
<1> SUFFICES ASSUME AppointmentShapes, UpdatesBacked, [AppointmentsNext]_apptVars
             PROVE  AppointmentShapes'
  OBVIOUS
<1>0. /\ UNCHANGED caseRow => caseRow' \in [Cases -> CaseRows]
      /\ UNCHANGED appt => appt' \in [Appointments -> AppointmentRows \cup {NoRow}]
      /\ Idle.op \notin AppointmentOps
  BY DEF AppointmentShapes, Idle, AppointmentOps
<1>1. ASSUME NEW s \in Sessions, NEW c \in Cases, ReadForCreate(s, c)
      PROVE  AppointmentShapes'
  <2>1. PICK q : q = [op |-> "createAppt", case |-> c]
    OBVIOUS
  <2>2. q \in AppointmentRequests
    BY <2>1
  <2> QED BY <1>0, <1>1, <2>1, <2>2, ShapesKept DEF ReadForCreate
<1>2. ASSUME NEW s \in Sessions, CommitCreate(s)
      PROVE  AppointmentShapes'
  <2>1. tx[s] \in CreateRequests
    BY <1>2, InFlight DEF CommitCreate
  <2>2. PICK a \in Appointments, v \in CreateVisits :
          appt' = [appt EXCEPT ![a] =
                     [case |-> tx[s].case, status |-> "scheduled", visit |-> v]]
    BY <1>2 DEF CommitCreate
  <2>3. appt' \in [Appointments -> AppointmentRows \cup {NoRow}]
    BY <2>1, <2>2, AppointmentsAssumption DEF AppointmentShapes, AppointmentStatuses
  <2>4. caseRow' \in [Cases -> CaseRows]
    BY <1>2, <2>1 DEF AppointmentShapes, CommitCreate, SetCaseStatus, CaseRows, CaseStatuses
  <2> QED BY <1>0, <1>2, <2>3, <2>4, ShapesKept DEF CommitCreate, Release
<1>3. ASSUME NEW s \in Sessions, NEW a \in Appointments, NEW in \in PatchInputs,
             ReadAppointment(s, a, in)
      PROVE  AppointmentShapes'
  <2>1. in \in [status : AppointmentStatuses \cup {"null"}, visit : Visits, moved : BOOLEAN]
    BY AppointmentsAssumption
  <2>2. PICK set : set = [status |-> NextStatus(in), visit |-> in.visit, moved |-> in.moved]
    OBVIOUS
  <2>3. set \in [status : AppointmentStatuses \cup {"null"}, visit : Visits, moved : BOOLEAN]
    BY <2>1, <2>2, NextStatusType
  <2>4. PICK o \in {"checkOthers", "updateAppt"} :
          Continue(s, [op |-> o, appt |-> a, set |-> set])
    BY <1>3, <2>2 DEF ReadAppointment
  <2>5. [op |-> o, appt |-> a, set |-> set] \in AppointmentRequests
    BY <2>3, <2>4
  <2> QED BY <1>0, <1>3, <2>4, <2>5, ShapesKept DEF ReadAppointment
<1>4. ASSUME NEW s \in Sessions, CheckNoOther(s)
      PROVE  AppointmentShapes'
  <2>1. tx[s] \in UpdateRequests
    BY <1>4, InFlight DEF CheckNoOther
  <2>2. PICK q : q = [tx[s] EXCEPT !.op = "updateAppt"]
    OBVIOUS
  <2>3. q \in AppointmentRequests
    BY <2>1, <2>2
  <2> QED BY <1>0, <1>4, <2>2, <2>3, ShapesKept DEF CheckNoOther
<1>5. ASSUME NEW s \in Sessions, CommitUpdate(s)
      PROVE  AppointmentShapes'
  <2> DEFINE row == Resulting(appt[tx[s].appt], tx[s].set)
  <2>1. tx[s] \in UpdateRequests /\ appt[tx[s].appt] \in AppointmentRows
    BY <1>5, InFlight DEF CommitUpdate
  <2>2. row \in AppointmentRows
    BY <2>1, ResultingType
  <2> HIDE DEF row
  <2>3. appt' = [appt EXCEPT ![tx[s].appt] = row]
    BY <1>5 DEF CommitUpdate, row
  <2>4. appt' \in [Appointments -> AppointmentRows \cup {NoRow}]
    BY <2>1, <2>2, <2>3 DEF AppointmentShapes
  <2>5. UNCHANGED caseRow \/ SetCaseStatus(row.case, "scheduled")
    BY <1>5 DEF CommitUpdate, row
  <2>6. caseRow' \in [Cases -> CaseRows]
    BY <2>2, <2>5 DEF AppointmentShapes, SetCaseStatus, CaseRows, CaseStatuses
  <2> QED BY <1>0, <1>5, <2>4, <2>6, ShapesKept DEF CommitUpdate, Release
<1>6. ASSUME NEW s \in Sessions, RollbackAppointment(s)
      PROVE  AppointmentShapes'
  BY <1>0, <1>6, ShapesKept DEF RollbackAppointment, Release
<1>7. CASE UNCHANGED apptVars
  BY <1>7 DEF AppointmentShapes, SessionsRun, apptVars
<1> QED BY <1>1, <1>2, <1>3, <1>4, <1>5, <1>6, <1>7 DEF AppointmentsNext, AppointmentStep

(* A stored visit result is never lost, so a request that found or brings  *)
(* one still has one when it commits.                                      *)
LEMMA BackedStep ==
  AppointmentShapes /\ UpdatesBacked /\ [AppointmentsNext]_apptVars => UpdatesBacked'
<1> SUFFICES ASSUME AppointmentShapes, UpdatesBacked, [AppointmentsNext]_apptVars
             PROVE  UpdatesBacked'
  OBVIOUS
<1>1. ASSUME NEW s \in Sessions, NEW c \in Cases, ReadForCreate(s, c)
      PROVE  UpdatesBacked'
  BY <1>1 DEF AppointmentShapes, UpdatesBacked, ReadForCreate, Continue, Exists
<1>2. ASSUME NEW s \in Sessions, CommitCreate(s)
      PROVE  UpdatesBacked'
  BY <1>2 DEF AppointmentShapes, UpdatesBacked, CommitCreate, Release, Continue, Exists, Idle
<1>3. ASSUME NEW s \in Sessions, NEW a \in Appointments, NEW in \in PatchInputs,
             ReadAppointment(s, a, in)
      PROVE  UpdatesBacked'
  <2> DEFINE set == [status |-> NextStatus(in), visit |-> in.visit, moved |-> in.moved]
  <2>1. /\ appt' = appt /\ Exists(a)
        /\ CompletionConsistent(Resulting(appt[a], set))
        /\ \A t \in Sessions \ {s} : tx'[t] = tx[t]
        /\ tx'[s].appt = a /\ tx'[s].set = set
    BY <1>3 DEF AppointmentShapes, SessionsRun, ReadAppointment, Continue
  <2>2. set.status = "completed" => Resulting(appt[a], set).visit # "null"
    <3>1. appt[a] \in AppointmentRows
      BY <2>1 DEF AppointmentShapes, Exists
    <3>2. set.status = "completed" => Resulting(appt[a], set).status = "completed"
      BY <3>1 DEF Resulting, Coalesce
    <3> QED BY <2>1, <3>2 DEF CompletionConsistent
  <2> QED BY <2>1, <2>2 DEF UpdatesBacked, Exists
<1>4. ASSUME NEW s \in Sessions, CheckNoOther(s)
      PROVE  UpdatesBacked'
  <2>1. tx[s] \in UpdateRequests
    BY <1>4, InFlight DEF CheckNoOther
  <2>2. /\ appt' = appt
        /\ \A t \in Sessions : t # s => tx'[t] = tx[t]
        /\ tx'[s].appt = tx[s].appt /\ tx'[s].set = tx[s].set
    BY <1>4, <2>1 DEF AppointmentShapes, SessionsRun, CheckNoOther, Continue
  <2> QED BY <1>4, <2>2 DEF UpdatesBacked, Exists, CheckNoOther
<1>5. ASSUME NEW s \in Sessions, CommitUpdate(s)
      PROVE  UpdatesBacked'
  <2> DEFINE row == Resulting(appt[tx[s].appt], tx[s].set)
  <2>1. tx[s] \in UpdateRequests /\ appt[tx[s].appt] \in AppointmentRows
    BY <1>5, InFlight DEF CommitUpdate
  <2>2. row \in AppointmentRows
    BY <2>1, ResultingType
  <2>3. appt[tx[s].appt].visit # "null" => row.visit # "null"
    BY <2>1 DEF Resulting, Coalesce
  <2> HIDE DEF row
  <2>4. /\ appt' = [appt EXCEPT ![tx[s].appt] = row]
        /\ tx' = [tx EXCEPT ![s] = Idle]
    BY <1>5 DEF CommitUpdate, Release, Continue, row
  <2> SUFFICES ASSUME NEW t \in Sessions, tx'[t].op \in {"checkOthers", "updateAppt"}
               PROVE  /\ Exists(tx[t].appt)'
                      /\ tx'[t].set.status = "completed" =>
                           Resulting(appt[tx[t].appt], tx[t].set)'.visit # "null"
    BY DEF UpdatesBacked
  <2>5. t # s /\ tx'[t] = tx[t]
    BY <2>4 DEF AppointmentShapes, SessionsRun, Idle
  <2>6. tx[t] \in UpdateRequests /\ appt[tx[t].appt] \in AppointmentRows
    BY <2>5, InFlight
  <2>7. appt'[tx[t].appt] \in AppointmentRows
    BY <2>2, <2>4, <2>6 DEF AppointmentShapes
  <2>8. appt[tx[t].appt].visit # "null" => appt'[tx[t].appt].visit # "null"
    BY <2>3, <2>4, <2>6 DEF AppointmentShapes
  <2>9. tx[t].set.status = "completed" => Resulting(appt[tx[t].appt], tx[t].set).visit # "null"
    BY <2>5, <2>6 DEF UpdatesBacked
  <2>10. tx[t].set.visit # "null" \/ appt[tx[t].appt].visit # "null" =>
           Resulting(appt'[tx[t].appt], tx[t].set).visit # "null"
    BY <2>6, <2>7, <2>8 DEF Resulting, Coalesce
  <2>11. Resulting(appt[tx[t].appt], tx[t].set).visit # "null" =>
           tx[t].set.visit # "null" \/ appt[tx[t].appt].visit # "null"
    BY <2>6 DEF Resulting, Coalesce
  <2> QED BY <2>5, <2>7, <2>9, <2>10, <2>11 DEF Exists, AppointmentStatuses
<1>6. ASSUME NEW s \in Sessions, RollbackAppointment(s)
      PROVE  UpdatesBacked'
  BY <1>6 DEF AppointmentShapes, UpdatesBacked, RollbackAppointment, Release, Continue,
              Exists, Idle
<1>7. CASE UNCHANGED apptVars
  BY <1>7 DEF UpdatesBacked, apptVars, Exists
<1> QED BY <1>1, <1>2, <1>3, <1>4, <1>5, <1>6, <1>7 DEF AppointmentsNext, AppointmentStep

LEMMA ResultStep ==
  AppointmentShapes /\ UpdatesBacked /\ CompletedHasResult /\ [AppointmentsNext]_apptVars
    => CompletedHasResult'
<1> SUFFICES ASSUME AppointmentShapes, UpdatesBacked, CompletedHasResult,
                    [AppointmentsNext]_apptVars
             PROVE  CompletedHasResult'
  OBVIOUS
<1>1. ASSUME NEW s \in Sessions, CommitCreate(s)
      PROVE  CompletedHasResult'
  BY <1>1 DEF AppointmentShapes, CompletedHasResult, CommitCreate, Exists
<1>2. ASSUME NEW s \in Sessions, CommitUpdate(s)
      PROVE  CompletedHasResult'
  <2> DEFINE row == Resulting(appt[tx[s].appt], tx[s].set)
  <2>1. tx[s] \in UpdateRequests /\ appt[tx[s].appt] \in AppointmentRows
    BY <1>2, InFlight DEF CommitUpdate
  <2>2. row.status = "completed" => row.visit # "null"
    <3>1. CASE tx[s].set.status = "completed"
      BY <1>2, <3>1 DEF UpdatesBacked, CommitUpdate
    <3>2. CASE tx[s].set.status = "null"
      <4>1. row.status = appt[tx[s].appt].status
        BY <2>1, <3>2 DEF Resulting, Coalesce
      <4>2. appt[tx[s].appt].visit # "null" => row.visit # "null"
        BY <2>1 DEF Resulting, Coalesce
      <4> QED BY <2>1, <4>1, <4>2, <1>2 DEF CompletedHasResult, UpdatesBacked, CommitUpdate
    <3>3. CASE tx[s].set.status \notin {"completed", "null"}
      BY <2>1, <3>3 DEF Resulting, Coalesce
    <3> QED BY <3>1, <3>2, <3>3
  <2> HIDE DEF row
  <2>3. appt' = [appt EXCEPT ![tx[s].appt] = row]
    BY <1>2 DEF CommitUpdate, row
  <2> QED BY <2>1, <2>2, <2>3 DEF AppointmentShapes, CompletedHasResult, Exists
<1>3. CASE UNCHANGED appt
  BY <1>3 DEF CompletedHasResult, Exists
<1> QED BY <1>1, <1>2, <1>3
        DEF AppointmentsNext, AppointmentStep, ReadForCreate, ReadAppointment, CheckNoOther,
            RollbackAppointment, apptVars

LEMMA BoundStep ==
  AppointmentShapes /\ UpdatesBacked /\ OpenOrOpeningBounded /\ [AppointmentsNext]_apptVars
    => OpenOrOpeningBounded'
<1> SUFFICES ASSUME AppointmentShapes, UpdatesBacked, OpenOrOpeningBounded,
                    [AppointmentsNext]_apptVars, NEW c \in Cases
             PROVE  /\ IsFiniteSet((OpenAppointments(c) \cup Reopening(c))')
                    /\ Cardinality((OpenAppointments(c) \cup Reopening(c))')
                       + Cardinality(Creating(c)') <= Cardinality(Sessions)
  BY DEF OpenOrOpeningBounded
<1> DEFINE W == OpenAppointments(c) \cup Reopening(c)
           W1 == W'
           K == Creating(c)
           K1 == K'
<1>1. /\ IsFiniteSet(W) /\ Cardinality(W) + Cardinality(K) <= Cardinality(Sessions)
      /\ K \in SUBSET Sessions
  BY DEF OpenOrOpeningBounded, Creating
<1>2. ASSUME W1 \subseteq W, K1 \subseteq K
      PROVE  IsFiniteSet(W1) /\ Cardinality(W1) + Cardinality(K1) <= Cardinality(Sessions)
  <2> HIDE DEF W, K, W1, K1
  <2> QED BY <1>1, <1>2, BoundShrinks
<1>3. ASSUME W1 \subseteq {tx'[s].appt : s \in {x \in Sessions : tx'[x].op = "updateAppt"}}
      PROVE  IsFiniteSet(W1) /\ Cardinality(W1) + Cardinality(K1) <= Cardinality(Sessions)
  <2>1. K1 = {s \in Sessions : tx'[s].op = "createAppt" /\ tx'[s].case = c}
    BY DEF Creating
  <2> HIDE DEF W, K, W1, K1
  <2> QED BY <1>3, <2>1, OneOpeningPerSession
<1>5. Reopening(c)' \subseteq {tx'[s].appt : s \in {x \in Sessions : tx'[x].op = "updateAppt"}}
  BY DEF Reopening
<1>6. ASSUME NEW s \in Sessions, NEW d \in Cases, ReadForCreate(s, d)
      PROVE  IsFiniteSet(W1) /\ Cardinality(W1) + Cardinality(K1) <= Cardinality(Sessions)
  <2>1. /\ appt' = appt /\ tx[s] = Idle
        /\ tx' = [tx EXCEPT ![s] = [op |-> "createAppt", case |-> d]]
        /\ OpenAppointments(d) = {}
    BY <1>6 DEF ReadForCreate, Continue
  <2>2. OpenAppointments(c)' = OpenAppointments(c)
    BY <2>1 DEF OpenAppointments, Exists
  <2>3. CASE c = d
    BY <2>1, <2>2, <2>3, <1>3, <1>5
  <2>4. CASE c # d
    <3>1. \A t \in Sessions : tx'[t].op = "updateAppt" => tx'[t] = tx[t]
      BY <2>1 DEF AppointmentShapes
    <3>2. Reopening(c)' \subseteq Reopening(c)
      BY <2>1, <3>1 DEF Reopening
    <3>3. K1 \subseteq K
      BY <2>1, <2>4 DEF Creating, AppointmentShapes
    <3> QED BY <1>2, <2>2, <3>2, <3>3
  <2> QED BY <2>3, <2>4
<1>7. ASSUME NEW s \in Sessions, CommitCreate(s)
      PROVE  IsFiniteSet(W1) /\ Cardinality(W1) + Cardinality(K1) <= Cardinality(Sessions)
  <2>1. tx[s] \in CreateRequests
    BY <1>7, InFlight DEF CommitCreate
  <2>2. PICK a \in Appointments, v \in CreateVisits :
          /\ ~Exists(a)
          /\ appt' = [appt EXCEPT ![a] =
                        [case |-> tx[s].case, status |-> "scheduled", visit |-> v]]
    BY <1>7 DEF CommitCreate
  <2>3. tx' = [tx EXCEPT ![s] = Idle]
    BY <1>7 DEF CommitCreate, Release, Continue
  <2>4. \A t \in Sessions : tx'[t].op = "updateAppt" =>
          /\ tx'[t] = tx[t] /\ tx[t].appt # a
          /\ appt'[tx[t].appt] = appt[tx[t].appt]
    <3> SUFFICES ASSUME NEW t \in Sessions, tx'[t].op = "updateAppt"
                 PROVE  /\ tx'[t] = tx[t] /\ tx[t].appt # a
                        /\ appt'[tx[t].appt] = appt[tx[t].appt]
      OBVIOUS
    <3>1. tx'[t] = tx[t]
      BY <2>3 DEF AppointmentShapes, SessionsRun, Idle
    <3>2. Exists(tx[t].appt) /\ tx[t].appt \in Appointments
      BY <3>1, InFlight DEF UpdatesBacked
    <3> QED BY <2>2, <3>1, <3>2 DEF AppointmentShapes
  <2>5. Reopening(c)' \subseteq Reopening(c)
    BY <2>4 DEF Reopening
  <2>6. CASE c = tx[s].case
    <3>1. OpenAppointments(c)' \subseteq OpenAppointments(c) \cup {a}
      BY <2>2 DEF OpenAppointments, Exists, AppointmentShapes
    <3>2. s \in K /\ K1 \subseteq K \ {s}
      BY <1>7, <2>3, <2>6 DEF Creating, CommitCreate, Idle, AppointmentShapes, SessionsRun
    <3>3. W1 \subseteq W \cup {a}
      BY <2>5, <3>1
    <3> HIDE DEF W, W1, K, K1
    <3>4. /\ IsFiniteSet(W \cup {a})
          /\ Cardinality(W \cup {a}) + Cardinality(K \ {s}) <= Cardinality(Sessions)
      BY <1>1, <3>2, BoundMoves
    <3> QED BY <1>1, <3>2, <3>3, <3>4, BoundShrinks
  <2>7. CASE c # tx[s].case
    <3>1. OpenAppointments(c)' \subseteq OpenAppointments(c)
      BY <2>2, <2>7 DEF OpenAppointments, Exists, AppointmentShapes
    <3>2. K1 \subseteq K
      BY <2>3 DEF Creating, Idle, AppointmentShapes
    <3> QED BY <1>2, <2>5, <3>1, <3>2
  <2> QED BY <2>6, <2>7
<1>8. ASSUME NEW s \in Sessions, NEW a \in Appointments, NEW in \in PatchInputs,
             ReadAppointment(s, a, in)
      PROVE  IsFiniteSet(W1) /\ Cardinality(W1) + Cardinality(K1) <= Cardinality(Sessions)
  <2> DEFINE set == [status |-> NextStatus(in), visit |-> in.visit, moved |-> in.moved]
  <2>1. /\ appt' = appt /\ Exists(a)
        /\ \A t \in Sessions \ {s} : tx'[t] = tx[t]
        /\ tx'[s].appt = a /\ tx'[s].set = set
        /\ tx'[s].op = "updateAppt" => IsOpen(appt[a]) \/ ~IsOpen(Resulting(appt[a], set))
        /\ tx'[s].op # "createAppt"
    BY <1>8 DEF AppointmentShapes, SessionsRun, ReadAppointment, Continue
  <2>2. OpenAppointments(c)' = OpenAppointments(c)
    BY <2>1 DEF OpenAppointments, Exists
  <2>3. Reopening(c)' \subseteq W
    BY <2>1 DEF Reopening, OpenAppointments
  <2>4. K1 \subseteq K
    BY <2>1 DEF Creating
  <2> QED BY <1>2, <2>2, <2>3, <2>4
<1>9. ASSUME NEW s \in Sessions, CheckNoOther(s)
      PROVE  IsFiniteSet(W1) /\ Cardinality(W1) + Cardinality(K1) <= Cardinality(Sessions)
  <2> DEFINE a == tx[s].appt
  <2>1. tx[s] \in UpdateRequests
    BY <1>9, InFlight DEF CheckNoOther
  <2>2. /\ appt' = appt
        /\ \A t \in Sessions : t # s => tx'[t] = tx[t]
        /\ tx'[s].appt = a /\ tx'[s].op = "updateAppt"
        /\ OpenAppointments(appt[a].case) \subseteq {a}
    BY <1>9, <2>1 DEF AppointmentShapes, SessionsRun, CheckNoOther, Continue
  <2>3. OpenAppointments(c)' = OpenAppointments(c)
    BY <2>2 DEF OpenAppointments, Exists
  <2>4. CASE c = appt[a].case
    <3>1. OpenAppointments(c)'
            \subseteq {tx'[t].appt : t \in {x \in Sessions : tx'[x].op = "updateAppt"}}
      BY <2>2, <2>3, <2>4
    <3> QED BY <1>3, <1>5, <3>1
  <2>5. CASE c # appt[a].case
    <3>1. Reopening(c)' \subseteq Reopening(c)
      BY <2>2, <2>5 DEF Reopening
    <3>2. K1 \subseteq K
      BY <2>2 DEF Creating
    <3> QED BY <1>2, <2>3, <3>1, <3>2
  <2> QED BY <2>4, <2>5
<1>10. ASSUME NEW s \in Sessions, CommitUpdate(s)
       PROVE  IsFiniteSet(W1) /\ Cardinality(W1) + Cardinality(K1) <= Cardinality(Sessions)
  <2> DEFINE a == tx[s].appt
             row == Resulting(appt[a], tx[s].set)
  <2>1. tx[s] \in UpdateRequests /\ appt[a] \in AppointmentRows /\ a \in Appointments
    BY <1>10, InFlight DEF CommitUpdate
  <2>2. row \in AppointmentRows /\ row.case = appt[a].case
    BY <2>1, ResultingType
  <2>3. /\ appt' = [appt EXCEPT ![a] = row]
        /\ tx' = [tx EXCEPT ![s] = Idle]
        /\ tx[s].op = "updateAppt"
    BY <1>10 DEF CommitUpdate, Release, Continue
  <2>4. row.visit = "null" => appt[a].visit = "null"
    BY <2>1 DEF Resulting, Coalesce
  <2>5. IsOpen(row) => IsOpen(appt[a]) \/ tx[s].set.status \in {"scheduled", "rescheduled"}
    BY <2>1 DEF Resulting, Coalesce, IsOpen, TerminalStatuses, AppointmentStatuses
  <2>6. OpenAppointments(c)' \subseteq W
    <3> SUFFICES ASSUME NEW x \in Appointments, Exists(x)', appt'[x].case = c,
                        IsOpen(appt'[x])
                 PROVE  x \in W
      BY DEF OpenAppointments
    <3>1. CASE x # a
      <4>1. appt'[x] = appt[x]
        BY <2>3, <3>1 DEF AppointmentShapes
      <4> QED BY <4>1 DEF OpenAppointments, Exists
    <3>2. CASE x = a
      <4>1. appt'[x] = row
        BY <2>1, <2>3, <3>2 DEF AppointmentShapes
      <4>2. CASE IsOpen(appt[a])
        BY <2>1, <2>2, <3>2, <4>1, <4>2, InFlight, <2>3
           DEF OpenAppointments, Exists, AppointmentStatuses, UpdatesBacked
      <4>3. CASE tx[s].set.status \in {"scheduled", "rescheduled"}
        BY <2>2, <2>3, <3>2, <4>1, <4>3 DEF Reopening
      <4> QED BY <2>5, <4>1, <4>2, <4>3
    <3> QED BY <3>1, <3>2
  <2>7. Reopening(c)' \subseteq Reopening(c)
    <3> SUFFICES ASSUME NEW t \in Sessions, tx'[t].op = "updateAppt",
                        tx'[t].set.status \in {"scheduled", "rescheduled"},
                        IsOpen(Resulting(appt'[tx'[t].appt], tx'[t].set)),
                        appt'[tx'[t].appt].case = c
                 PROVE  tx'[t].appt \in Reopening(c)
      BY DEF Reopening
    <3>1. t # s /\ tx'[t] = tx[t]
      BY <2>3 DEF AppointmentShapes, SessionsRun, Idle
    <3>2. tx[t] \in UpdateRequests /\ appt[tx[t].appt] \in AppointmentRows
      BY <3>1, InFlight
    <3>3. CASE tx[t].appt # a
      <4>1. appt'[tx[t].appt] = appt[tx[t].appt]
        BY <2>3, <3>2, <3>3 DEF AppointmentShapes
      <4> QED BY <3>1, <4>1 DEF Reopening
    <3>4. CASE tx[t].appt = a
      <4>1. appt'[tx[t].appt] = row
        BY <2>1, <2>3, <3>4 DEF AppointmentShapes
      <4>2. IsOpen(Resulting(row, tx[t].set))
        BY <3>1, <4>1
      <4> HIDE DEF row
      <4>3. row.visit = "null" /\ tx[t].set.visit = "null"
        BY <2>2, <3>2, <4>2 DEF Resulting, Coalesce, IsOpen
      <4>4. IsOpen(Resulting(appt[a], tx[t].set))
        BY <2>1, <2>4, <3>1, <3>2, <4>3
           DEF Resulting, Coalesce, IsOpen, TerminalStatuses
      <4> QED BY <2>2, <3>1, <3>4, <4>1, <4>4 DEF Reopening
    <3> QED BY <3>3, <3>4
  <2>8. K1 \subseteq K
    BY <2>3 DEF Creating, Idle, AppointmentShapes
  <2> QED BY <1>2, <2>6, <2>7, <2>8
<1>11. ASSUME NEW s \in Sessions, RollbackAppointment(s)
       PROVE  IsFiniteSet(W1) /\ Cardinality(W1) + Cardinality(K1) <= Cardinality(Sessions)
  <2>1. appt' = appt /\ tx' = [tx EXCEPT ![s] = Idle]
    BY <1>11 DEF RollbackAppointment, Release, Continue
  <2>2. W1 \subseteq W
    BY <2>1 DEF OpenAppointments, Reopening, Exists, Idle, AppointmentShapes
  <2>3. K1 \subseteq K
    BY <2>1 DEF Creating, Idle, AppointmentShapes
  <2> QED BY <1>2, <2>2, <2>3
<1>12. CASE UNCHANGED apptVars
  <2>1. W1 \subseteq W /\ K1 \subseteq K
    BY <1>12 DEF apptVars, OpenAppointments, Reopening, Creating, Exists
  <2> QED BY <1>2, <2>1
<1> QED BY <1>6, <1>7, <1>8, <1>9, <1>10, <1>11, <1>12 DEF AppointmentsNext, AppointmentStep
-------------------------------------------------------------------------------
LEMMA AppointmentsInitial == AppointmentsInit => AppointmentsInv
<1> SUFFICES ASSUME AppointmentsInit PROVE AppointmentsInv
  OBVIOUS
<1>1. AppointmentShapes /\ UpdatesBacked /\ CompletedHasResult
  BY CaseStoreAssumption
     DEF AppointmentsInit, InitCases, AppointmentShapes, SessionsRun, AppointmentOps,
         UpdatesBacked, CompletedHasResult, Exists, Idle
<1>2. ASSUME NEW c \in Cases
      PROVE  OpenAppointments(c) = {} /\ Reopening(c) = {} /\ Creating(c) = {}
  BY DEF AppointmentsInit, InitCases, OpenAppointments, Reopening, Creating, Exists, Idle
<1>3. /\ IsFiniteSet({}) /\ Cardinality({}) = 0
      /\ Cardinality(Sessions) \in Nat
  BY FS_EmptySet, FS_CardinalityType, CaseStoreAssumption
<1>4. OpenOrOpeningBounded
  BY <1>2, <1>3 DEF OpenOrOpeningBounded
<1> QED BY <1>1, <1>4 DEF AppointmentsInv

LEMMA AppointmentsKept ==
  AppointmentsInv /\ [AppointmentsNext]_apptVars => AppointmentsInv'
BY TypeStep, BackedStep, ResultStep, BoundStep DEF AppointmentsInv

(* The inductive invariant of AppointmentService's interleaved requests.   *)
THEOREM AppointmentsInvariant == AppointmentsSpec => []AppointmentsInv
BY AppointmentsInitial, AppointmentsKept, PTL DEF AppointmentsSpec

(* A step on requests of some operations is none on requests of others.    *)
LEMMA SeenElsewhere ==
  ASSUME NEW s, NEW ops, NEW others, StepOf(s, ops), ops \cap others = {}, "idle" \notin others
  PROVE  StepElsewhere(s, others)
BY DEF StepOf, StepElsewhere, Idle

(* What a step is to the other services: it is on a request about          *)
(* appointments, and calls cases scheduled, without a timestamp.           *)
LEMMA AppointmentStepSeen ==
  ASSUME AppointmentsInv, NEW s \in Sessions, AppointmentStep(s)
  PROVE  StepOf(s, AppointmentOps) /\ CasesMoved({"scheduled"}, {})
<1>1. AppointmentShapes /\ UpdatesBacked /\ SessionsRun /\ caseRow \in [Cases -> CaseRows]
  BY DEF AppointmentsInv, AppointmentShapes
<1>2. ASSUME NEW q, Continue(s, q), q = Idle \/ q.op \in AppointmentOps,
             tx[s] = Idle \/ tx[s].op \in AppointmentOps
      PROVE  StepOf(s, AppointmentOps)
  <2>1. tx'[s] = q
    BY <1>1, <1>2, RequestReplaced
  <2> QED BY <1>2, <2>1 DEF StepOf, Moves, Continue
<1>3. ASSUME NEW a \in Appointments, NEW in \in PatchInputs, ReadAppointment(s, a, in)
      PROVE  StepOf(s, AppointmentOps)
  <2>1. PICK set : set = [status |-> NextStatus(in), visit |-> in.visit, moved |-> in.moved]
    OBVIOUS
  <2>2. PICK o \in {"checkOthers", "updateAppt"} :
          Continue(s, [op |-> o, appt |-> a, set |-> set])
    BY <1>3, <2>1 DEF ReadAppointment
  <2> QED BY <1>2, <1>3, <2>2 DEF ReadAppointment, AppointmentOps
<1>4. ASSUME CheckNoOther(s) PROVE StepOf(s, AppointmentOps)
  <2>1. [tx[s] EXCEPT !.op = "updateAppt"].op = "updateAppt"
    BY <1>1, <1>4, InFlight DEF CheckNoOther
  <2>2. /\ Continue(s, [tx[s] EXCEPT !.op = "updateAppt"])
        /\ tx[s].op \in AppointmentOps
    BY <1>4 DEF CheckNoOther, AppointmentOps
  <2>3. PICK q : q = [tx[s] EXCEPT !.op = "updateAppt"]
    OBVIOUS
  <2>4. q.op \in AppointmentOps
    BY <2>1, <2>3 DEF AppointmentOps
  <2> QED BY <1>2, <2>2, <2>3, <2>4
<1>5. StepOf(s, AppointmentOps)
  BY <1>2, <1>3, <1>4
     DEF AppointmentStep, ReadForCreate, CommitCreate, CommitUpdate, RollbackAppointment,
         Release, AppointmentOps
<1>6. ASSUME NEW c \in Cases, SetCaseStatus(c, "scheduled")
      PROVE  CasesMoved({"scheduled"}, {})
  BY <1>1, <1>6 DEF SetCaseStatus, CasesMoved, CaseRows, CaseStatuses, CaseStamps
<1>7. CasesMoved({"scheduled"}, {})
  <2>1. CASE UNCHANGED caseRow
    BY <1>1, <2>1 DEF CasesMoved
  <2>2. CASE CommitCreate(s)
    BY <1>1, <1>6, <2>2, InFlight DEF CommitCreate
  <2>3. CASE CommitUpdate(s)
    <3>1. /\ appt[tx[s].appt] \in AppointmentRows /\ tx[s] \in UpdateRequests
      BY <1>1, <2>3, InFlight DEF CommitUpdate
    <3>2. Resulting(appt[tx[s].appt], tx[s].set).case \in Cases
      BY <3>1, ResultingType
    <3> QED BY <1>6, <2>1, <2>3, <3>2 DEF CommitUpdate
  <2> QED BY <2>1, <2>2, <2>3
    DEF AppointmentStep, ReadForCreate, ReadAppointment, CheckNoOther, RollbackAppointment
<1> QED BY <1>5, <1>7

(* A step of another service keeps the invariant.                          *)
LEMMA AppointmentsUndisturbed ==
  ASSUME AppointmentsInv, NEW s \in Sessions, StepElsewhere(s, AppointmentOps),
         caseRow' \in [Cases -> CaseRows], UNCHANGED appt
  PROVE  AppointmentsInv'
<1>1. /\ SessionsRun' /\ tx[s].op \notin AppointmentOps /\ tx'[s].op \notin AppointmentOps
      /\ \A t \in Sessions \ {s} : tx'[t] = tx[t]
  BY DEF StepElsewhere, Moves, AppointmentsInv, AppointmentShapes, SessionsRun
<1>2. AppointmentShapes'
  BY <1>1 DEF AppointmentsInv, AppointmentShapes
<1>3. CompletedHasResult' /\ UpdatesBacked'
  BY <1>1 DEF AppointmentsInv, CompletedHasResult, UpdatesBacked, Exists, AppointmentOps
<1>4. ASSUME NEW c \in Cases
      PROVE  /\ OpenAppointments(c)' = OpenAppointments(c) /\ Creating(c)' = Creating(c)
             /\ Reopening(c)' \subseteq Reopening(c) /\ Reopening(c) \subseteq Reopening(c)'
  BY <1>1 DEF OpenAppointments, Creating, Reopening, Exists, AppointmentOps
<1>5. OpenOrOpeningBounded'
  <2>1. ASSUME NEW c \in Cases PROVE Reopening(c)' = Reopening(c)
    BY <1>4
  <2> QED BY <1>4, <2>1 DEF AppointmentsInv, OpenOrOpeningBounded
<1> QED BY <1>2, <1>3, <1>5 DEF AppointmentsInv

(* Rows and requests in flight always have the types the schema and the    *)
(* validators give them.                                                   *)
THEOREM AppointmentsTypeCorrect == AppointmentsSpec => []AppointmentsTypeOK
<1> DEFINE Own == \A s \in Sessions : tx[s] = Idle \/ tx[s].op \in AppointmentOps
<1>1. AppointmentsInit => Own
  BY DEF AppointmentsInit, InitCases
<1>2. AppointmentsInv /\ Own /\ [AppointmentsNext]_apptVars => Own'
  <2> SUFFICES ASSUME AppointmentsInv, Own, [AppointmentsNext]_apptVars, NEW t \in Sessions
               PROVE  tx'[t] = Idle \/ tx'[t].op \in AppointmentOps
    OBVIOUS
  <2>1. CASE AppointmentsNext
    <3>1. PICK s \in Sessions : StepOf(s, AppointmentOps)
      BY <2>1, AppointmentStepSeen DEF AppointmentsNext
    <3>2. t # s => tx'[t] = tx[t]
      BY <3>1 DEF StepOf, Moves, AppointmentsInv, AppointmentShapes, SessionsRun
    <3> QED BY <3>1, <3>2 DEF StepOf
  <2>2. CASE UNCHANGED apptVars
    BY <2>2 DEF apptVars
  <2> QED BY <2>1, <2>2
<1>3. AppointmentsInv /\ Own => AppointmentsTypeOK
  BY DEF AppointmentsInv, AppointmentShapes, SessionsRun, AppointmentsTypeOK
<1> QED BY <1>1, <1>2, <1>3, AppointmentsInvariant, PTL DEF AppointmentsSpec

(* Every extra open appointment needs a session: the open ones are among   *)
(* those the invariant counts.                                             *)
LEMMA InvariantBounds == AppointmentsInv => OpenAppointmentsBounded
<1> SUFFICES ASSUME AppointmentsInv, NEW c \in Cases
             PROVE  Cardinality(OpenAppointments(c)) <= Cardinality(Sessions)
  BY DEF OpenAppointmentsBounded
<1>1. /\ IsFiniteSet(OpenAppointments(c) \cup Reopening(c))
      /\ Cardinality(OpenAppointments(c) \cup Reopening(c)) + Cardinality(Creating(c))
           <= Cardinality(Sessions)
  BY DEF AppointmentsInv, OpenOrOpeningBounded
<1>2. Creating(c) \in SUBSET Sessions
  BY DEF Creating
<1>3. IsFiniteSet(OpenAppointments(c)) /\
      Cardinality(OpenAppointments(c)) + Cardinality({}) <= Cardinality(Sessions)
  BY <1>1, <1>2, BoundShrinks
<1>4. Cardinality({}) = 0 /\ Cardinality(OpenAppointments(c)) \in Nat
  BY <1>3, FS_EmptySet, FS_CardinalityType
<1> QED BY <1>3, <1>4

(* A case never has more open appointments than the pool has clients, for  *)
(* any pool size: findOpenAppointmentsByCaseId without a lock lets in one  *)
(* extra appointment per concurrent request and no more.                   *)
THEOREM OpenAppointmentsAreBounded == AppointmentsSpec => []OpenAppointmentsBounded
BY AppointmentsInvariant, InvariantBounds, PTL

(* With one client in the pool the rule of docs/PROJECT_GUARDRAILS.md      *)
(* holds: a case has at most one open appointment.                         *)
THEOREM OneSessionOneOpen ==
  ASSUME Cardinality(Sessions) = 1
  PROVE  AppointmentsSpec => []AtMostOneOpen
<1>1. OpenAppointmentsBounded => AtMostOneOpen
  BY DEF OpenAppointmentsBounded, AtMostOneOpen
<1> QED BY OpenAppointmentsAreBounded, <1>1, PTL

(* No interleaving of PATCHes completes an appointment that has no visit   *)
(* result: ensureAppointmentCompletionConsistency survives a stale read    *)
(* that far.                                                               *)
THEOREM CompletedAlwaysHasResult == AppointmentsSpec => []CompletedHasResult
<1>1. AppointmentsInv => CompletedHasResult
  BY DEF AppointmentsInv
<1> QED BY AppointmentsInvariant, <1>1, PTL
-------------------------------------------------------------------------------
(* With one session nothing changes a row between the check of a PATCH and *)
(* its UPDATE.                                                             *)
LEMMA AppointmentsSerialKept ==
  ASSUME OneSession, AppointmentsInv, AppointmentsSerial, NEW s \in Sessions,
         AppointmentStep(s)
  PROVE  AppointmentsSerial'
<1>1. /\ AppointmentShapes /\ UpdatesBacked /\ SessionsRun /\ \A t \in Sessions : t = s
      /\ appt \in [Appointments -> AppointmentRows \cup {NoRow}]
  BY DEF AppointmentsInv, AppointmentShapes, OneSession
<1>2. ASSUME NEW q, Continue(s, q), UNCHANGED appt,
             q.op \in {"checkOthers", "updateAppt"} =>
               CompletionConsistent(Resulting(appt[q.appt], q.set))
      PROVE  AppointmentsSerial'
  <2>1. tx'[s] = q
    BY <1>1, <1>2, RequestReplaced
  <2> QED BY <1>1, <1>2, <2>1 DEF AppointmentsSerial, CompletionRecorded, Exists
<1>3. ASSUME NEW a \in Appointments, NEW row, CompletionConsistent(row),
             appt' = [appt EXCEPT ![a] = row], Continue(s, Idle)
      PROVE  AppointmentsSerial'
  <2>1. tx'[s] = Idle
    BY <1>1, <1>3, RequestReplaced
  <2> QED BY <1>1, <1>3, <2>1 DEF AppointmentsSerial, CompletionRecorded, Exists, Idle
<1>4. ASSUME NEW c \in Cases, ReadForCreate(s, c) PROVE AppointmentsSerial'
  BY <1>2, <1>4 DEF ReadForCreate
<1>5. CASE CommitCreate(s)
  BY <1>3, <1>5 DEF CommitCreate, Release
<1>6. ASSUME NEW a \in Appointments, NEW in \in PatchInputs, ReadAppointment(s, a, in)
      PROVE  AppointmentsSerial'
  <2>1. PICK set : set = [status |-> NextStatus(in), visit |-> in.visit, moved |-> in.moved]
    OBVIOUS
  <2>2. PICK o \in {"checkOthers", "updateAppt"} :
          Continue(s, [op |-> o, appt |-> a, set |-> set])
    BY <1>6, <2>1 DEF ReadAppointment
  <2>3. UNCHANGED appt /\ CompletionConsistent(Resulting(appt[a], set))
    BY <1>6, <2>1 DEF ReadAppointment
  <2> QED BY <1>2, <2>2, <2>3
<1>7. CASE CheckNoOther(s)
  <2>1. tx[s] \in UpdateRequests /\ UNCHANGED appt
    BY <1>1, <1>7, InFlight DEF CheckNoOther
  <2>2. PICK q : q = [tx[s] EXCEPT !.op = "updateAppt"]
    OBVIOUS
  <2>3. q.appt = tx[s].appt /\ q.set = tx[s].set
    BY <2>1, <2>2
  <2>4. CompletionConsistent(Resulting(appt[q.appt], q.set))
    BY <1>7, <2>3 DEF CheckNoOther, AppointmentsSerial
  <2> QED BY <1>2, <1>7, <2>1, <2>2, <2>4 DEF CheckNoOther
<1>8. CASE CommitUpdate(s)
  <2>1. tx[s] \in UpdateRequests
    BY <1>1, <1>8, InFlight DEF CommitUpdate
  <2>2. CompletionConsistent(Resulting(appt[tx[s].appt], tx[s].set))
    BY <1>8 DEF CommitUpdate, AppointmentsSerial
  <2> QED BY <1>3, <1>8, <2>1, <2>2 DEF CommitUpdate, Release
<1>9. CASE RollbackAppointment(s)
  BY <1>2, <1>9 DEF RollbackAppointment, Release, Idle
<1> QED BY <1>4, <1>5, <1>6, <1>7, <1>8, <1>9 DEF AppointmentStep

LEMMA AppointmentsSerialUndisturbed ==
  ASSUME OneSession, AppointmentsSerial, NEW s \in Sessions,
         StepElsewhere(s, AppointmentOps), UNCHANGED appt
  PROVE  AppointmentsSerial'
<1>1. \A t \in Sessions : tx'[t].op \notin AppointmentOps
  BY DEF StepElsewhere, OneSession
<1> QED BY <1>1 DEF AppointmentsSerial, CompletionRecorded, Exists, AppointmentOps

LEMMA AppointmentsSerialInit == AppointmentsInit => AppointmentsSerial
BY DEF AppointmentsInit, InitCases, AppointmentsSerial, CompletionRecorded, Exists, Idle

(* With one session the rule of ensureAppointmentCompletionConsistency     *)
(* holds of every stored row: it is completed exactly when its visit is.   *)
THEOREM CompletionAlwaysRecorded ==
  ASSUME OneSession
  PROVE  AppointmentsSpec => []CompletionRecorded
<1>1. AppointmentsInv /\ AppointmentsSerial /\ [AppointmentsNext]_apptVars
        => AppointmentsSerial'
  <2>1. AppointmentsInv /\ AppointmentsSerial /\ AppointmentsNext => AppointmentsSerial'
    BY AppointmentsSerialKept DEF AppointmentsNext
  <2>2. AppointmentsSerial /\ UNCHANGED apptVars => AppointmentsSerial'
    BY DEF apptVars, AppointmentsSerial, CompletionRecorded, Exists
  <2> QED BY <2>1, <2>2
<1>2. AppointmentsSerial => CompletionRecorded
  BY DEF AppointmentsSerial
<1> QED BY <1>1, <1>2, AppointmentsSerialInit, AppointmentsInvariant, PTL
        DEF AppointmentsSpec
===============================================================================
