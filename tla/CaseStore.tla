------------------------------- MODULE CaseStore -------------------------------
(***************************************************************************)
(* The part of the database every case service shares: the rows of table   *)
(* `cases` and the request sessions that work on them.                     *)
(*                                                                         *)
(* A session is one client of the connection pool.  It runs one HTTP       *)
(* request at a time, inside withTransaction: BEGIN, the reads and checks  *)
(* of the service, its writes, COMMIT; any thrown error is a ROLLBACK.     *)
(* The database runs READ COMMITTED, so a check reads the committed rows   *)
(* of its own instant and nothing keeps them so until the COMMIT.  A       *)
(* request is therefore modelled by one action per group of reads, which   *)
(* leaves what the code goes on with in tx[s], and one action for its      *)
(* writes and COMMIT.  The writes of a request are updates by primary key  *)
(* that touch child rows before the case row; a row it wrote stays locked  *)
(* until its COMMIT, so the order of the commits is a serial order of the  *)
(* writes and one atomic action per commit loses no behaviour.             *)
(***************************************************************************)
EXTENDS Naturals, FiniteSets

CONSTANTS Cases,            \* ids of table cases
          Sessions,         \* clients of the connection pool
          InitialCases      \* the rows a case's earlier life can have left

(* The CHECK constraint of cases.status.                                   *)
CaseStatuses ==
  {"draft", "pending_customer", "submitted", "reviewing", "accepted", "rejected",
   "cancelled", "dispatch_pending", "assigned", "scheduled", "on_site",
   "completed", "closed"}

(* The timestamp columns of a case tell which statuses it has reached:     *)
(* submitted_at, reviewed_at, accepted_at, rejected_at, cancelled_at,      *)
(* completed_at and closed_at.                                             *)
CaseStamps ==
  {"submitted", "reviewing", "accepted", "rejected", "cancelled", "completed", "closed"}

CaseRows == [status : CaseStatuses, stamps : SUBSET CaseStamps]

ASSUME CaseStoreAssumption ==
  /\ IsFiniteSet(Sessions)
  /\ InitialCases \subseteq CaseRows

VARIABLES caseRow,          \* [status, stamps] of each case, as committed
          tx                \* the request each session is running

Idle == [op |-> "idle"]

InitCases ==
  /\ caseRow \in [Cases -> InitialCases]
  /\ tx = [s \in Sessions |-> Idle]

(* The request goes on: after its reads, or for the first time.            *)
Continue(s, request) == tx' = [tx EXCEPT ![s] = request]

(* Every session runs one request, or none: all a service's invariant has  *)
(* to know of the sessions that serve other services.                      *)
SessionsRun == tx = [s \in Sessions |-> tx[s]]

(* COMMIT or ROLLBACK: the client goes back to the pool.                   *)
Release(s) == Continue(s, Idle)

(* UPDATE cases SET status = coalesce(...): the summary updates, which     *)
(* test nothing about the status they replace and leave the timestamps;    *)
(* the slip takes completed_at back.                                       *)
Uncomplete(c, status) ==
  caseRow' = [caseRow EXCEPT ![c] =
                [status |-> status, stamps |-> @.stamps \ {"completed"}]]
SetCaseStatus(c, status) == caseRow' = [caseRow EXCEPT ![c].status = status]

(* SQL's coalesce of a request's column with the stored one; a slip would  *)
(* store the NULL.                                                         *)
StoreNull(value, old) == value
Coalesce(value, old) == IF value = "null" THEN old ELSE value
-------------------------------------------------------------------------------
(* What the services see of each other's steps.  A step is on a request of *)
(* some operations, or on one of others ...                                *)
OneSession == \A s, t \in Sessions : s = t
Moves(s) == tx' = [tx EXCEPT ![s] = tx'[s]]
StepOf(s, ops) ==
  /\ Moves(s)
  /\ tx[s] = Idle \/ tx[s].op \in ops
  /\ tx'[s] = Idle \/ tx'[s].op \in ops
StepElsewhere(s, ops) == Moves(s) /\ tx[s].op \notin ops /\ tx'[s].op \notin ops

(* ... and writes some statuses to cases, with their timestamps.           *)
CasesMoved(statuses, stamps) ==
  /\ caseRow' \in [Cases -> CaseRows]
  /\ \A c \in Cases :
       /\ caseRow'[c].status \in {caseRow[c].status} \cup statuses
       /\ caseRow[c].stamps \subseteq caseRow'[c].stamps
       /\ caseRow'[c].stamps \subseteq caseRow[c].stamps \cup stamps
       /\ caseRow'[c].status \in CaseStamps =>
            caseRow'[c].status \in {caseRow[c].status} \cup caseRow'[c].stamps
===============================================================================
