-------------------------------- MODULE Workflow --------------------------------
(***************************************************************************)
(* WorkflowService: the human decisions on a case, from its submission to  *)
(* its acceptance, rejection or cancellation, and its close after billing. *)
(*                                                                         *)
(* A transition is checked against the status it read.  Its UPDATE writes  *)
(* the new status and the matching timestamp over whatever is there.       *)
(***************************************************************************)
EXTENDS Billing

WorkflowActions == {"submit", "review", "accept", "reject", "cancel", "close"}

ToStatus ==
  [action \in WorkflowActions |->
     CASE action = "submit" -> "submitted" [] action = "review" -> "reviewing"
       [] action = "accept" -> "accepted"  [] action = "reject" -> "rejected"
       [] action = "cancel" -> "cancelled" [] action = "close"  -> "closed"]

(* The slip decides on a case not reviewed yet, or accepted already.       *)
FromOpen(action) ==
  CASE action = "submit" -> {"draft", "pending_customer"}
    [] action = "review" -> {"submitted"}
    [] action \in {"accept", "reject", "cancel"} -> {"submitted", "reviewing", "accepted"}
    [] action = "close" -> {"completed"}
FromStatuses(action) ==
  CASE action = "submit" -> {"draft", "pending_customer"}
    [] action = "review" -> {"submitted"}
    [] action \in {"accept", "reject"} -> {"reviewing"}
    [] action = "cancel" -> {"submitted", "reviewing"}
    [] action = "close" -> {"completed"}

(* The stamps that must precede a status: every case was reviewed before   *)
(* it was accepted or rejected, submitted before it was reviewed or        *)
(* cancelled, and completed before it was closed.                          *)
Before ==
  [stamp \in CaseStamps |->
     CASE stamp = "submitted" -> {}
       [] stamp \in {"reviewing", "cancelled"} -> {"submitted"}
       [] stamp \in {"accepted", "rejected"} -> {"submitted", "reviewing"}
       [] stamp = "completed" -> {}
       [] stamp = "closed" -> {"completed"}]

(* What earlier requests left is such a history too.                       *)
ASSUME WorkflowAssumption ==
  \A row \in InitialCases :
    /\ row.status \in CaseStamps => row.status \in row.stamps
    /\ \A stamp \in row.stamps : Before[stamp] \subseteq row.stamps

BillingCloseReady == {"approved", "settled"}

WorkflowRequests ==
  [op : {"checkBilling", "checkSettlements", "transition"}, case : Cases,
   action : WorkflowActions]
-------------------------------------------------------------------------------
(* transitionCase and closeCase up to ensureAllowedTransition; a close     *)
(* goes on to validateCloseRequirements.  (Whether the fields a submission *)
(* requires are filled in is not modelled: it may always fail.)            *)
ReadForTransition(s, c, action) ==
  /\ tx[s] = Idle
  /\ caseRow[c].status \in FromStatuses(action)
  /\ action = "close" => "completed" \in caseRow[c].stamps
  /\ Continue(s, [op |-> IF action = "close" THEN "checkBilling" ELSE "transition",
                  case |-> c, action |-> action])
  /\ UNCHANGED <<caseRow, billingVars>>

(* The billing record, when there is one, must be approved or settled.     *)
(* The slip asks nothing of it.                                            *)
SkipBilling(s) ==
  /\ tx[s].op = "checkBilling"
  /\ Continue(s, [tx[s] EXCEPT !.op = "transition"])
  /\ UNCHANGED <<caseRow, billingVars>>
CheckBilling(s) ==
  LET row == billing[tx[s].case] IN
  /\ tx[s].op = "checkBilling"
  /\ \/ row = NoBilling /\ Continue(s, [tx[s] EXCEPT !.op = "transition"])
     \/ row.status \in BillingCloseReady /\ Continue(s, [tx[s] EXCEPT !.op = "checkSettlements"])
  /\ UNCHANGED <<caseRow, billingVars>>

(* hasOpenSettlementRecords                                                *)
OpenSettlements(c) ==
  {x \in Settlements : /\ settlement[x] # NoSettlement
                       /\ settlement[x].case = c
                       /\ settlement[x].status \in OpenSettlement}
CheckSettlements(s) ==
  /\ tx[s].op = "checkSettlements"
  /\ OpenSettlements(tx[s].case) = {}
  /\ Continue(s, [tx[s] EXCEPT !.op = "transition"])
  /\ UNCHANGED <<caseRow, billingVars>>

(* updateCaseStatus: status and timestamp, WHERE id only.  The slip writes *)
(* no timestamp.                                                           *)
CommitStatusOnly(s) ==
  /\ tx[s].op = "transition"
  /\ SetCaseStatus(tx[s].case, ToStatus[tx[s].action])
  /\ Release(s)
  /\ UNCHANGED billingVars
CommitTransition(s) ==
  LET to == ToStatus[tx[s].action] IN
  /\ tx[s].op = "transition"
  /\ caseRow' = [caseRow EXCEPT ![tx[s].case] =
                   [status |-> to, stamps |-> @.stamps \cup {to}]]
  /\ Release(s)
  /\ UNCHANGED billingVars

RollbackTransition(s) ==
  /\ tx[s].op \in {"checkBilling", "checkSettlements", "transition"}
  /\ Release(s)
  /\ UNCHANGED <<caseRow, billingVars>>

TransitionStep(s) ==
  \/ \E c \in Cases, action \in WorkflowActions : ReadForTransition(s, c, action)
  \/ CheckBilling(s)
  \/ CheckSettlements(s)
  \/ CommitTransition(s)
  \/ RollbackTransition(s)

WorkflowNext == \E s \in Sessions : TransitionStep(s) \/ BillingStep(s)
WorkflowSpec == BillingInit /\ [][WorkflowNext]_billingSpecVars
-------------------------------------------------------------------------------
WorkflowTypeOK ==
  /\ caseRow \in [Cases -> CaseRows]
  /\ tx \in [Sessions -> WorkflowRequests \cup BillingRequests \cup {Idle}]
  /\ billing \in [Cases -> BillingRows \cup {NoBilling}]
  /\ settlement \in [Settlements -> SettlementRows \cup {NoSettlement}]

(* However transitions race, the timestamps of a case tell a history the   *)
(* table of transitions allows: none is set without those before it.       *)
DecisionTrail ==
  \A c \in Cases : \A stamp \in caseRow[c].stamps : Before[stamp] \subseteq caseRow[c].stamps

(* What makes it inductive: a status that has a timestamp column has it    *)
(* set; a checked transition found the stamps its own one needs, and a     *)
(* checked billing creation found the case completed, so that a case that  *)
(* is billed was; and what a billing request or a settlement refers to     *)
(* exists.                                                                 *)
BilledWasCompleted ==
  \A c \in Cases : billing[c] # NoBilling => "completed" \in caseRow[c].stamps
StatusStamped ==
  \A c \in Cases : caseRow[c].status \in CaseStamps => caseRow[c].status \in caseRow[c].stamps
TransitionsBacked ==
  \A s \in Sessions : tx[s].op \in {"checkBilling", "checkSettlements", "transition"} =>
    Before[ToStatus[tx[s].action]] \subseteq caseRow[tx[s].case].stamps
CreationBacked(s) ==
  tx[s].op = "createBilling" => "completed" \in caseRow[tx[s].case].stamps
UpdateBacked(s) ==
  /\ tx[s].op \in {"updateBilling", "createSettlement"} => billing[tx[s].case] # NoBilling
  /\ tx[s].op = "updateSettlement" => settlement[tx[s].id] # NoSettlement
SettlementBacked(x) ==
  settlement[x] # NoSettlement => billing[settlement[x].case] # NoBilling
BillingBacked ==
  /\ \A s \in Sessions : CreationBacked(s) /\ UpdateBacked(s)
  /\ \A x \in Settlements : SettlementBacked(x)

(* The types again, whatever requests other services are running.          *)
OfficeOps ==
  {"checkBilling", "checkSettlements", "transition",
   "createBilling", "updateBilling", "createSettlement", "updateSettlement"}
WorkflowShapes ==
  /\ caseRow \in [Cases -> CaseRows]
  /\ SessionsRun
  /\ \A s \in Sessions : tx[s].op \in OfficeOps => tx[s] \in WorkflowRequests \cup BillingRequests
  /\ billing \in [Cases -> BillingRows \cup {NoBilling}]
  /\ settlement \in [Settlements -> SettlementRows \cup {NoSettlement}]

WorkflowInv ==
  /\ WorkflowShapes
  /\ DecisionTrail
  /\ BilledWasCompleted
  /\ StatusStamped
  /\ TransitionsBacked
  /\ BillingBacked

(* docs/task-004: a case is accepted only if rejection or cancellation is  *)
(* not already applied, and cancelled only if it is not already accepted.  *)
(* True of one session.                                                    *)
OneDecision ==
  \A c \in Cases : Cardinality(caseRow[c].stamps \cap {"accepted", "rejected", "cancelled"}) <= 1

(* README, close rules: a case is closed with its billing record, if any,  *)
(* approved or settled and none of its settlements pending or submitted.   *)
(* True of one session.                                                    *)
ClosesClean ==
  [][\A c \in Cases : caseRow[c].status # "closed" /\ caseRow'[c].status = "closed" =>
       /\ billing[c] = NoBilling \/ billing[c].status \in BillingCloseReady
       /\ OpenSettlements(c) = {}]_billingSpecVars

(* What makes these inductive with one session: a case that awaits its     *)
(* decision has none, a request finds the status its transition was        *)
(* checked against, and a close what it required of billing.               *)
Undecided == {"draft", "pending_customer", "submitted", "reviewing"}
Decisions == {"accepted", "rejected", "cancelled"}
DecidedOnce(row) ==
  /\ \A d, e \in row.stamps \cap Decisions : d = e
  /\ row.status \in Undecided => row.stamps \cap Decisions = {}
CasesDecidedOnce == \A c \in Cases : DecidedOnce(caseRow[c])

ReadyToClose(c) ==
  /\ billing[c] = NoBilling \/ billing[c].status \in BillingCloseReady
  /\ OpenSettlements(c) = {}
TransitionsSerial ==
  \A s \in Sessions :
    /\ tx[s].op \in {"checkBilling", "checkSettlements", "transition"} =>
         caseRow[tx[s].case].status \in FromStatuses(tx[s].action)
    /\ tx[s].op = "checkSettlements" => billing[tx[s].case].status \in BillingCloseReady
    /\ tx[s].op = "transition" /\ tx[s].action = "close" => ReadyToClose(tx[s].case)
===============================================================================
