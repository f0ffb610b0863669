------------------------------ MODULE ServiceParts ------------------------------
(***************************************************************************)
(* The parts listed under a service report, in FieldServiceReportService:  *)
(* added, changed and removed after a read of the report that must not be  *)
(* completed.  Nothing holds the report meanwhile, except that the INSERT  *)
(* of a part takes the foreign key's share lock on the report's row and so *)
(* waits for a completion that holds it.                                   *)
(***************************************************************************)
EXTENDS ServiceReports

CONSTANTS Parts,            \* ids of table service_parts, used or not
          PartInputs        \* partStatus of the POST and PATCH bodies

VARIABLE part               \* the committed row of each part id

PartStatuses == {"planned", "used", "replaced", "returned", "cancelled"}

ASSUME ServicePartsAssumption == PartInputs \subseteq PartStatuses \cup {"null"}

PartRows == [case : Cases, status : PartStatuses, deleted : BOOLEAN]
NoPart == [status |-> "absent"]

partVars == <<caseRow, tx, appt, reportVars, part>>

(* WHERE id AND deleted_at IS NULL; the slip forgets deleted_at.           *)
Stored(p) == part[p] # NoPart
Listed(p) == part[p] # NoPart /\ ~part[p].deleted

(* ensureReportMutable; a slip would not ask.                              *)
AnyReport(c) == report[c] # NoReport
Mutable(c) == report[c] # NoReport /\ report[c].status # "completed"

PartOps == {"createPart", "updatePart", "deletePart"}
PartRequests ==
  [op : {"createPart"}, case : Cases, status : PartStatuses \cup {"null"}]
  \cup [op : {"updatePart", "deletePart"}, id : Parts, status : PartStatuses \cup {"null"}]
-------------------------------------------------------------------------------
PartsInit == part = [p \in Parts |-> NoPart]

(* createServicePart: the read of the report, and the INSERT.              *)
ReadReportForPart(s, c, status) ==
  /\ tx[s] = Idle
  /\ Mutable(c)
  /\ Continue(s, [op |-> "createPart", case |-> c, status |-> status])
  /\ UNCHANGED <<caseRow, appt, reportVars, part>>
CommitCreatePart(s) ==
  /\ tx[s].op = "createPart"
  /\ LockFree(s)
  /\ \E p \in Parts :
       /\ ~Stored(p)
       /\ part' = [part EXCEPT ![p] =
            [case |-> tx[s].case, status |-> Coalesce(tx[s].status, "planned"), deleted |-> FALSE]]
  /\ Release(s)
  /\ UNCHANGED <<caseRow, appt, reportVars>>

(* updateServicePart and softDeleteServicePart: the reads of the part and  *)
(* its report ...                                                          *)
ReadPart(s, p, op, status) ==
  /\ tx[s] = Idle
  /\ Listed(p)
  /\ Mutable(part[p].case)
  /\ Continue(s, [op |-> op, id |-> p, status |-> status])
  /\ UNCHANGED <<caseRow, appt, reportVars, part>>

(* ... and the UPDATE.  It finds no row when the part has been removed     *)
(* since, and the handler throws on the missing result.                    *)
CommitUpdatePart(s) ==
  LET p == tx[s].id IN
  /\ tx[s].op = "updatePart"
  /\ Listed(p)
  /\ part' = [part EXCEPT ![p].status = Coalesce(tx[s].status, @)]
  /\ Release(s)
  /\ UNCHANGED <<caseRow, appt, reportVars>>
CommitDeletePart(s) ==
  LET p == tx[s].id IN
  /\ tx[s].op = "deletePart"
  /\ Listed(p)
  /\ part' = [part EXCEPT ![p].deleted = TRUE]
  /\ Release(s)
  /\ UNCHANGED <<caseRow, appt, reportVars>>

RollbackPart(s) ==
  /\ tx[s].op \in PartOps
  /\ Release(s)
  /\ UNCHANGED <<caseRow, appt, reportVars, part>>

PartStep(s) ==
  \/ \E c \in Cases, status \in PartInputs : ReadReportForPart(s, c, status)
  \/ CommitCreatePart(s)
  \/ \E p \in Parts, status \in PartInputs : ReadPart(s, p, "updatePart", status)
  \/ CommitUpdatePart(s)
  \/ \E p \in Parts : ReadPart(s, p, "deletePart", "null")
  \/ CommitDeletePart(s)
  \/ RollbackPart(s)
-------------------------------------------------------------------------------
(* docs/task-351: the parts of a completed report are not added, changed   *)
(* or removed.  True of one session.                                       *)
PartsFrozen ==
  [][\A p \in Parts : part'[p] # part[p] => report[part'[p].case].status # "completed"]_partVars

(* A part that was removed is never changed or back, whatever updates of   *)
(* it had read it before.                                                  *)
RemovedStays == [][\A p \in Parts : Stored(p) /\ part[p].deleted => part'[p] = part[p]]_partVars

(* What the proofs need: parts and the requests about them are well        *)
(* formed, whatever requests other services are running ...                *)
PartsInv ==
  /\ part \in [Parts -> PartRows \cup {NoPart}]
  /\ \A s \in Sessions : tx[s].op \in PartOps => tx[s] \in PartRequests

(* ... and with one session the report a request found mutable is so still. *)
PartsSerial ==
  \A s \in Sessions :
    /\ tx[s].op = "createPart" => Mutable(tx[s].case)
    /\ tx[s].op \in {"updatePart", "deletePart"} =>
         Stored(tx[s].id) /\ Mutable(part[tx[s].id].case)
===============================================================================
