------------------------------ MODULE RepairIntake ------------------------------
(***************************************************************************)
(* submitDraftToCase of the repair intake, as the server wires it: the     *)
(* ports write through the pool, so every statement commits on its own.    *)
(* A submission looks its idempotency key up, reads the draft, creates the *)
(* case, records the conversion, marks the draft as converted, writes the  *)
(* audit event and at last records the key; it may fail, or the process    *)
(* may crash, between any two of them, and what it wrote stays.            *)
(*                                                                         *)
(* A submission may name a tenant: the user's, the context's or the        *)
(* body's.  The draft's own does not take its place, so a submission that  *)
(* names none writes NULL, and its UPDATE compares with NULL.              *)
(***************************************************************************)
EXTENDS Naturals, FiniteSets

CONSTANTS Requests,         \* the HTTP requests the process can be handling
          Drafts,           \* ids of repair_intake_drafts of an organization
          Tenants,          \* the tenants of the organization
          DraftTenant,      \* the tenant of each draft's row, if it has one
          Keys,             \* idempotency keys
          CaseIds           \* ids the generator can give to cases

None == "none"
ASSUME IntakeAssumption ==
  /\ IsFiniteSet(Requests) /\ IsFiniteSet(CaseIds)
  /\ DraftTenant \in [Drafts -> Tenants \cup {None}]
  /\ None \notin Drafts \cup CaseIds \cup Tenants

VARIABLES caseOf,           \* the draft each case was created from
          namedFor,         \* the tenant named by the submission that created it
          conversions,      \* the cases with a row in .._case_conversions
          converted,        \* the drafts with status converted
          audited,          \* the cases with an audit event
          records,          \* the idempotency record of each key and tenant named
          answers,          \* the cases told of, per key, draft and tenant named
          tx                \* the submission each request is running

intakeVars == <<caseOf, namedFor, conversions, converted, audited, records, answers, tx>>

Idle == [at |-> "idle"]
NoRecord == [draft |-> None]
Stages == {"lookup", "read", "create", "conversion", "mark", "audit", "record"}
Named == Tenants \cup {None}
Submissions ==
  [at : Stages, key : Keys, draft : Drafts, tenant : Named, case : CaseIds \cup {None}]

(* The unique index of the records: the key and the tenant, not the draft. *)
Scopes == Keys \X Named
Scope(r) == <<tx[r].key, tx[r].tenant>>

(* tenant_id = $n, which NULL never satisfies, and the same clause when it *)
(* is left out because no tenant is named.                                 *)
SameTenant(t, u) == t # None /\ t = u
Matches(t, u) == t = None \/ SameTenant(t, u)

IntakeInit ==
  /\ caseOf = [c \in CaseIds |-> None] /\ namedFor = [c \in CaseIds |-> None]
  /\ conversions = {} /\ converted = {} /\ audited = {}
  /\ records = [x \in Scopes |-> NoRecord]
  /\ answers = [x \in Keys \X Drafts \X Named |-> {}]
  /\ tx = [r \in Requests |-> Idle]

Rows == <<caseOf, namedFor, conversions, converted, audited, records>>
At(r, stage) == tx[r].at = stage
Go(r, stage) == tx' = [tx EXCEPT ![r].at = stage]
Done(r) == tx' = [tx EXCEPT ![r] = Idle]
Answer(r, c) ==
  /\ answers' = [answers EXCEPT ![<<tx[r].key, tx[r].draft, tx[r].tenant>>] = @ \cup {c}]
  /\ Done(r)

(* The preconditions of a submission: a key, the permission, an approval.  *)
Submit(r, k, d, t) ==
  /\ tx[r] = Idle
  /\ tx' = [tx EXCEPT ![r] =
              [at |-> "lookup", key |-> k, draft |-> d, tenant |-> t, case |-> None]]
  /\ UNCHANGED <<Rows, answers>>

(* A record of the key and the draft, of the tenant named or, if none is,  *)
(* of any (LIMIT 1 takes one).  A lookup that fails is answered like one   *)
(* that finds nothing.                                                     *)
Found(r, t) == Matches(tx[r].tenant, t) /\ records[<<tx[r].key, t>>].draft = tx[r].draft
LookUp(r) ==
  /\ At(r, "lookup")
  /\ \/ \E t \in Named : Found(r, t) /\ Answer(r, records[<<tx[r].key, t>>].case)
     \/ (\A t \in Named : ~Found(r, t)) /\ Go(r, "read") /\ UNCHANGED answers
  /\ UNCHANGED Rows
LookUpFails(r) ==
  /\ At(r, "lookup")
  /\ Go(r, "read")
  /\ UNCHANGED <<Rows, answers>>

(* getDraftForConversion: there is a draft of the tenant named, if one is, *)
(* and it is not converted.  A slip would look at neither.                 *)
ReadAnyDraft(r) ==
  /\ At(r, "read")
  /\ Go(r, "create")
  /\ UNCHANGED <<Rows, answers>>
Convertible(r) ==
  Matches(tx[r].tenant, DraftTenant[tx[r].draft]) /\ tx[r].draft \notin converted
ReadDraft(r) ==
  /\ At(r, "read")
  /\ \/ ~Convertible(r) /\ Done(r)
     \/ Convertible(r) /\ Go(r, "create")
  /\ UNCHANGED <<Rows, answers>>

CreateCase(r) ==
  /\ At(r, "create")
  /\ \E c \in CaseIds :
       /\ caseOf[c] = None
       /\ caseOf' = [caseOf EXCEPT ![c] = tx[r].draft]
       /\ namedFor' = [namedFor EXCEPT ![c] = tx[r].tenant]
       /\ tx' = [tx EXCEPT ![r].at = "conversion", ![r].case = c]
  /\ UNCHANGED <<conversions, converted, audited, records, answers>>

(* recordConversion: the INSERT, and an UPDATE that matches no row unless  *)
(* the draft's tenant is named.                                            *)
RecordConversion(r) ==
  /\ At(r, "conversion")
  /\ conversions' = conversions \cup {tx[r].case}
  /\ Go(r, "mark")
  /\ UNCHANGED <<caseOf, namedFor, converted, audited, records, answers>>

MarkConverted(r) ==
  /\ At(r, "mark")
  /\ converted' = converted \cup {d \in {tx[r].draft} : SameTenant(tx[r].tenant, DraftTenant[d])}
  /\ Go(r, "audit")
  /\ UNCHANGED <<caseOf, namedFor, conversions, audited, records, answers>>

(* A slip would go on although the audit event was not written.            *)
WriteAuditOrNot(r) ==
  /\ At(r, "audit")
  /\ audited' \in {audited, audited \cup {tx[r].case}}
  /\ Go(r, "record")
  /\ UNCHANGED <<caseOf, namedFor, conversions, converted, records, answers>>
WriteAudit(r) ==
  /\ At(r, "audit")
  /\ audited' = audited \cup {tx[r].case}
  /\ Go(r, "record")
  /\ UNCHANGED <<caseOf, namedFor, conversions, converted, records, answers>>

(* ON CONFLICT DO NOTHING: if the key has a record, of this draft or of    *)
(* another one, nothing is returned, and the submission answers with a     *)
(* failure although its case exists.  A slip would answer with success.    *)
ResultRecord(r) == [draft |-> tx[r].draft, case |-> tx[r].case]
RecordIgnoringConflict(r) ==
  /\ At(r, "record")
  /\ records' = [records EXCEPT ![Scope(r)] = IF @ = NoRecord THEN ResultRecord(r) ELSE @]
  /\ Answer(r, tx[r].case)
  /\ UNCHANGED <<caseOf, namedFor, conversions, converted, audited>>
RecordResult(r) ==
  /\ At(r, "record")
  /\ \/ /\ records[Scope(r)] = NoRecord
        /\ records' = [records EXCEPT ![Scope(r)] = ResultRecord(r)]
        /\ Answer(r, tx[r].case)
     \/ /\ records[Scope(r)] # NoRecord
        /\ Done(r)
        /\ UNCHANGED <<records, answers>>
  /\ UNCHANGED <<caseOf, namedFor, conversions, converted, audited>>

(* A statement fails, or the process crashes: what was written stays.      *)
Abandon(r) ==
  /\ tx[r] # Idle
  /\ Done(r)
  /\ UNCHANGED <<Rows, answers>>

SubmissionStep(r) ==
  \/ LookUp(r) \/ ReadDraft(r) \/ CreateCase(r) \/ RecordConversion(r) \/ MarkConverted(r)
  \/ WriteAudit(r) \/ RecordResult(r)
IntakeSteady ==
  \E r \in Requests :
    SubmissionStep(r) \/ \E k \in Keys, d \in Drafts, t \in Named : Submit(r, k, d, t)
IntakeNext == IntakeSteady \/ \E r \in Requests : Abandon(r) \/ LookUpFails(r)

IntakeSpec == IntakeInit /\ [][IntakeNext]_intakeVars
-------------------------------------------------------------------------------
IntakeTypeOK ==
  /\ caseOf \in [CaseIds -> Drafts \cup {None}]
  /\ namedFor \in [CaseIds -> Named]
  /\ conversions \subseteq CaseIds /\ audited \subseteq CaseIds
  /\ converted \subseteq Drafts
  /\ records \in [Scopes -> [draft : Drafts, case : CaseIds] \cup {NoRecord}]
  /\ answers \in [Keys \X Drafts \X Named -> SUBSET CaseIds]
  /\ tx \in [Requests -> Submissions \cup {Idle}]

(* Whoever submits a draft under one key and names a tenant is told of one *)
(* case, whatever overlaps, fails and is submitted again.  Submissions     *)
(* that name the draft's tenant and ones that name none do not see each    *)
(* other's record, so all of them are told of two cases at most: of one    *)
(* only if the draft has no tenant.                                        *)
Told(k, d) == UNION {answers[<<k, d, t>>] : t \in Named}
OneAnswerPerKey ==
  \A k \in Keys, d \in Drafts :
    /\ \A t \in Tenants : Cardinality(answers[<<k, d, t>>]) <= 1
    /\ Cardinality(Told(k, d)) <= Cardinality({None, DraftTenant[d]})

(* A case a client was told of is one of the draft, with its conversion    *)
(* and its audit event; the draft is converted if the submission that      *)
(* created the case named its tenant.                                      *)
AnsweredComplete ==
  \A k \in Keys, d \in Drafts, t \in Named : \A c \in answers[<<k, d, t>>] :
    /\ caseOf[c] = d /\ c \in conversions /\ c \in audited
    /\ namedFor[c] # None => d \in converted

(* Submissions that name the draft's tenant convert it no more often than  *)
(* requests can overlap, however often it is submitted, with or without    *)
(* the tenant, and under however many keys: once, if they do not.          *)
Converted(d) == {c \in audited : caseOf[c] = d /\ namedFor[c] # None}
ConversionsBounded ==
  \A d \in Drafts : Cardinality(Converted(d)) <= Cardinality(Requests)
-------------------------------------------------------------------------------
(* The invariant of the proofs: what a submission has written so far, what *)
(* a record stands for, and that an answer is what a record says; at most  *)
(* the requests that were past the test of the draft when it was converted *)
(* convert it again.                                                       *)
Scoped(d) == {None, DraftTenant[d]}
SubmissionBacked ==
  \A r \in Requests :
    /\ tx[r].at \in {"create", "conversion", "mark", "audit", "record"} =>
         tx[r].tenant \in Scoped(tx[r].draft)
    /\ tx[r].at \in {"conversion", "mark", "audit", "record"} =>
         /\ tx[r].case # None /\ caseOf[tx[r].case] = tx[r].draft
         /\ namedFor[tx[r].case] = tx[r].tenant
    /\ tx[r].at \in {"mark", "audit", "record"} => tx[r].case \in conversions
    /\ tx[r].at \in {"audit", "record"} /\ tx[r].tenant # None => tx[r].draft \in converted
    /\ tx[r].at = "record" => tx[r].case \in audited
Complete(d, c) ==
  /\ caseOf[c] = d /\ c \in conversions /\ c \in audited
  /\ namedFor[c] # None => d \in converted
RecordsComplete ==
  \A k \in Keys, t \in Named : records[<<k, t>>] # NoRecord =>
    /\ t \in Scoped(records[<<k, t>>].draft)
    /\ Complete(records[<<k, t>>].draft, records[<<k, t>>].case)
AnswersRecorded ==
  \A k \in Keys, d \in Drafts, t \in Named : \A c \in answers[<<k, d, t>>] :
    \E u \in Scoped(d) :
      (t # None => u = t) /\ records[<<k, u>>] = [draft |-> d, case |-> c]
AuditedLast ==
  \A c \in audited : caseOf[c] # None /\ (namedFor[c] # None => caseOf[c] \in converted)
Converting(d) ==
  {r \in Requests : /\ tx[r].at \in {"create", "conversion", "mark", "audit"}
                    /\ tx[r].draft = d /\ tx[r].tenant # None}
ConversionsCounted ==
  \A d \in Drafts :
    Cardinality(Converted(d)) + Cardinality(Converting(d)) <= Cardinality(Requests)

IntakeInv ==
  /\ IntakeTypeOK /\ SubmissionBacked /\ RecordsComplete /\ AnswersRecorded /\ AuditedLast
  /\ ConversionsCounted
===============================================================================
