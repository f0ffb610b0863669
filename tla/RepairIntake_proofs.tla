-------------------------- MODULE RepairIntake_proofs --------------------------
(***************************************************************************)
(* Theorems of RepairIntake, for any number of requests, drafts, keys and  *)
(* cases, with failures and crashes anywhere.                              *)
(***************************************************************************)
EXTENDS RepairIntake, FiniteSetTheorems, TLAPS

LEMMA ScopeType ==
  ASSUME NEW k \in Keys, NEW t \in Named
  PROVE  <<k, t>> \in Scopes
BY DEF Scopes

LEMMA ScopedType ==
  ASSUME NEW d \in Drafts
  PROVE  Scoped(d) \subseteq Named /\ None \in Named
BY IntakeAssumption DEF Scoped, Named

(* A submission that names a tenant and has found the draft names its      *)
(* tenant.                                                                 *)
LEMMA FoundDraftScoped ==
  ASSUME NEW t, NEW d, Matches(t, DraftTenant[d])
  PROVE  t \in Scoped(d)
BY DEF Matches, SameTenant, Scoped

(* What a submission is, and what moving it on leaves of it.               *)
LEMMA SubmissionShape ==
  ASSUME IntakeTypeOK, NEW r \in Requests, tx[r].at # "idle"
  PROVE  /\ tx[r] # Idle /\ tx[r] \in Submissions /\ tx[r].draft # None
         /\ tx[r].key \in Keys /\ tx[r].draft \in Drafts /\ tx[r].case \in CaseIds \cup {None}
         /\ tx[r].tenant \in Named /\ Scope(r) \in Scopes
<1>1. tx[r] # Idle /\ tx[r] \in Submissions
  BY DEF IntakeTypeOK, Idle
<1>2. /\ tx[r].key \in Keys /\ tx[r].draft \in Drafts /\ tx[r].case \in CaseIds \cup {None}
      /\ tx[r].tenant \in Named
  BY <1>1 DEF Submissions
<1> QED BY <1>1, <1>2, ScopeType, IntakeAssumption DEF Scope

LEMMA NotIdle ==
  ASSUME IntakeTypeOK, NEW r \in Requests, tx[r] # Idle
  PROVE  tx[r] \in Submissions /\ tx[r].at # "idle"
BY DEF IntakeTypeOK, Submissions, Idle, Stages

LEMMA GoShape ==
  ASSUME IntakeTypeOK, NEW r \in Requests, tx[r].at # "idle", NEW stage \in Stages, Go(r, stage)
  PROVE  /\ tx' \in [Requests -> Submissions \cup {Idle}]
         /\ tx'[r].at = stage /\ tx'[r].key = tx[r].key /\ tx'[r].draft = tx[r].draft
         /\ tx'[r].case = tx[r].case /\ tx'[r].tenant = tx[r].tenant
         /\ \A o \in Requests \ {r} : tx'[o] = tx[o]
<1>1. tx[r] \in Submissions /\ tx' = [tx EXCEPT ![r].at = stage]
  BY SubmissionShape DEF Go
<1>2. tx'[r] = [tx[r] EXCEPT !.at = stage] /\ \A o \in Requests \ {r} : tx'[o] = tx[o]
  BY <1>1 DEF IntakeTypeOK
<1>3. tx'[r] \in Submissions
  BY <1>1, <1>2 DEF Submissions
<1>4. /\ tx'[r].at = stage /\ tx'[r].key = tx[r].key /\ tx'[r].draft = tx[r].draft
      /\ tx'[r].case = tx[r].case /\ tx'[r].tenant = tx[r].tenant
  BY <1>1, <1>2 DEF Submissions
<1> QED BY <1>1, <1>2, <1>3, <1>4 DEF IntakeTypeOK

LEMMA DoneShape ==
  ASSUME IntakeTypeOK, NEW r \in Requests, Done(r)
  PROVE  /\ tx' \in [Requests -> Submissions \cup {Idle}]
         /\ tx'[r].at = "idle"
         /\ \A o \in Requests \ {r} : tx'[o] = tx[o]
BY DEF IntakeTypeOK, Done, Idle

(* A record is never overwritten, so every answer under a key and a tenant *)
(* names the same case, and all under the key those of the two scopes in   *)
(* which the draft can be found.                                           *)
LEMMA OneRecordOneAnswer ==
  ASSUME IntakeInv
  PROVE  OneAnswerPerKey
<1> SUFFICES ASSUME NEW k \in Keys, NEW d \in Drafts
             PROVE  /\ \A t \in Tenants : Cardinality(answers[<<k, d, t>>]) <= 1
                    /\ Cardinality(Told(k, d)) <= Cardinality(Scoped(d))
  BY DEF OneAnswerPerKey, Scoped
<1>1. ASSUME NEW t \in Tenants
      PROVE  Cardinality(answers[<<k, d, t>>]) <= 1
  <2> DEFINE S == answers[<<k, d, t>>]  c == records[<<k, t>>].case
  <2>1. S \subseteq {c}
    <3> SUFFICES ASSUME NEW e \in answers[<<k, d, t>>] PROVE e = c
      OBVIOUS
    <3>1. t \in Named /\ t # None
      BY IntakeAssumption DEF Named
    <3>2. PICK u \in Scoped(d) :
            (t # None => u = t) /\ records[<<k, u>>] = [draft |-> d, case |-> e]
      BY <3>1 DEF IntakeInv, AnswersRecorded
    <3>3. records[<<k, t>>] = [draft |-> d, case |-> e]
      BY <3>1, <3>2
    <3> QED BY <3>3
  <2>2. IsFiniteSet({c}) /\ Cardinality({c}) = 1
    BY FS_Singleton
  <2>3. Cardinality(S) <= Cardinality({c})
    BY <2>1, <2>2, FS_Subset
  <2> QED BY <2>2, <2>3
<1>2. IsFiniteSet(Scoped(d))
  <2>1. IsFiniteSet({DraftTenant[d]})
    BY FS_Singleton
  <2>2. IsFiniteSet({DraftTenant[d]} \cup {None})
    BY <2>1, FS_AddElement
  <2>3. Scoped(d) = {DraftTenant[d]} \cup {None}
    BY DEF Scoped
  <2> QED BY <2>2, <2>3
<1> DEFINE I == {records[<<k, u>>].case : u \in Scoped(d)}
<1>3. IsFiniteSet(I) /\ Cardinality(I) <= Cardinality(Scoped(d))
  <2>1. PICK f : f = [u \in Scoped(d) |-> records[<<k, u>>].case]
    OBVIOUS
  <2>2. f \in Surjection(Scoped(d), I)
    BY <2>1 DEF Surjection
  <2> QED BY <1>2, <2>2, FS_Surjection
<1>4. Told(k, d) \subseteq I
  <2> SUFFICES ASSUME NEW t \in Named, NEW e \in answers[<<k, d, t>>] PROVE e \in I
    BY DEF Told
  <2>1. PICK u \in Scoped(d) : records[<<k, u>>] = [draft |-> d, case |-> e]
    BY DEF IntakeInv, AnswersRecorded
  <2>2. records[<<k, u>>].case = e
    BY <2>1
  <2> QED BY <2>2
<1>5. IsFiniteSet(Told(k, d)) /\ Cardinality(Told(k, d)) <= Cardinality(I)
  BY <1>3, <1>4, FS_Subset
<1>6. /\ Cardinality(Told(k, d)) \in Nat /\ Cardinality(I) \in Nat
      /\ Cardinality(Scoped(d)) \in Nat
  BY <1>2, <1>3, <1>5, FS_CardinalityType
<1>7. Cardinality(Told(k, d)) <= Cardinality(Scoped(d))
  BY <1>3, <1>5, <1>6
<1> QED BY <1>1, <1>7

LEMMA AnswersAreComplete ==
  ASSUME IntakeInv
  PROVE  AnsweredComplete
<1> SUFFICES ASSUME NEW k \in Keys, NEW d \in Drafts, NEW t \in Named,
                    NEW c \in answers[<<k, d, t>>]
             PROVE  Complete(d, c)
  BY DEF AnsweredComplete, Complete
<1>1. PICK u \in Scoped(d) : records[<<k, u>>] = [draft |-> d, case |-> c]
  BY DEF IntakeInv, AnswersRecorded
<1>2. u \in Named
  BY ScopedType
<1>3. /\ records[<<k, u>>] # NoRecord
      /\ records[<<k, u>>].draft = d /\ records[<<k, u>>].case = c
  BY <1>1, IntakeAssumption DEF NoRecord
<1> QED BY <1>2, <1>3 DEF IntakeInv, RecordsComplete

LEMMA CountedIsBounded ==
  ASSUME IntakeInv
  PROVE  ConversionsBounded
<1> SUFFICES ASSUME NEW d \in Drafts
             PROVE  Cardinality(Converted(d)) <= Cardinality(Requests)
  BY DEF ConversionsBounded
<1>1. IsFiniteSet(Converted(d)) /\ IsFiniteSet(Converting(d))
  BY IntakeAssumption, FS_Subset DEF IntakeInv, IntakeTypeOK, Converted, Converting
<1>2. /\ Cardinality(Converted(d)) \in Nat /\ Cardinality(Converting(d)) \in Nat
      /\ Cardinality(Requests) \in Nat
  BY <1>1, IntakeAssumption, FS_CardinalityType
<1> QED BY <1>2 DEF IntakeInv, ConversionsCounted
-------------------------------------------------------------------------------
(* What the tables and one submission must look like after a step for the  *)
(* invariant to be kept: nothing is taken back, and what is new is backed. *)
Monotone ==
  /\ \A c \in CaseIds : caseOf[c] # None =>
       caseOf'[c] = caseOf[c] /\ namedFor'[c] = namedFor[c]
  /\ conversions \subseteq conversions' /\ converted \subseteq converted'
  /\ audited \subseteq audited'
  /\ \A x \in Scopes : records[x] # NoRecord => records'[x] = records[x]

Backed(r) ==
  /\ tx[r].at \in {"create", "conversion", "mark", "audit", "record"} =>
       tx[r].tenant \in Scoped(tx[r].draft)
  /\ tx[r].at \in {"conversion", "mark", "audit", "record"} =>
       /\ tx[r].case # None /\ caseOf[tx[r].case] = tx[r].draft
       /\ namedFor[tx[r].case] = tx[r].tenant
  /\ tx[r].at \in {"mark", "audit", "record"} => tx[r].case \in conversions
  /\ tx[r].at \in {"audit", "record"} /\ tx[r].tenant # None => tx[r].draft \in converted
  /\ tx[r].at = "record" => tx[r].case \in audited

LEMMA StaysComplete ==
  ASSUME Monotone, NEW c \in CaseIds, NEW d, d # None, Complete(d, c)
  PROVE  Complete(d, c)'
BY DEF Monotone, Complete

LEMMA OthersBacked ==
  ASSUME IntakeInv, Monotone, NEW o \in Requests, tx'[o] = tx[o]
  PROVE  Backed(o)'
<1>1. CASE tx[o].at = "idle"
  BY <1>1 DEF Backed
<1>2. CASE tx[o].at # "idle"
  <2>1. tx[o].case \in CaseIds \cup {None} /\ tx[o].draft # None
    BY <1>2, SubmissionShape DEF IntakeInv
  <2> QED BY <2>1 DEF IntakeInv, SubmissionBacked, Backed, Monotone
<1> QED BY <1>1, <1>2

LEMMA MonotoneKeepsRecords ==
  ASSUME IntakeInv, Monotone,
         \A k \in Keys, t \in Named : records'[<<k, t>>] # records[<<k, t>>] =>
           /\ t \in Scoped(records'[<<k, t>>].draft)
           /\ Complete(records[<<k, t>>].draft, records[<<k, t>>].case)'
  PROVE  RecordsComplete'
<1> SUFFICES ASSUME NEW k \in Keys, NEW t \in Named, records'[<<k, t>>] # NoRecord
             PROVE  /\ t \in Scoped(records'[<<k, t>>].draft)
                    /\ Complete(records[<<k, t>>].draft, records[<<k, t>>].case)'
  BY DEF RecordsComplete, Scoped
<1>1. CASE records'[<<k, t>>] # records[<<k, t>>]
  BY <1>1
<1>2. CASE records'[<<k, t>>] = records[<<k, t>>]
  <2>1. PICK d, c : d = records[<<k, t>>].draft /\ c = records[<<k, t>>].case
    OBVIOUS
  <2>2. c \in CaseIds /\ d # None
    <3>1. <<k, t>> \in Scopes
      BY ScopeType
    <3> QED BY <1>2, <2>1, <3>1, IntakeAssumption DEF IntakeInv, IntakeTypeOK
  <2>3. t \in Scoped(d) /\ Complete(d, c)
    BY <1>2, <2>1 DEF IntakeInv, RecordsComplete
  <2>4. Complete(d, c)'
    BY <2>2, <2>3, StaysComplete
  <2> QED BY <1>2, <2>1, <2>3, <2>4 DEF Complete
<1> QED BY <1>1, <1>2

LEMMA MonotoneKeepsAnswers ==
  ASSUME IntakeInv, Monotone,
         \A k \in Keys, d \in Drafts, t \in Named : \A c \in answers'[<<k, d, t>>] :
           \/ c \in answers[<<k, d, t>>]
           \/ \E u \in Scoped(d) :
                (t # None => u = t) /\ records'[<<k, u>>] = [draft |-> d, case |-> c]
  PROVE  AnswersRecorded'
<1> SUFFICES ASSUME NEW k \in Keys, NEW d \in Drafts, NEW t \in Named,
                    NEW c \in answers'[<<k, d, t>>]
             PROVE  \E u \in Scoped(d) :
                      (t # None => u = t) /\ records'[<<k, u>>] = [draft |-> d, case |-> c]
  BY DEF AnswersRecorded, Scoped
<1>1. CASE c \in answers[<<k, d, t>>]
  <2>1. PICK u \in Scoped(d) :
          (t # None => u = t) /\ records[<<k, u>>] = [draft |-> d, case |-> c]
    BY <1>1 DEF IntakeInv, AnswersRecorded
  <2>2. <<k, u>> \in Scopes
    BY ScopedType, ScopeType
  <2>3. records[<<k, u>>] # NoRecord
    <3>1. records[<<k, u>>].draft # NoRecord.draft
      BY <2>1, IntakeAssumption DEF NoRecord
    <3> QED BY <3>1
  <2>4. records'[<<k, u>>] = records[<<k, u>>]
    BY <2>2, <2>3 DEF Monotone
  <2> QED BY <2>1, <2>4
<1>2. CASE c \notin answers[<<k, d, t>>]
  BY <1>2
<1> QED BY <1>1, <1>2

LEMMA MonotoneKeepsAudits ==
  ASSUME IntakeInv, Monotone,
         \A c \in audited' : c \notin audited =>
           /\ caseOf'[c] # None
           /\ namedFor'[c] # None => caseOf'[c] \in converted'
  PROVE  AuditedLast'
BY DEF IntakeInv, IntakeTypeOK, AuditedLast, Monotone

(* The count of conversions, done and under way, of one draft.             *)
LEMMA FewerCounted ==
  ASSUME IntakeInv, NEW d \in Drafts,
         Converted(d)' \subseteq Converted(d), Converting(d)' \subseteq Converting(d)
  PROVE  Cardinality(Converted(d)') + Cardinality(Converting(d)') <= Cardinality(Requests)
<1>1. IsFiniteSet(Converted(d)) /\ IsFiniteSet(Converting(d))
  BY IntakeAssumption, FS_Subset DEF IntakeInv, IntakeTypeOK, Converted, Converting
<1>2. /\ Cardinality(Converted(d)') <= Cardinality(Converted(d))
      /\ Cardinality(Converting(d)') <= Cardinality(Converting(d))
      /\ IsFiniteSet(Converted(d)') /\ IsFiniteSet(Converting(d)')
  BY <1>1, FS_Subset
<1>3. /\ Cardinality(Converted(d)) \in Nat /\ Cardinality(Converting(d)) \in Nat
      /\ Cardinality(Converted(d)') \in Nat /\ Cardinality(Converting(d)') \in Nat
      /\ Cardinality(Requests) \in Nat
  BY <1>1, <1>2, IntakeAssumption, FS_CardinalityType
<1>4. Cardinality(Converted(d)) + Cardinality(Converting(d)) <= Cardinality(Requests)
  BY DEF IntakeInv, ConversionsCounted
<1> QED BY <1>2, <1>3, <1>4

LEMMA MonotoneKeepsInvariant ==
  ASSUME IntakeInv, Monotone, NEW r \in Requests, \A o \in Requests \ {r} : tx'[o] = tx[o],
         IntakeTypeOK', Backed(r)', RecordsComplete', AnswersRecorded', AuditedLast',
         ConversionsCounted'
  PROVE  IntakeInv'
<1>1. \A o \in Requests : Backed(o)'
  BY OthersBacked
<1>2. SubmissionBacked'
  BY <1>1 DEF SubmissionBacked, Backed
<1> QED BY <1>2 DEF IntakeInv
-------------------------------------------------------------------------------
Pipe == {"create", "conversion", "mark", "audit"}

(* No step but the audit raises the count of a draft that is converted,    *)
(* and there is nothing to count of the others but the requests.           *)
LEMMA CountKept ==
  ASSUME IntakeInv, NEW r \in Requests, \A o \in Requests \ {r} : tx'[o] = tx[o],
         \A d \in Drafts : Converted(d)' \subseteq Converted(d),
         tx'[r].at \in Pipe =>
           \/ /\ tx[r].at \in Pipe /\ tx'[r].draft = tx[r].draft
              /\ tx'[r].tenant = tx[r].tenant
           \/ tx'[r].draft \notin converted
  PROVE  ConversionsCounted'
<1> SUFFICES ASSUME NEW d \in Drafts
             PROVE  Cardinality(Converted(d)') + Cardinality(Converting(d)')
                      <= Cardinality(Requests)
  BY DEF ConversionsCounted
<1>1. CASE d \in converted
  <2>1. Converting(d)' \subseteq Converting(d)
    BY <1>1 DEF Converting, Pipe
  <2> QED BY <2>1, FewerCounted
<1>2. CASE d \notin converted
  <2>1. Converted(d) = {}
    BY <1>2 DEF IntakeInv, AuditedLast, Converted
  <2>2. Converted(d)' = {}
    BY <2>1
  <2>3. Converting(d)' \subseteq Requests
    BY DEF Converting
  <2>4. Cardinality(Converting(d)') <= Cardinality(Requests) /\ IsFiniteSet(Converting(d)')
    BY <2>3, IntakeAssumption, FS_Subset
  <2>5. Cardinality(Converted(d)') = 0
    BY <2>2, FS_EmptySet
  <2>6. Cardinality(Converting(d)') \in Nat /\ Cardinality(Requests) \in Nat
    BY <2>4, IntakeAssumption, FS_CardinalityType
  <2> QED BY <2>4, <2>5, <2>6
<1> QED BY <1>1, <1>2

(* Steps that create no case, and write no audit event, record or answer.  *)
LEMMA QuietStepKeepsInvariant ==
  ASSUME IntakeInv, NEW r \in Requests,
         caseOf' = caseOf, namedFor' = namedFor, records' = records, audited' = audited, answers' = answers,
         conversions \subseteq conversions', conversions' \subseteq CaseIds,
         converted \subseteq converted', converted' \subseteq Drafts,
         tx' \in [Requests -> Submissions \cup {Idle}],
         \A o \in Requests \ {r} : tx'[o] = tx[o],
         Backed(r)',
         tx'[r].at \in Pipe =>
           \/ /\ tx[r].at \in Pipe /\ tx'[r].draft = tx[r].draft
              /\ tx'[r].tenant = tx[r].tenant
           \/ tx'[r].draft \notin converted
  PROVE  IntakeInv'
<1>1. Monotone
  BY DEF Monotone
<1>2. IntakeTypeOK'
  BY DEF IntakeInv, IntakeTypeOK
<1>3. \A d \in Drafts : Converted(d)' \subseteq Converted(d)
  BY DEF Converted
<1>4. ConversionsCounted'
  BY <1>3, CountKept
<1>5. RecordsComplete'
  BY <1>1, MonotoneKeepsRecords
<1>6. AnswersRecorded'
  BY <1>1, MonotoneKeepsAnswers
<1>7. AuditedLast'
  <2>1. \A c \in audited' : c \in audited
    OBVIOUS
  <2> QED BY <1>1, <2>1, MonotoneKeepsAudits, Zenon
<1> QED BY <1>1, <1>2, <1>4, <1>5, <1>6, <1>7, MonotoneKeepsInvariant

LEMMA AnswerKeepsInvariant ==
  ASSUME IntakeInv, NEW r \in Requests, tx[r].at # "idle", NEW c \in CaseIds,
         NEW u \in Scoped(tx[r].draft), tx[r].tenant # None => u = tx[r].tenant,
         records'[<<tx[r].key, u>>] = [draft |-> tx[r].draft, case |-> c],
         Answer(r, c), UNCHANGED <<caseOf, namedFor, conversions, converted, audited>>,
         records' \in [Scopes -> [draft : Drafts, case : CaseIds] \cup {NoRecord}],
         \A x \in Scopes : records[x] # NoRecord => records'[x] = records[x],
         RecordsComplete'
  PROVE  IntakeInv'
<1>1. Monotone
  BY DEF Monotone
<1>2. /\ tx' \in [Requests -> Submissions \cup {Idle}] /\ tx'[r].at = "idle"
      /\ \A o \in Requests \ {r} : tx'[o] = tx[o]
  BY DoneShape DEF IntakeInv, Answer
<1> DEFINE y == <<tx[r].key, tx[r].draft, tx[r].tenant>>
<1>3. /\ y \in Keys \X Drafts \X Named /\ answers \in [Keys \X Drafts \X Named -> SUBSET CaseIds]
      /\ answers' = [answers EXCEPT ![y] = @ \cup {c}]
  BY SubmissionShape DEF IntakeInv, IntakeTypeOK, Answer
<1>4. /\ answers' \in [Keys \X Drafts \X Named -> SUBSET CaseIds]
      /\ \A z \in Keys \X Drafts \X Named : z # y => answers'[z] = answers[z]
      /\ answers'[y] = answers[y] \cup {c}
  <2> HIDE DEF y
  <2> QED BY <1>3
<1>5. IntakeTypeOK'
  BY <1>2, <1>4 DEF IntakeInv, IntakeTypeOK
<1>6. ASSUME NEW k \in Keys, NEW d \in Drafts, NEW t \in Named, NEW e \in answers'[<<k, d, t>>]
      PROVE  \/ e \in answers[<<k, d, t>>]
             \/ \E v \in Scoped(d) :
                  (t # None => v = t) /\ records'[<<k, v>>] = [draft |-> d, case |-> e]
  <2>1. CASE <<k, d, t>> # y
    BY <1>4, <2>1
  <2>2. CASE <<k, d, t>> = y
    <3>1. /\ k = tx[r].key /\ d = tx[r].draft /\ t = tx[r].tenant
          /\ e \in answers[<<k, d, t>>] \cup {c}
      BY <1>4, <2>2
    <3> QED BY <3>1
  <2> QED BY <2>1, <2>2
<1>7. AnswersRecorded'
  BY <1>1, <1>6, MonotoneKeepsAnswers
<1>8. AuditedLast'
  <2>1. \A b \in audited' : b \in audited
    OBVIOUS
  <2> QED BY <1>1, <2>1, MonotoneKeepsAudits, Zenon
<1>9. ConversionsCounted'
  <2>1. \A d \in Drafts : Converted(d)' \subseteq Converted(d)
    BY DEF Converted
  <2> QED BY <1>2, <2>1, CountKept DEF Pipe
<1>10. Backed(r)'
  BY <1>2 DEF Backed
<1> QED BY <1>1, <1>2, <1>5, <1>7, <1>8, <1>9, <1>10, MonotoneKeepsInvariant
-------------------------------------------------------------------------------
LEMMA CreateCaseKeepsInvariant ==
  ASSUME IntakeInv, NEW r \in Requests, CreateCase(r)
  PROVE  IntakeInv'
<1>1. tx[r].at = "create" /\ tx[r].at # "idle" /\ IntakeTypeOK
  BY DEF CreateCase, At, IntakeInv
<1>2. /\ tx[r] \in Submissions /\ tx[r].draft \in Drafts /\ tx[r].draft # None
      /\ tx[r].tenant \in Named /\ tx[r].tenant \in Scoped(tx[r].draft)
  BY <1>1, SubmissionShape DEF IntakeInv, SubmissionBacked
<1>3. PICK c \in CaseIds :
        /\ caseOf[c] = None
        /\ caseOf' = [caseOf EXCEPT ![c] = tx[r].draft]
        /\ namedFor' = [namedFor EXCEPT ![c] = tx[r].tenant]
        /\ tx' = [tx EXCEPT ![r].at = "conversion", ![r].case = c]
  BY DEF CreateCase
<1>4. UNCHANGED <<conversions, converted, audited, records, answers>>
  BY DEF CreateCase
<1>5. /\ tx'[r] = [tx[r] EXCEPT !.at = "conversion", !.case = c]
      /\ \A o \in Requests \ {r} : tx'[o] = tx[o]
  BY <1>1, <1>3 DEF IntakeTypeOK
<1>6. /\ tx'[r] = [at |-> "conversion", key |-> tx[r].key, draft |-> tx[r].draft,
                   tenant |-> tx[r].tenant, case |-> c]
      /\ tx'[r].at = "conversion" /\ tx'[r].draft = tx[r].draft /\ tx'[r].case = c
      /\ tx'[r].tenant = tx[r].tenant
  BY <1>2, <1>5 DEF Submissions
<1>7. tx'[r] \in Submissions
  BY <1>1, <1>6, SubmissionShape DEF Submissions, Stages
<1>8. /\ caseOf' \in [CaseIds -> Drafts \cup {None}] /\ caseOf'[c] = tx[r].draft
      /\ namedFor' \in [CaseIds -> Named] /\ namedFor'[c] = tx[r].tenant
      /\ \A e \in CaseIds \ {c} : caseOf'[e] = caseOf[e] /\ namedFor'[e] = namedFor[e]
  BY <1>1, <1>2, <1>3 DEF IntakeTypeOK
<1>9. tx' \in [Requests -> Submissions \cup {Idle}]
  BY <1>1, <1>3, <1>7, <1>5 DEF IntakeTypeOK
<1>10. IntakeTypeOK'
  BY <1>1, <1>4, <1>8, <1>9 DEF IntakeTypeOK
<1>11. Monotone
  BY <1>3, <1>4, <1>8 DEF Monotone
<1>12. c # None
  BY IntakeAssumption
<1>13. Backed(r)'
  BY <1>2, <1>6, <1>8, <1>12 DEF Backed, Scoped
<1>14. \A d \in Drafts : Converted(d)' \subseteq Converted(d)
  BY <1>3, <1>4, <1>8 DEF Converted, IntakeInv, AuditedLast, IntakeTypeOK
<1>15. ConversionsCounted'
  BY <1>1, <1>5, <1>6, <1>14, CountKept DEF Pipe
<1>16. RecordsComplete'
  BY <1>4, <1>11, MonotoneKeepsRecords
<1>17. AnswersRecorded'
  BY <1>4, <1>11, MonotoneKeepsAnswers
<1>18. AuditedLast'
  BY <1>4, <1>11, MonotoneKeepsAudits
<1> QED BY <1>5, <1>10, <1>11, <1>13, <1>15, <1>16, <1>17, <1>18, MonotoneKeepsInvariant

(* The audit counts a conversion that was under way as done.               *)
LEMMA WriteAuditKeepsInvariant ==
  ASSUME IntakeInv, NEW r \in Requests, WriteAudit(r)
  PROVE  IntakeInv'
<1> DEFINE draft == tx[r].draft  c == tx[r].case
<1>1. tx[r].at = "audit" /\ tx[r].at # "idle" /\ IntakeTypeOK
  BY DEF WriteAudit, At, IntakeInv
<1>2. /\ c \in CaseIds /\ c # None /\ caseOf[c] = draft /\ c \in conversions
      /\ draft # None /\ (tx[r].tenant # None => draft \in converted)
      /\ namedFor[c] = tx[r].tenant /\ tx[r].tenant \in Scoped(draft) /\ draft \in Drafts
  BY <1>1, SubmissionShape DEF IntakeInv, SubmissionBacked
<1>3. /\ audited' = audited \cup {c} /\ Go(r, "record")
      /\ UNCHANGED <<caseOf, namedFor, conversions, converted, records, answers>>
  BY DEF WriteAudit
<1>4. /\ tx' \in [Requests -> Submissions \cup {Idle}]
      /\ tx'[r].at = "record" /\ tx'[r].draft = draft /\ tx'[r].case = c
      /\ tx'[r].tenant = tx[r].tenant
      /\ \A o \in Requests \ {r} : tx'[o] = tx[o]
  BY <1>1, <1>3, GoShape DEF Stages
<1>5. IntakeTypeOK'
  BY <1>1, <1>2, <1>3, <1>4 DEF IntakeTypeOK
<1>6. Monotone
  BY <1>3 DEF Monotone
<1>7. Backed(r)'
  BY <1>2, <1>3, <1>4 DEF Backed
<1>8. RecordsComplete'
  BY <1>3, <1>6, MonotoneKeepsRecords
<1>9. AnswersRecorded'
  BY <1>3, <1>6, MonotoneKeepsAnswers
<1>10. AuditedLast'
  BY <1>2, <1>3, <1>6, MonotoneKeepsAudits
<1>11. ASSUME NEW d \in Drafts
       PROVE  Cardinality(Converted(d)') + Cardinality(Converting(d)') <= Cardinality(Requests)
  <2>1. CASE d # draft \/ tx[r].tenant = None
    <3>1. Converted(d)' \subseteq Converted(d)
      BY <1>2, <1>3, <2>1 DEF Converted
    <3>2. Converting(d)' \subseteq Converting(d)
      BY <1>4 DEF Converting
    <3> QED BY <3>1, <3>2, FewerCounted
  <2>2. CASE d = draft /\ tx[r].tenant # None
    <3>1. Converted(d)' = Converted(d) \cup {c}
      BY <1>2, <1>3, <2>2 DEF Converted
    <3>2. Converting(d)' = Converting(d) \ {r} /\ r \in Converting(d)
      BY <1>1, <1>4, <2>2 DEF Converting
    <3>3. IsFiniteSet(Converted(d)) /\ IsFiniteSet(Converting(d))
      BY <1>1, IntakeAssumption, FS_Subset DEF IntakeTypeOK, Converted, Converting
    <3>4. /\ Cardinality(Converted(d) \cup {c}) <= Cardinality(Converted(d)) + 1
          /\ Cardinality(Converting(d) \ {r}) = Cardinality(Converting(d)) - 1
      <4>1. Cardinality(Converted(d) \cup {c}) =
              IF c \in Converted(d) THEN Cardinality(Converted(d)) ELSE Cardinality(Converted(d)) + 1
        BY <3>3, FS_AddElement
      <4>2. Cardinality(Converting(d) \ {r}) =
              IF r \in Converting(d) THEN Cardinality(Converting(d)) - 1 ELSE Cardinality(Converting(d))
        BY <3>3, FS_RemoveElement
      <4>3. Cardinality(Converted(d)) \in Nat
        BY <3>3, FS_CardinalityType
      <4> QED BY <3>2, <4>1, <4>2, <4>3
    <3>5. /\ Cardinality(Converted(d)) \in Nat /\ Cardinality(Converting(d)) \in Nat
          /\ Cardinality(Requests) \in Nat /\ Cardinality(Converted(d) \cup {c}) \in Nat
      <4>1. IsFiniteSet(Converted(d) \cup {c})
        BY <3>3, FS_AddElement
      <4> QED BY <3>3, <4>1, IntakeAssumption, FS_CardinalityType
    <3>6. Cardinality(Converted(d)) + Cardinality(Converting(d)) <= Cardinality(Requests)
      BY DEF IntakeInv, ConversionsCounted
    <3> HIDE DEF c
    <3> QED BY <3>1, <3>2, <3>4, <3>5, <3>6
  <2> QED BY <2>1, <2>2
<1>12. ConversionsCounted'
  BY <1>11 DEF ConversionsCounted
<1> QED BY <1>4, <1>5, <1>6, <1>7, <1>8, <1>9, <1>10, <1>12, MonotoneKeepsInvariant

LEMMA RecordResultKeepsInvariant ==
  ASSUME IntakeInv, NEW r \in Requests, RecordResult(r),
         records[Scope(r)] = NoRecord
  PROVE  IntakeInv'
<1> DEFINE draft == tx[r].draft  c == tx[r].case  x == Scope(r)
           new == [draft |-> draft, case |-> c]
<1>1. tx[r].at = "record" /\ tx[r].at # "idle" /\ IntakeTypeOK
  BY DEF RecordResult, At, IntakeInv
<1>2. /\ c \in CaseIds /\ draft \in Drafts /\ draft # None /\ x \in Scopes
      /\ Complete(draft, c) /\ tx[r].tenant \in Scoped(draft)
  BY <1>1, SubmissionShape DEF IntakeInv, SubmissionBacked, Complete
<1>3. /\ records' = [records EXCEPT ![x] = new] /\ Answer(r, c)
      /\ UNCHANGED <<caseOf, namedFor, conversions, converted, audited>>
  BY DEF RecordResult, ResultRecord
<1>4. /\ records' \in [Scopes -> [draft : Drafts, case : CaseIds] \cup {NoRecord}]
      /\ records'[x] = new /\ \A y \in Scopes \ {x} : records'[y] = records[y]
  <2>1. new \in [draft : Drafts, case : CaseIds]
    BY <1>2
  <2> HIDE DEF new, x
  <2> QED BY <1>1, <1>2, <1>3, <2>1 DEF IntakeTypeOK
<1>5. \A y \in Scopes : records[y] # NoRecord => records'[y] = records[y]
  <2>1. records[x] = NoRecord
    OBVIOUS
  <2> HIDE DEF new, x
  <2> QED BY <1>4, <2>1
<1>6. Monotone
  BY <1>3, <1>5 DEF Monotone
<1>7. ASSUME NEW k \in Keys, NEW t \in Named, records'[<<k, t>>] # records[<<k, t>>]
      PROVE  /\ t \in Scoped(records'[<<k, t>>].draft)
             /\ Complete(records[<<k, t>>].draft, records[<<k, t>>].case)'
  <2>1. <<k, t>> = x
    <3> HIDE DEF x, new
    <3> QED BY <1>4, <1>7, ScopeType
  <2>2. t = tx[r].tenant
    BY <2>1 DEF Scope
  <2>3. records'[<<k, t>>].draft = draft /\ records'[<<k, t>>].case = c
    BY <1>4, <2>1
  <2> QED BY <1>2, <1>3, <2>2, <2>3 DEF Complete
<1>8. RecordsComplete'
  BY <1>6, <1>7, MonotoneKeepsRecords
<1>9. records'[<<tx[r].key, tx[r].tenant>>] = [draft |-> draft, case |-> c]
  BY <1>4 DEF Scope
<1> QED BY <1>1, <1>2, <1>3, <1>4, <1>5, <1>8, <1>9, AnswerKeepsInvariant
-------------------------------------------------------------------------------
LEMMA SubmissionStepKeepsInvariant ==
  ASSUME IntakeInv, NEW r \in Requests, SubmissionStep(r)
  PROVE  IntakeInv'
<1>1. IntakeTypeOK /\ conversions \subseteq CaseIds /\ converted \subseteq Drafts
  BY DEF IntakeInv, IntakeTypeOK
<1>2. CASE LookUp(r)
  <2>1. tx[r].at = "lookup" /\ tx[r].at # "idle" /\ UNCHANGED Rows
    BY <1>2 DEF LookUp, At
  <2>2. ASSUME NEW t \in Named, Found(r, t), Answer(r, records[<<tx[r].key, t>>].case)
        PROVE  IntakeInv'
    <3> DEFINE x == <<tx[r].key, t>>
    <3>1. x \in Scopes /\ tx[r].draft # None /\ tx[r].key \in Keys
      BY <1>1, <2>1, SubmissionShape, ScopeType
    <3>2. records[x] # NoRecord /\ records[x].draft = tx[r].draft
      BY <2>2, <3>1 DEF NoRecord, Found
    <3>3. /\ records[x] \in [draft : Drafts, case : CaseIds]
          /\ records \in [Scopes -> [draft : Drafts, case : CaseIds] \cup {NoRecord}]
      BY <1>1, <3>1, <3>2 DEF IntakeTypeOK
    <3>4. /\ records[x].case \in CaseIds
          /\ records[x] = [draft |-> tx[r].draft, case |-> records[x].case]
      BY <3>2, <3>3
    <3>7. t \in Scoped(tx[r].draft)
      BY <3>1, <3>2 DEF IntakeInv, RecordsComplete
    <3>8. tx[r].tenant # None => t = tx[r].tenant
      BY <2>2 DEF Found, Matches, SameTenant
    <3>5. UNCHANGED <<caseOf, namedFor, conversions, converted, audited>> /\ records' = records
      BY <2>1 DEF Rows
    <3>6. RecordsComplete'
      <4>1. RecordsComplete
        BY DEF IntakeInv
      <4> QED BY <3>5, <4>1 DEF RecordsComplete, Complete
    <3> QED BY <2>1, <2>2, <3>3, <3>4, <3>5, <3>6, <3>7, <3>8, AnswerKeepsInvariant
  <2>3. CASE Go(r, "read") /\ UNCHANGED answers
    <3>1. Backed(r)' /\ tx'[r].at = "read"
      BY <1>1, <2>1, <2>3, GoShape DEF Stages, Backed
    <3> QED BY <1>1, <2>1, <2>3, <3>1, GoShape, QuietStepKeepsInvariant DEF Stages, Pipe, Rows
  <2> QED BY <1>2, <2>2, <2>3 DEF LookUp
<1>3. CASE ReadDraft(r)
  <2>1. tx[r].at # "idle" /\ UNCHANGED <<Rows, answers>>
    BY <1>3 DEF ReadDraft, At
  <2>2. CASE Done(r)
    <3>1. Backed(r)' /\ tx'[r].at = "idle"
      BY <1>1, <2>2, DoneShape DEF Backed
    <3> QED BY <1>1, <2>1, <2>2, <3>1, DoneShape, QuietStepKeepsInvariant DEF Pipe, Rows
  <2>3. CASE Convertible(r) /\ Go(r, "create")
    <3>1. tx[r].tenant \in Scoped(tx[r].draft) /\ tx[r].draft \notin converted
      BY <2>3, FoundDraftScoped DEF Convertible
    <3>2. Backed(r)' /\ tx'[r].draft \notin converted
      BY <1>1, <2>1, <2>3, <3>1, GoShape DEF Stages, Backed, Scoped
    <3> QED BY <1>1, <2>1, <2>3, <3>2, GoShape, QuietStepKeepsInvariant DEF Stages, Rows
  <2> QED BY <1>3, <2>2, <2>3 DEF ReadDraft
<1>4. CASE CreateCase(r)
  BY <1>4, CreateCaseKeepsInvariant
<1>5. CASE RecordConversion(r)
  <2>1. /\ tx[r].at = "conversion" /\ tx[r].at # "idle" /\ Go(r, "mark")
        /\ conversions' = conversions \cup {tx[r].case}
        /\ UNCHANGED <<caseOf, namedFor, converted, audited, records, answers>>
    BY <1>5 DEF RecordConversion, At
  <2>2. tx[r].case \in CaseIds /\ tx[r].case # None /\ caseOf[tx[r].case] = tx[r].draft
        /\ namedFor[tx[r].case] = tx[r].tenant /\ tx[r].tenant \in Scoped(tx[r].draft)
    BY <1>1, <2>1, SubmissionShape DEF IntakeInv, SubmissionBacked
  <2>3. /\ tx' \in [Requests -> Submissions \cup {Idle}] /\ tx'[r].at = "mark"
        /\ tx'[r].draft = tx[r].draft /\ tx'[r].case = tx[r].case
        /\ tx'[r].tenant = tx[r].tenant
        /\ \A o \in Requests \ {r} : tx'[o] = tx[o]
    BY <1>1, <2>1, GoShape DEF Stages
  <2>4. Backed(r)'
    BY <2>1, <2>2, <2>3 DEF Backed, Scoped, SameTenant
  <2>5. /\ conversions \subseteq conversions' /\ conversions' \subseteq CaseIds
        /\ tx[r].at \in Pipe /\ converted' = converted
    BY <1>1, <2>1, <2>2 DEF Pipe
  <2> QED BY <1>1, <2>1, <2>3, <2>4, <2>5, QuietStepKeepsInvariant
<1>6. CASE MarkConverted(r)
  <2>1. /\ tx[r].at = "mark" /\ tx[r].at # "idle" /\ Go(r, "audit")
        /\ converted' = converted \cup
             {d \in {tx[r].draft} : SameTenant(tx[r].tenant, DraftTenant[d])}
        /\ UNCHANGED <<caseOf, namedFor, conversions, audited, records, answers>>
    BY <1>6 DEF MarkConverted, At
  <2>2. /\ tx[r].case \in CaseIds /\ tx[r].case # None /\ caseOf[tx[r].case] = tx[r].draft
        /\ namedFor[tx[r].case] = tx[r].tenant /\ tx[r].tenant \in Scoped(tx[r].draft)
        /\ tx[r].case \in conversions /\ tx[r].draft \in Drafts
    BY <1>1, <2>1, SubmissionShape DEF IntakeInv, SubmissionBacked
  <2>3. /\ tx' \in [Requests -> Submissions \cup {Idle}] /\ tx'[r].at = "audit"
        /\ tx'[r].draft = tx[r].draft /\ tx'[r].case = tx[r].case
        /\ tx'[r].tenant = tx[r].tenant
        /\ \A o \in Requests \ {r} : tx'[o] = tx[o]
    BY <1>1, <2>1, GoShape DEF Stages
  <2>4. Backed(r)'
    BY <2>1, <2>2, <2>3 DEF Backed, Scoped, SameTenant
  <2>5. /\ converted \subseteq converted' /\ converted' \subseteq Drafts
        /\ tx[r].at \in Pipe /\ conversions' = conversions
    BY <1>1, <2>1, <2>2 DEF Pipe
  <2> QED BY <1>1, <2>1, <2>3, <2>4, <2>5, QuietStepKeepsInvariant
<1>7. CASE WriteAudit(r)
  BY <1>7, WriteAuditKeepsInvariant
<1>8. CASE RecordResult(r)
  <2>1. CASE records[Scope(r)] = NoRecord
    BY <1>8, <2>1, RecordResultKeepsInvariant
  <2>2. CASE records[Scope(r)] # NoRecord
    <3>1. /\ Done(r)
          /\ UNCHANGED <<caseOf, namedFor, conversions, converted, audited, records, answers>>
      BY <1>8, <2>2 DEF RecordResult
    <3>2. Backed(r)' /\ tx'[r].at = "idle"
      BY <1>1, <3>1, DoneShape DEF Backed
    <3> QED BY <1>1, <3>1, <3>2, DoneShape, QuietStepKeepsInvariant DEF Pipe
  <2> QED BY <2>1, <2>2
<1> QED BY <1>2, <1>3, <1>4, <1>5, <1>6, <1>7, <1>8 DEF SubmissionStep

LEMMA NextKeepsInvariant ==
  ASSUME IntakeInv, IntakeNext
  PROVE  IntakeInv'
<1>1. IntakeTypeOK /\ conversions \subseteq CaseIds /\ converted \subseteq Drafts
  BY DEF IntakeInv, IntakeTypeOK
<1>2. ASSUME NEW r \in Requests, NEW k \in Keys, NEW d \in Drafts, NEW t \in Named, Submit(r, k, d, t)
      PROVE  IntakeInv'
  <2> DEFINE new == [at |-> "lookup", key |-> k, draft |-> d, tenant |-> t, case |-> None]
  <2>1. tx' = [tx EXCEPT ![r] = new] /\ UNCHANGED <<Rows, answers>>
    BY <1>2 DEF Submit
  <2>2. new \in Submissions /\ new.at = "lookup"
    BY DEF Submissions, Stages
  <2> HIDE DEF new
  <2>3. /\ tx' \in [Requests -> Submissions \cup {Idle}] /\ tx'[r].at = "lookup"
        /\ \A o \in Requests \ {r} : tx'[o] = tx[o]
    BY <1>1, <2>1, <2>2 DEF IntakeTypeOK
  <2>4. Backed(r)'
    BY <2>3 DEF Backed
  <2> QED BY <1>1, <2>1, <2>3, <2>4, QuietStepKeepsInvariant DEF Pipe, Rows
<1>3. ASSUME NEW r \in Requests, LookUpFails(r)
      PROVE  IntakeInv'
  <2>1. tx[r].at # "idle" /\ Go(r, "read") /\ UNCHANGED <<Rows, answers>>
    BY <1>3 DEF LookUpFails, At
  <2>2. Backed(r)' /\ tx'[r].at = "read"
    BY <1>1, <2>1, GoShape DEF Stages, Backed
  <2> QED BY <1>1, <2>1, <2>2, GoShape, QuietStepKeepsInvariant DEF Stages, Pipe, Rows
<1>4. ASSUME NEW r \in Requests, Abandon(r)
      PROVE  IntakeInv'
  <2>1. Done(r) /\ UNCHANGED <<Rows, answers>>
    BY <1>4 DEF Abandon
  <2>2. Backed(r)' /\ tx'[r].at = "idle"
    BY <1>1, <2>1, DoneShape DEF Backed
  <2> QED BY <1>1, <2>1, <2>2, DoneShape, QuietStepKeepsInvariant DEF Pipe, Rows
<1> QED BY <1>2, <1>3, <1>4, SubmissionStepKeepsInvariant DEF IntakeNext, IntakeSteady

LEMMA InitEstablishesInvariant ==
  ASSUME IntakeInit
  PROVE  IntakeInv
<1>1. IntakeTypeOK
  <2>1. None \in Named
    BY DEF Named
  <2> QED BY <2>1 DEF IntakeInit, IntakeTypeOK
<1>2. \A r \in Requests : tx[r].at = "idle"
  BY DEF IntakeInit, Idle
<1>3. SubmissionBacked
  BY <1>2 DEF SubmissionBacked
<1>4. RecordsComplete /\ AnswersRecorded /\ AuditedLast
  <2>1. \A k \in Keys, d \in Drafts, t \in Named : answers[<<k, d, t>>] = {}
    BY DEF IntakeInit
  <2>2. \A k \in Keys, t \in Named : records[<<k, t>>] = NoRecord
    BY ScopeType DEF IntakeInit
  <2>3. audited = {}
    BY DEF IntakeInit
  <2> QED BY <2>1, <2>2, <2>3 DEF RecordsComplete, AnswersRecorded, AuditedLast
<1>5. ConversionsCounted
  <2> SUFFICES ASSUME NEW d \in Drafts
               PROVE  Cardinality(Converted(d)) + Cardinality(Converting(d))
                        <= Cardinality(Requests)
    BY DEF ConversionsCounted
  <2>1. Converted(d) = {} /\ Converting(d) = {}
    BY <1>2 DEF IntakeInit, Converted, Converting
  <2>2. Cardinality({}) = 0 /\ Cardinality(Requests) \in Nat
    BY FS_EmptySet, IntakeAssumption, FS_CardinalityType
  <2> QED BY <2>1, <2>2
<1> QED BY <1>1, <1>3, <1>4, <1>5 DEF IntakeInv
-------------------------------------------------------------------------------
(* What submissions, records and answers say of each other, whatever       *)
(* overlaps, fails, crashes and is submitted again.                        *)
THEOREM IntakeInvariant == IntakeSpec => []IntakeInv
<1>1. IntakeInv /\ UNCHANGED intakeVars => IntakeInv'
  BY DEF intakeVars, IntakeInv, IntakeTypeOK, SubmissionBacked, RecordsComplete, Complete,
         AnswersRecorded, AuditedLast, ConversionsCounted, Converted, Converting, Scoped
<1>2. IntakeInv /\ [IntakeNext]_intakeVars => IntakeInv'
  BY <1>1, NextKeepsInvariant
<1> QED BY <1>2, InitEstablishesInvariant, PTL DEF IntakeSpec

(* The tables and the submissions under way have the types of the schema.  *)
THEOREM IntakeTypeCorrect == IntakeSpec => []IntakeTypeOK
<1>1. IntakeInv => IntakeTypeOK
  BY DEF IntakeInv
<1> QED BY <1>1, IntakeInvariant, PTL

(* Under one key and tenant a draft is answered with one case, and under   *)
(* one key with two at most, one of them to who names the draft's tenant.  *)
THEOREM OneCaseToldPerKey == IntakeSpec => []OneAnswerPerKey
<1> QED BY OneRecordOneAnswer, IntakeInvariant, PTL

(* A client told of a case can rely on its conversion, its audit event and, *)
(* if a tenant was named, on the draft being converted.                    *)
THEOREM ToldCasesComplete == IntakeSpec => []AnsweredComplete
<1> QED BY AnswersAreComplete, IntakeInvariant, PTL

(* Submissions that name a draft's tenant convert it at most as often as   *)
(* requests can overlap.                                                   *)
THEOREM ConversionsAreBounded == IntakeSpec => []ConversionsBounded
<1> QED BY CountedIsBounded, IntakeInvariant, PTL
===============================================================================
