----------------------------- MODULE AIJobs_proofs -----------------------------
(***************************************************************************)
(* Theorems of AIJobs, for any number of requests, clients of the pool,    *)
(* attachments, cases and jobs.                                            *)
(***************************************************************************)
EXTENDS AIJobs, TLAPS

LEMMA RequestShape ==
  ASSUME AIJobsTypeOK, NEW r \in Requests, tx[r].at # "idle"
  PROVE  tx[r] \in RunRequests \cup DeleteRequests
BY DEF AIJobsTypeOK, Idle

(* Only a request that runs a job gets beyond reading its target, and a    *)
(* deletion waits for the row at a step of its own.                        *)
LEMMA RunShape ==
  ASSUME AIJobsTypeOK, NEW r \in Requests, tx[r].at # "idle",
         Settling(r) \/ tx[r].op = "run"
  PROVE  tx[r] \in RunRequests
<1>1. tx[r] \in RunRequests \cup DeleteRequests
  BY RequestShape
<1>2. tx[r] \notin DeleteRequests
  BY DEF DeleteRequests, Settling
<1> QED BY <1>1, <1>2

LEMMA DeleteShape ==
  ASSUME AIJobsTypeOK, NEW r \in Requests, At(r, "update")
  PROVE  tx[r] \in DeleteRequests /\ tx[r].target \in Attachments /\ ~HoldsAttachment(r)
<1>1. tx[r] \in RunRequests \cup DeleteRequests
  BY RequestShape DEF At
<1>2. tx[r] \notin RunRequests
  BY DEF RunRequests, At
<1> QED BY <1>1, <1>2 DEF DeleteRequests, At, HoldsAttachment

(* A step that writes nothing keeps the invariant if what it makes of the  *)
(* request is backed and the request's job is its own.                     *)
LEMMA QuietStepKeepsInvariant ==
  ASSUME AIJobsInv, NEW r \in Requests, NEW to,
         tx' = [tx EXCEPT ![r] = to], UNCHANGED <<attachment, jobs, timeline>>,
         to \in RunRequests \cup DeleteRequests \cup {Idle},
         RequestBacked(r)',
         \A o \in Requests \ {r} : Settling(o) /\ Settling(r)' => tx[o].job # to.job
  PROVE  AIJobsInv'
<1>1. AIJobsTypeOK /\ tx'[r] = to /\ \A o \in Requests \ {r} : tx'[o] = tx[o]
  BY DEF AIJobsInv, AIJobsTypeOK
<1>2. AIJobsTypeOK'
  BY <1>1 DEF AIJobsTypeOK
<1>3. JobsWhole'
  BY DEF AIJobsInv, JobsWhole
<1>4. JobsApart'
  BY <1>1 DEF AIJobsInv, JobsApart, Settling
<1>5. \A o \in Requests : RequestBacked(o)'
  <2> SUFFICES ASSUME NEW o \in Requests \ {r} PROVE RequestBacked(o)'
    OBVIOUS
  <2>1. RequestBacked(o) /\ tx'[o] = tx[o]
    BY <1>1 DEF AIJobsInv
  <2> QED BY <2>1 DEF RequestBacked, Settling, At, HoldsAttachment, IsOCR
<1> QED BY <1>2, <1>3, <1>4, <1>5 DEF AIJobsInv

LEMMA ReplyKeepsInvariant ==
  ASSUME AIJobsInv, NEW r \in Requests, Reply(r), UNCHANGED <<attachment, jobs, timeline>>
  PROVE  AIJobsInv'
<1>1. tx' = [tx EXCEPT ![r] = Idle] /\ tx'[r].at = "idle"
  BY DEF Reply, AIJobsInv, AIJobsTypeOK, Idle
<1>2. RequestBacked(r)' /\ ~Settling(r)'
  BY <1>1 DEF RequestBacked, Settling, At, HoldsAttachment
<1> QED BY <1>1, <1>2, QuietStepKeepsInvariant

(* Moving a request on to a later step.                                    *)
LEMMA GoShape ==
  ASSUME AIJobsTypeOK, NEW r \in Requests, tx[r] \in RunRequests,
         NEW at \in {"connect", "read", "create", "provider", "message", "commit"}, Go(r, at)
  PROVE  /\ tx'[r] \in RunRequests /\ tx'[r].at = at /\ tx'[r].status = tx[r].status
         /\ tx'[r].job = tx[r].job /\ tx'[r].target = tx[r].target
         /\ tx' = [tx EXCEPT ![r] = tx'[r]]
<1>1. tx'[r] = [tx[r] EXCEPT !.at = at] /\ tx' = [tx EXCEPT ![r] = tx'[r]]
  BY DEF Go, AIJobsTypeOK
<1> QED BY <1>1 DEF RunRequests

LEMMA GoDeleteShape ==
  ASSUME AIJobsTypeOK, NEW r \in Requests, tx[r] \in DeleteRequests,
         NEW at \in {"connect", "read", "update"}, Go(r, at)
  PROVE  /\ tx'[r] \in DeleteRequests /\ tx'[r].at = at
         /\ tx' = [tx EXCEPT ![r] = tx'[r]]
<1>1. tx'[r] = [tx[r] EXCEPT !.at = at] /\ tx' = [tx EXCEPT ![r] = tx'[r]]
  BY DEF Go, AIJobsTypeOK
<1> QED BY <1>1 DEF DeleteRequests

(* Steps before the request holds anything.                                *)
LEMMA EarlyStepKeepsInvariant ==
  ASSUME AIJobsInv, NEW r \in Requests, UNCHANGED <<attachment, jobs, timeline>>,
         NEW to \in RunRequests \cup DeleteRequests, tx' = [tx EXCEPT ![r] = to],
         to.at \in {"connect", "read", "create", "update"}
  PROVE  AIJobsInv'
<1>1. tx'[r] = to
  BY DEF AIJobsInv, AIJobsTypeOK
<1>2. RequestBacked(r)' /\ ~Settling(r)'
  BY <1>1 DEF RequestBacked, Settling, At, HoldsAttachment
<1> QED BY <1>2, QuietStepKeepsInvariant

LEMMA ArrivalKeepsInvariant ==
  ASSUME AIJobsInv, NEW r \in Requests,
         \/ \E e \in Targets : RequestJob(r, e)
         \/ \E a \in Attachments : RequestDelete(r, a)
  PROVE  AIJobsInv'
<1>1. ASSUME NEW e \in Targets, RequestJob(r, e) PROVE AIJobsInv'
  <2> DEFINE to == [op |-> "run", at |-> "connect", target |-> e, job |-> None,
                    status |-> "processing", response |-> FALSE]
  <2>1. to \in RunRequests /\ to.at = "connect"
    BY DEF RunRequests, JobStatuses
  <2>2. tx' = [tx EXCEPT ![r] = to] /\ UNCHANGED <<attachment, jobs, timeline>>
    BY <1>1 DEF RequestJob
  <2> HIDE DEF to
  <2> QED BY <2>1, <2>2, EarlyStepKeepsInvariant
<1>2. ASSUME NEW a \in Attachments, RequestDelete(r, a) PROVE AIJobsInv'
  <2> DEFINE to == [op |-> "delete", at |-> "connect", target |-> a]
  <2>1. to \in DeleteRequests /\ to.at = "connect"
    BY DEF DeleteRequests
  <2>2. tx' = [tx EXCEPT ![r] = to] /\ UNCHANGED <<attachment, jobs, timeline>>
    BY <1>2 DEF RequestDelete
  <2> HIDE DEF to
  <2> QED BY <2>1, <2>2, EarlyStepKeepsInvariant
<1> QED BY <1>1, <1>2

LEMMA ReadsKeepInvariant ==
  ASSUME AIJobsInv, NEW r \in Requests, Connect(r) \/ ReadTarget(r)
  PROVE  AIJobsInv'
<1>1. AIJobsTypeOK /\ UNCHANGED <<attachment, jobs, timeline>> /\ tx[r].at # "idle"
  BY DEF AIJobsInv, Connect, ReadTarget, At
<1>2. CASE Reply(r)
  BY <1>1, <1>2, ReplyKeepsInvariant
<1>3. ASSUME NEW at \in {"read", "create", "update"}, Go(r, at),
             tx[r].op = "run" => at # "update", tx[r].op # "run" => at # "create"
      PROVE  AIJobsInv'
  <2>1. CASE tx[r].op = "run"
    <3>1. tx'[r] \in RunRequests /\ tx'[r].at = at /\ tx' = [tx EXCEPT ![r] = tx'[r]]
      BY <1>1, <1>3, <2>1, RunShape, GoShape
    <3> QED BY <1>1, <3>1, EarlyStepKeepsInvariant
  <2>2. CASE tx[r].op # "run"
    <3>1. tx[r] \in DeleteRequests
      BY <1>1, <2>2, RequestShape DEF RunRequests
    <3>2. tx'[r] \in DeleteRequests /\ tx'[r].at = at /\ tx' = [tx EXCEPT ![r] = tx'[r]]
      BY <1>1, <1>3, <2>2, <3>1, GoDeleteShape
    <3> QED BY <1>1, <3>2, EarlyStepKeepsInvariant
  <2> QED BY <2>1, <2>2
<1> QED BY <1>2, <1>3 DEF Connect, ReadTarget

LEMMA StartJobKeepsInvariant ==
  ASSUME AIJobsInv, NEW r \in Requests, StartJob(r)
  PROVE  AIJobsInv'
<1>1. /\ AIJobsTypeOK /\ UNCHANGED <<attachment, jobs, timeline>>
      /\ tx[r].at = "create" /\ tx[r].op = "run" /\ tx[r] \in RunRequests
  BY RunShape DEF AIJobsInv, StartJob, Running, At
<1>2. CASE Reply(r)
  BY <1>1, <1>2, ReplyKeepsInvariant
<1>3. CASE (IsOCR(r) => ~attachment[tx[r].target].deleted) /\ CreateJob(r)
  <2>1. PICK j \in NewJobs : tx' = [tx EXCEPT ![r].at = "provider", ![r].job = j]
    BY <1>3 DEF CreateJob
  <2>2. j \in JobIds /\ jobs[j] = NoJob /\ \A o \in Requests : Settling(o) => tx[o].job # j
    <3>1. j \in JobIds /\ jobs[j] = NoJob
      BY DEF NewJobs
    <3>2. ASSUME NEW o \in Requests, Settling(o) PROVE tx[o].job # j
      <4>1. tx[o].at # "idle"
        BY <3>2 DEF Settling
      <4>2. tx[o].op = "run"
        BY <1>1, <3>2, <4>1, RunShape DEF RunRequests
      <4> QED BY <4>1, <4>2 DEF NewJobs
    <3> QED BY <3>1, <3>2
  <2> PICK to : to = tx'[r]
    OBVIOUS
  <2>3. to = [tx[r] EXCEPT !.at = "provider", !.job = j] /\ tx' = [tx EXCEPT ![r] = to]
    BY <1>1, <2>1 DEF AIJobsTypeOK
  <2>4. to \in RunRequests /\ to.at = "provider" /\ to.job = j /\ to.target = tx[r].target
    BY <1>1, <2>2, <2>3 DEF RunRequests
  <2>5. RequestBacked(r)'
    BY <1>1, <1>3, <2>2, <2>4 DEF RequestBacked, Settling, At, HoldsAttachment, IsOCR
  <2>6. \A o \in Requests \ {r} : Settling(o) /\ Settling(r)' => tx[o].job # to.job
    BY <2>2, <2>4
  <2> QED BY <1>1, <2>3, <2>4, <2>5, <2>6, QuietStepKeepsInvariant
<1> QED BY <1>2, <1>3 DEF StartJob
-------------------------------------------------------------------------------
LEMMA HeldStepsKeepInvariant ==
  ASSUME AIJobsInv, NEW r \in Requests,
         ProviderAnswers(r) \/ ProviderFails(r) \/ PostMessage(r) \/ MessageRefused(r)
  PROVE  AIJobsInv'
<1>1. /\ AIJobsTypeOK /\ UNCHANGED <<attachment, jobs, timeline>>
      /\ tx[r].at \in {"provider", "message"} /\ Settling(r) /\ tx[r] \in RunRequests
      /\ RequestBacked(r)
  <2>1. tx[r].at \in {"provider", "message"}
    BY DEF ProviderAnswers, ProviderFails, PostMessage, MessageRefused, Running, At
  <2>2. Settling(r)
    BY <2>1 DEF Settling
  <2>3. tx[r] \in RunRequests
    BY <2>1, <2>2, RunShape DEF AIJobsInv
  <2> QED BY <2>1, <2>2, <2>3
           DEF AIJobsInv, ProviderAnswers, ProviderFails, PostMessage, MessageRefused
<1> PICK to : to = tx'[r]
  OBVIOUS
<1>2. /\ tx' = [tx EXCEPT ![r] = to] /\ to \in RunRequests
      /\ to.job = tx[r].job /\ to.target = tx[r].target
      /\ \/ to.at = "message" /\ to.status = "completed"
         \/ to.at = "commit" /\ to.status # "processing"
  <2>1. CASE ProviderAnswers(r)
    <3>1. to = [tx[r] EXCEPT !.at = "message", !.status = "completed", !.response = TRUE]
          /\ tx' = [tx EXCEPT ![r] = to]
      BY <1>1, <2>1 DEF ProviderAnswers, AIJobsTypeOK
    <3> QED BY <1>1, <3>1 DEF RunRequests, JobStatuses
  <2>2. CASE ProviderFails(r) \/ MessageRefused(r)
    <3>1. to = [tx[r] EXCEPT !.at = "commit", !.status = "failed"]
          /\ tx' = [tx EXCEPT ![r] = to]
      BY <1>1, <2>2 DEF ProviderFails, MessageRefused, AIJobsTypeOK
    <3> QED BY <1>1, <3>1 DEF RunRequests, JobStatuses
  <2>3. CASE PostMessage(r)
    <3>1. Go(r, "commit") /\ tx[r].status = "completed"
      BY <1>1, <2>3 DEF PostMessage, Running, RequestBacked
    <3> QED BY <1>1, <3>1, GoShape
  <2> QED BY <2>1, <2>2, <2>3
<1>3. RequestBacked(r)'
  BY <1>1, <1>2 DEF RequestBacked, Settling, At, HoldsAttachment, IsOCR
<1>4. \A o \in Requests \ {r} : Settling(o) /\ Settling(r)' => tx[o].job # to.job
  BY <1>1, <1>2 DEF AIJobsInv, JobsApart
<1> QED BY <1>1, <1>2, <1>3, <1>4, QuietStepKeepsInvariant

(* What a COMMIT stores is of a job no other request has, in an attachment *)
(* that is still there.                                                    *)
LEMMA CommitShape ==
  ASSUME AIJobsInv, NEW r \in Requests, CommitJob(r)
  PROVE  /\ tx[r] \in RunRequests /\ Settling(r) /\ tx[r].status \in {"completed", "failed"}
         /\ tx[r].job \in JobIds /\ jobs[tx[r].job] = NoJob
         /\ IsOCR(r) => HoldsAttachment(r) /\ ~attachment[tx[r].target].deleted
         /\ tx[r].target \in Targets /\ tx[r].response \in BOOLEAN
<1>1. tx[r].at = "commit" /\ Settling(r) /\ RequestBacked(r)
  BY DEF CommitJob, Running, At, Settling, AIJobsInv
<1>2. tx[r] \in RunRequests
  BY <1>1, RunShape DEF AIJobsInv
<1>3. tx[r].status \in {"completed", "failed"}
  BY <1>1, <1>2 DEF RequestBacked, At, RunRequests, JobStatuses
<1>4. IsOCR(r) => HoldsAttachment(r)
  BY <1>1 DEF HoldsAttachment
<1> QED BY <1>1, <1>2, <1>3, <1>4 DEF RequestBacked, RunRequests

LEMMA CommitJobKeepsInvariant ==
  ASSUME AIJobsInv, NEW r \in Requests, CommitJob(r)
  PROVE  AIJobsInv'
<1> DEFINE j == tx[r].job  e == tx[r].target
           row == [target |-> e, status |-> tx[r].status, response |-> tx[r].response]
           a2 == [attachment[e] EXCEPT !.ocr = "manual_review",
                                       !.result = IF tx[r].response THEN j ELSE None]
<1>1. /\ AIJobsTypeOK /\ JobsWhole /\ j \in JobIds /\ jobs[j] = NoJob /\ e \in Targets
      /\ tx[r].status \in {"completed", "failed"} /\ tx[r].response \in BOOLEAN /\ Settling(r)
      /\ IsOCR(r) => HoldsAttachment(r) /\ ~attachment[e].deleted
  BY CommitShape DEF AIJobsInv
<1>2. /\ row \in JobRows /\ row # NoJob /\ row.target = e /\ row.status = tx[r].status
      /\ row.status # "processing"
  <2>1. row \in JobRows /\ row.target = e /\ row.status = tx[r].status
    BY <1>1 DEF JobRows, JobStatuses
  <2>2. "status" \in DOMAIN row /\ "status" \notin DOMAIN NoJob
    BY DEF NoJob
  <2> HIDE DEF row
  <2> QED BY <1>1, <2>1, <2>2
<1> HIDE DEF row
<1>3. /\ jobs' = [jobs EXCEPT ![j] = row]
      /\ attachment' = IF IsOCR(r)
                       THEN [attachment EXCEPT ![e].ocr = "manual_review",
                                               ![e].result = IF tx[r].response THEN j ELSE None]
                       ELSE attachment
      /\ timeline' = IF tx[r].status = "completed" THEN timeline \cup {j} ELSE timeline
      /\ tx' = [tx EXCEPT ![r] = Idle]
  BY DEF CommitJob, Reply, row
<1>4. /\ jobs' \in [JobIds -> JobRows \cup {NoJob}] /\ jobs'[j] = row
      /\ \A i \in JobIds \ {j} : jobs'[i] = jobs[i]
  BY <1>1, <1>2, <1>3 DEF AIJobsTypeOK
<1>5. /\ attachment' \in [Attachments -> AttachmentRows]
      /\ \A a \in Attachments : attachment'[a].deleted = attachment[a].deleted
      /\ \A a \in Attachments : attachment'[a] = attachment[a] \/
           /\ IsOCR(r) /\ a = e /\ attachment'[a].ocr = "manual_review"
           /\ attachment'[a].result \in {j, None}
  <2>1. CASE ~IsOCR(r)
    BY <1>1, <1>3, <2>1 DEF AIJobsTypeOK
  <2>2. CASE IsOCR(r)
    <3>1. e \in Attachments /\ attachment[e] \in AttachmentRows
      BY <1>1, <2>2 DEF IsOCR, AIJobsTypeOK
    <3>2. attachment'[e] = a2 /\ \A a \in Attachments \ {e} : attachment'[a] = attachment[a]
      BY <1>1, <1>3, <2>2, <3>1 DEF AIJobsTypeOK
    <3>3. /\ a2 \in AttachmentRows /\ a2.deleted = attachment[e].deleted
          /\ a2.ocr = "manual_review" /\ a2.result \in {j, None}
      BY <1>1, <3>1 DEF AttachmentRows
    <3>4. attachment' = [attachment EXCEPT ![e] = a2]
      BY <1>1, <1>3, <2>2, <3>1 DEF AIJobsTypeOK
    <3> HIDE DEF a2, e, j
    <3> QED BY <1>1, <2>2, <3>1, <3>2, <3>3, <3>4 DEF AIJobsTypeOK
  <2> QED BY <2>1, <2>2
<1>6. /\ tx' \in [Requests -> RunRequests \cup DeleteRequests \cup {Idle}]
      /\ tx'[r].at = "idle" /\ \A o \in Requests \ {r} : tx'[o] = tx[o]
  BY <1>1, <1>3 DEF AIJobsTypeOK, Idle
<1>7. AIJobsTypeOK'
  BY <1>1, <1>3, <1>4, <1>5, <1>6 DEF AIJobsTypeOK
<1>8. JobsWhole'
  <2>1. \A i \in JobIds : jobs'[i] # NoJob => jobs'[i].status # "processing"
    BY <1>1, <1>2, <1>4 DEF JobsWhole
  <2>2. \A i \in JobIds : i \in timeline' <=> jobs'[i] # NoJob /\ jobs'[i].status = "completed"
    <3> SUFFICES ASSUME NEW i \in JobIds
                 PROVE  i \in timeline' <=> jobs'[i] # NoJob /\ jobs'[i].status = "completed"
      OBVIOUS
    <3>1. j \notin timeline
      BY <1>1 DEF JobsWhole
    <3>2. CASE i = j
      BY <1>2, <1>3, <1>4, <3>1, <3>2
    <3>3. CASE i # j
      BY <1>1, <1>3, <1>4, <3>3 DEF JobsWhole
    <3> QED BY <3>2, <3>3
  <2>3. ASSUME NEW a \in Attachments
        PROVE  /\ attachment'[a].ocr # "processing"
               /\ attachment'[a].result # None =>
                    /\ jobs'[attachment'[a].result] # NoJob
                    /\ jobs'[attachment'[a].result].target = a
    <3>1. CASE attachment'[a] = attachment[a]
      <4>1. attachment[a].result \in JobIds \cup {None}
        BY <1>1 DEF AIJobsTypeOK, AttachmentRows
      <4> QED BY <1>1, <1>4, <3>1, <4>1 DEF JobsWhole
    <3>2. CASE a = e /\ attachment'[a].ocr = "manual_review" /\ attachment'[a].result \in {j, None}
      BY <1>2, <1>4, <3>2
    <3> QED BY <1>5, <3>1, <3>2
  <2> QED BY <2>1, <2>2, <2>3 DEF JobsWhole
<1>9. JobsApart'
  BY <1>6 DEF AIJobsInv, JobsApart, Settling
<1>10. ASSUME NEW o \in Requests PROVE RequestBacked(o)'
  <2>1. CASE o = r
    BY <1>6, <2>1 DEF RequestBacked, Settling, At, HoldsAttachment
  <2>2. CASE o # r
    <3>1. RequestBacked(o) /\ tx'[o] = tx[o] /\ (Settling(o) => tx[o].job # j)
      BY <1>1, <1>6, <2>2 DEF AIJobsInv, JobsApart
    <3>2. HoldsAttachment(o) => tx[o].target \in Attachments
      BY DEF HoldsAttachment, IsOCR
    <3> QED BY <1>4, <1>5, <3>1, <3>2 DEF RequestBacked, Settling, At, HoldsAttachment, IsOCR
  <2> QED BY <2>1, <2>2
<1> QED BY <1>7, <1>8, <1>9, <1>10 DEF AIJobsInv
-------------------------------------------------------------------------------
LEMMA CommitDeleteKeepsInvariant ==
  ASSUME AIJobsInv, NEW r \in Requests, CommitDelete(r)
  PROVE  AIJobsInv'
<1> DEFINE e == tx[r].target  gone == [attachment[e] EXCEPT !.deleted = TRUE]
<1>1. /\ AIJobsTypeOK /\ JobsWhole /\ e \in Attachments /\ AttachmentFree(r)
      /\ UNCHANGED <<jobs, timeline>> /\ tx' = [tx EXCEPT ![r] = Idle]
      /\ attachment' = [attachment EXCEPT ![e].deleted = TRUE]
  BY DeleteShape DEF CommitDelete, AIJobsInv, Reply
<1>2. /\ attachment'[e] = gone /\ \A a \in Attachments \ {e} : attachment'[a] = attachment[a]
      /\ attachment' = [attachment EXCEPT ![e] = gone]
  BY <1>1 DEF AIJobsTypeOK
<1>3. /\ gone \in AttachmentRows /\ gone.ocr = attachment[e].ocr
      /\ gone.result = attachment[e].result
  BY <1>1 DEF AIJobsTypeOK, AttachmentRows
<1>4. /\ attachment' \in [Attachments -> AttachmentRows]
      /\ \A a \in Attachments : /\ attachment'[a].ocr = attachment[a].ocr
                                /\ attachment'[a].result = attachment[a].result
  <2> HIDE DEF gone, e
  <2> QED BY <1>1, <1>2, <1>3 DEF AIJobsTypeOK
<1>5. /\ tx' \in [Requests -> RunRequests \cup DeleteRequests \cup {Idle}]
      /\ tx'[r].at = "idle" /\ \A o \in Requests \ {r} : tx'[o] = tx[o]
  BY <1>1 DEF AIJobsTypeOK, Idle
<1>6. AIJobsTypeOK'
  BY <1>1, <1>4, <1>5 DEF AIJobsTypeOK
<1>7. JobsWhole'
  BY <1>1, <1>4 DEF JobsWhole
<1>8. JobsApart'
  BY <1>5 DEF AIJobsInv, JobsApart, Settling
<1>9. ASSUME NEW o \in Requests PROVE RequestBacked(o)'
  <2>1. CASE o = r
    BY <1>5, <2>1 DEF RequestBacked, Settling, At, HoldsAttachment
  <2>2. CASE o # r
    <3>1. RequestBacked(o) /\ tx'[o] = tx[o]
      BY <1>5, <2>2 DEF AIJobsInv
    <3>2. HoldsAttachment(o) => tx[o].target \in Attachments /\ tx[o].target # e
      BY <1>1, <2>2 DEF AttachmentFree, HoldsAttachment, IsOCR
    <3>3. HoldsAttachment(o) => attachment'[tx[o].target] = attachment[tx[o].target]
      BY <1>2, <3>2
    <3> QED BY <1>1, <3>1, <3>2, <3>3 DEF RequestBacked, Settling, At, HoldsAttachment, IsOCR
  <2> QED BY <2>1, <2>2
<1> QED BY <1>6, <1>7, <1>8, <1>9 DEF AIJobsInv

LEMMA NextKeepsInvariant ==
  ASSUME AIJobsInv, AIJobsNext
  PROVE  AIJobsInv'
<1>1. ASSUME NEW r \in Requests, Serve(r) PROVE AIJobsInv'
  BY <1>1, ReadsKeepInvariant, StartJobKeepsInvariant, HeldStepsKeepInvariant,
     CommitJobKeepsInvariant, CommitDeleteKeepsInvariant DEF Serve
<1>2. ASSUME NEW r \in Requests, ConnectTimeout(r) \/ RollbackJob(r) PROVE AIJobsInv'
  BY <1>2, ReplyKeepsInvariant DEF ConnectTimeout, RollbackJob
<1> QED BY <1>1, <1>2, ArrivalKeepsInvariant, HeldStepsKeepInvariant DEF AIJobsNext

LEMMA InitEstablishesInvariant ==
  ASSUME AIJobsInit
  PROVE  AIJobsInv
<1>1. \A r \in Requests : tx[r].at = "idle"
  BY DEF AIJobsInit, Idle
<1>2. AIJobsTypeOK
  <2>1. [ocr |-> "pending", result |-> None, deleted |-> FALSE] \in AttachmentRows
    BY DEF AttachmentRows
  <2> QED BY <2>1 DEF AIJobsInit, AIJobsTypeOK
<1>3. JobsWhole
  BY DEF AIJobsInit, JobsWhole
<1>4. JobsApart /\ \A r \in Requests : RequestBacked(r)
  BY <1>1 DEF JobsApart, RequestBacked, Settling, At, HoldsAttachment
<1> QED BY <1>2, <1>3, <1>4 DEF AIJobsInv

(* What no step may do: touch a deleted attachment, or store a job of it.  *)
LEMMA StepLeavesDeleted ==
  ASSUME AIJobsInv, AIJobsNext, NEW a \in Attachments, attachment[a].deleted
  PROVE  /\ attachment'[a] = attachment[a]
         /\ \A j \in JobIds : jobs[j] = NoJob => jobs'[j] = NoJob \/ jobs'[j].target # a
<1>1. ASSUME NEW r \in Requests, CommitJob(r)
      PROVE  /\ attachment'[a] = attachment[a]
             /\ \A j \in JobIds : jobs[j] = NoJob => jobs'[j] = NoJob \/ jobs'[j].target # a
  <2> DEFINE e == tx[r].target
  <2>1. /\ tx[r].job \in JobIds /\ AIJobsTypeOK
        /\ IsOCR(r) => ~attachment[e].deleted
    BY <1>1, CommitShape DEF AIJobsInv
  <2>2. a # e
    BY <2>1 DEF IsOCR
  <2>3. attachment'[a] = attachment[a]
    BY <1>1, <2>1, <2>2 DEF CommitJob, AIJobsTypeOK
  <2>4. ASSUME NEW j \in JobIds, jobs[j] = NoJob
        PROVE  jobs'[j] = NoJob \/ jobs'[j].target # a
    <3>1. CASE j = tx[r].job
      <4>1. jobs'[j].target = e
        BY <1>1, <2>1, <3>1 DEF CommitJob, AIJobsTypeOK
      <4> QED BY <2>2, <4>1
    <3>2. CASE j # tx[r].job
      BY <1>1, <2>1, <2>4, <3>2 DEF CommitJob, AIJobsTypeOK
    <3> QED BY <3>1, <3>2
  <2> QED BY <2>3, <2>4
<1>2. ASSUME NEW r \in Requests, CommitDelete(r)
      PROVE  attachment'[a] = attachment[a] /\ jobs' = jobs
  <2>1. tx[r].target \in Attachments /\ AIJobsTypeOK
    BY <1>2, DeleteShape DEF CommitDelete, AIJobsInv
  <2>2. attachment[a] = [attachment[a] EXCEPT !.deleted = TRUE]
    BY <2>1 DEF AIJobsTypeOK, AttachmentRows
  <2>3. attachment'[a] = attachment[a] \/ attachment'[a] = [attachment[a] EXCEPT !.deleted = TRUE]
    BY <1>2, <2>1 DEF CommitDelete, AIJobsTypeOK
  <2> QED BY <1>2, <2>2, <2>3 DEF CommitDelete
<1>3. CASE UNCHANGED <<attachment, jobs>>
  BY <1>3
<1> QED BY <1>1, <1>2, <1>3
        DEF AIJobsNext, Serve, RequestJob, RequestDelete, Connect, ConnectTimeout, ReadTarget,
            StartJob, ProviderAnswers, ProviderFails, PostMessage, MessageRefused, RollbackJob
-------------------------------------------------------------------------------
(* What a request works on is its own until it commits.                    *)
THEOREM AIJobsInvariant == AIJobsSpec => []AIJobsInv
<1>1. AIJobsInv /\ UNCHANGED aiVars => AIJobsInv'
  BY DEF aiVars, AIJobsInv, AIJobsTypeOK, JobsWhole, JobsApart, RequestBacked, Settling, At,
         HoldsAttachment, IsOCR
<1>2. AIJobsInv /\ [AIJobsNext]_aiVars => AIJobsInv'
  BY <1>1, NextKeepsInvariant
<1> QED BY <1>2, InitEstablishesInvariant, PTL DEF AIJobsSpec

(* Attachments, jobs and requests have their types.                        *)
THEOREM AIJobsTypeCorrect == AIJobsSpec => []AIJobsTypeOK
<1>1. AIJobsInv => AIJobsTypeOK
  BY DEF AIJobsInv
<1> QED BY <1>1, AIJobsInvariant, PTL

(* A job is seen whole or not at all, and the timeline tells of exactly    *)
(* the completed ones.                                                     *)
THEOREM JobsAreWhole == AIJobsSpec => []JobsWhole
<1>1. AIJobsInv => JobsWhole
  BY DEF AIJobsInv
<1> QED BY <1>1, AIJobsInvariant, PTL

(* A deleted attachment is not touched by a job that began before it was   *)
(* deleted.                                                                *)
THEOREM DeletedStaysUntouched == AIJobsSpec => DeletedUntouched
<1>1. AIJobsInv /\ [AIJobsNext]_aiVars =>
        [\A a \in Attachments : attachment[a].deleted =>
           /\ attachment'[a] = attachment[a]
           /\ \A j \in JobIds : jobs[j] = NoJob => jobs'[j] = NoJob \/ jobs'[j].target # a]_aiVars
  BY StepLeavesDeleted
<1> QED BY <1>1, AIJobsInvariant, PTL DEF AIJobsSpec, DeletedUntouched
===============================================================================
