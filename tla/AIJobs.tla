--------------------------------- MODULE AIJobs ---------------------------------
(***************************************************************************)
(* AIOrchestrationService beside the deletion of attachments: a request    *)
(* waits for a client of the pool, and in one transaction creates an AI    *)
(* job, calls the provider, settles the job and tells the case's timeline. *)
(* OCR of an attachment first marks it as processing, and so holds its row *)
(* until the COMMIT; the timeline's message holds the row of the case.     *)
(* All the while the request keeps its client.                             *)
(***************************************************************************)
EXTENDS Naturals, FiniteSets

CONSTANTS Requests,         \* the HTTP requests the process can be handling
          PoolSize,         \* max of the pool: ten
          Attachments,      \* ids of attachments whose type allows OCR
          Cases,            \* ids of cases
          CaseOf,           \* the case each attachment and each case is of
          JobIds            \* ids of rows of ai_jobs

None == "none"
Targets == Attachments \cup Cases

ASSUME AIJobsAssumption ==
  /\ IsFiniteSet(Requests) /\ IsFiniteSet(JobIds)
  /\ PoolSize \in Nat \ {0}
  /\ Attachments \cap Cases = {}
  /\ CaseOf \in [Targets -> Cases]
  /\ None \notin JobIds

VARIABLES attachment,       \* ocr_status, ocr_result and deleted_at
          jobs,             \* the committed row of each job
          timeline,         \* the jobs the timeline of their case tells of
          tx                \* what each request is doing

aiVars == <<attachment, jobs, timeline, tx>>

Idle == [at |-> "idle"]
NoJob == [target |-> None]
JobStatuses == {"processing", "completed", "failed"}
AttachmentRows == [ocr : {"pending", "processing", "manual_review"},
                   result : JobIds \cup {None}, deleted : BOOLEAN]
JobRows == [target : Targets, status : JobStatuses, response : BOOLEAN]
RunRequests ==
  [op : {"run"}, at : {"connect", "read", "create", "provider", "message", "commit"},
   target : Targets, job : JobIds \cup {None}, status : JobStatuses, response : BOOLEAN]
DeleteRequests == [op : {"delete"}, at : {"connect", "read", "update"}, target : Attachments]

At(r, stage) == tx[r].at = stage
Running(r, stage) == At(r, stage) /\ tx[r].op = "run"
Go(r, stage) == tx' = [tx EXCEPT ![r].at = stage]
Reply(r) == tx' = [tx EXCEPT ![r] = Idle]
IsOCR(r) == tx[r].target \in Attachments

(* The clients in use, and the rows their transactions hold.               *)
Connected == {r \in Requests : tx[r].at \notin {"idle", "connect"}}
HoldsAttachment(r) ==
  tx[r].at \in {"provider", "message", "commit"} /\ IsOCR(r)
HoldsCase(r) == At(r, "commit") /\ tx[r].status = "completed"
AttachmentFree(r) ==
  \A o \in Requests \ {r} : HoldsAttachment(o) => tx[o].target # tx[r].target
CaseFree(r) ==
  \A o \in Requests \ {r} : HoldsCase(o) => CaseOf[tx[o].target] # CaseOf[tx[r].target]

NewJobs ==
  {j \in JobIds : /\ jobs[j] = NoJob
                  /\ \A o \in Requests : tx[o].at # "idle" /\ tx[o].op = "run" => tx[o].job # j}
-------------------------------------------------------------------------------
AIJobsInit ==
  /\ attachment = [a \in Attachments |-> [ocr |-> "pending", result |-> None, deleted |-> FALSE]]
  /\ jobs = [j \in JobIds |-> NoJob]
  /\ timeline = {}
  /\ tx = [r \in Requests |-> Idle]

(* A request arrives and asks the pool for a client.  The ids bound how    *)
(* many jobs there can be.                                                 *)
Created == {j \in JobIds : jobs[j] # NoJob}
Creating == {r \in Requests : ~At(r, "idle") /\ tx[r].op = "run"}
RequestJob(r, e) ==
  /\ At(r, "idle")
  /\ Cardinality(Created) + Cardinality(Creating) < Cardinality(JobIds)
  /\ tx' = [tx EXCEPT ![r] = [op |-> "run", at |-> "connect", target |-> e, job |-> None,
                              status |-> "processing", response |-> FALSE]]
  /\ UNCHANGED <<attachment, jobs, timeline>>
RequestDelete(r, a) ==
  /\ At(r, "idle")
  /\ tx' = [tx EXCEPT ![r] = [op |-> "delete", at |-> "connect", target |-> a]]
  /\ UNCHANGED <<attachment, jobs, timeline>>

(* pool.connect, or its timeout after five seconds.                        *)
Connect(r) ==
  /\ At(r, "connect") /\ Cardinality(Connected) < PoolSize
  /\ Go(r, "read")
  /\ UNCHANGED <<attachment, jobs, timeline>>
ConnectTimeout(r) ==
  /\ At(r, "connect") /\ Cardinality(Connected) >= PoolSize
  /\ Reply(r)
  /\ UNCHANGED <<attachment, jobs, timeline>>

(* ensureAttachmentWithCase, ensureCase, ensureServiceReportWithCase       *)
ReadTarget(r) ==
  /\ At(r, "read")
  /\ \/ IsOCR(r) /\ attachment[tx[r].target].deleted /\ Reply(r)
     \/ /\ IsOCR(r) => ~attachment[tx[r].target].deleted
        /\ Go(r, IF tx[r].op = "run" THEN "create" ELSE "update")
  /\ UNCHANGED <<attachment, jobs, timeline>>

(* updateAttachmentStatus of an OCR, which waits for the row, and          *)
(* createJob.  If the attachment was deleted meanwhile, no row is updated, *)
(* and the audit of it throws.  A slip would go on without the row.        *)
CreateJob(r) ==
  /\ NewJobs # {}
  /\ tx' = [tx EXCEPT ![r].at = "provider", ![r].job = CHOOSE j \in NewJobs : TRUE]
StartJobAnyway(r) ==
  /\ Running(r, "create")
  /\ IsOCR(r) => AttachmentFree(r)
  /\ CreateJob(r)
  /\ UNCHANGED <<attachment, jobs, timeline>>
StartJob(r) ==
  /\ Running(r, "create")
  /\ IsOCR(r) => AttachmentFree(r)
  /\ \/ IsOCR(r) /\ attachment[tx[r].target].deleted /\ Reply(r)
     \/ (IsOCR(r) => ~attachment[tx[r].target].deleted) /\ CreateJob(r)
  /\ UNCHANGED <<attachment, jobs, timeline>>

(* providerCall: an answer, or an error, which is kept in the job.         *)
ProviderAnswers(r) ==
  /\ Running(r, "provider")
  /\ tx' = [tx EXCEPT ![r].at = "message", ![r].status = "completed", ![r].response = TRUE]
  /\ UNCHANGED <<attachment, jobs, timeline>>
ProviderFails(r) ==
  /\ Running(r, "provider")
  /\ tx' = [tx EXCEPT ![r].at = "commit", ![r].status = "failed"]
  /\ UNCHANGED <<attachment, jobs, timeline>>

(* createMessage: the message, and touchInternalActivity, which waits for  *)
(* the row of the case.  If the case is gone or no longer the actor's, the *)
(* completed job is marked failed, and keeps its response.  Slips would    *)
(* not pass the client on: the message is committed at once, or waits for  *)
(* a client of its own.                                                    *)
PostOnPool(r) ==
  /\ Running(r, "message") /\ CaseFree(r)
  /\ timeline' = timeline \cup {tx[r].job}
  /\ Go(r, "commit")
  /\ UNCHANGED <<attachment, jobs>>
PostOnSecondClient(r) ==
  /\ Running(r, "message") /\ CaseFree(r) /\ Cardinality(Connected) < PoolSize
  /\ Go(r, "commit")
  /\ UNCHANGED <<attachment, jobs, timeline>>
PostMessage(r) ==
  /\ Running(r, "message") /\ CaseFree(r)
  /\ Go(r, "commit")
  /\ UNCHANGED <<attachment, jobs, timeline>>
MessageRefused(r) ==
  /\ Running(r, "message")
  /\ tx' = [tx EXCEPT ![r].at = "commit", ![r].status = "failed"]
  /\ UNCHANGED <<attachment, jobs, timeline>>

(* updateAttachmentOcrResult, which stores NULL if there is no response,   *)
(* and COMMIT.                                                             *)
CommitJob(r) ==
  LET j == tx[r].job  e == tx[r].target IN
  /\ Running(r, "commit")
  /\ attachment' = IF IsOCR(r)
                   THEN [attachment EXCEPT ![e].ocr = "manual_review",
                                           ![e].result = IF tx[r].response THEN j ELSE None]
                   ELSE attachment
  /\ jobs' = [jobs EXCEPT ![j] = [target |-> e, status |-> tx[r].status,
                                  response |-> tx[r].response]]
  /\ timeline' = IF tx[r].status = "completed" THEN timeline \cup {j} ELSE timeline
  /\ Reply(r)

(* softDeleteAttachment.  If another request deleted it meanwhile, no row  *)
(* is updated, and the audit of it throws.                                 *)
CommitDelete(r) ==
  /\ At(r, "update") /\ AttachmentFree(r)
  /\ attachment' = [attachment EXCEPT ![tx[r].target].deleted = TRUE]
  /\ Reply(r)
  /\ UNCHANGED <<jobs, timeline>>

(* A statement fails: in an aborted transaction the handler of the error   *)
(* cannot mark the job as failed, and everything is rolled back.           *)
RollbackJob(r) ==
  /\ r \in Connected
  /\ Reply(r)
  /\ UNCHANGED <<attachment, jobs, timeline>>

(* What goes on by itself once a request has arrived.                      *)
Serve(r) ==
  \/ Connect(r) \/ ReadTarget(r) \/ StartJob(r) \/ ProviderAnswers(r) \/ ProviderFails(r)
  \/ PostMessage(r) \/ CommitJob(r) \/ CommitDelete(r)
AIJobsNext ==
  \E r \in Requests :
    \/ \E e \in Targets : RequestJob(r, e)
    \/ \E a \in Attachments : RequestDelete(r, a)
    \/ Serve(r) \/ ConnectTimeout(r) \/ MessageRefused(r) \/ RollbackJob(r)

AIJobsSpec == AIJobsInit /\ [][AIJobsNext]_aiVars

(* The pool and the rows are granted in the order of arrival, and a        *)
(* provider answers or fails.                                              *)
AIJobsFairSpec == AIJobsSpec /\ \A r \in Requests : SF_aiVars(Serve(r))
-------------------------------------------------------------------------------
AIJobsTypeOK ==
  /\ attachment \in [Attachments -> AttachmentRows]
  /\ jobs \in [JobIds -> JobRows \cup {NoJob}]
  /\ timeline \subseteq JobIds
  /\ tx \in [Requests -> RunRequests \cup DeleteRequests \cup {Idle}]

(* A job is seen whole or not at all: settled, told of in the timeline if  *)
(* and only if it completed, and the result an attachment shows is that of *)
(* a job of its own.  No attachment is left in the state of processing.    *)
JobsWhole ==
  /\ \A j \in JobIds : jobs[j] # NoJob => jobs[j].status # "processing"
  /\ \A j \in JobIds : j \in timeline <=> jobs[j] # NoJob /\ jobs[j].status = "completed"
  /\ \A a \in Attachments :
       /\ attachment[a].ocr # "processing"
       /\ attachment[a].result # None =>
            /\ jobs[attachment[a].result] # NoJob
            /\ jobs[attachment[a].result].target = a

(* No job is run for an attachment that is deleted, and no result stored   *)
(* in it, although it may have been there when the request read it.        *)
DeletedUntouched ==
  [][\A a \in Attachments : attachment[a].deleted =>
       /\ attachment'[a] = attachment[a]
       /\ \A j \in JobIds : jobs[j] = NoJob => jobs'[j] = NoJob \/ jobs'[j].target # a]_aiVars

(* Every request is answered, although each of them keeps a client while   *)
(* it waits for a row or for the provider.                                 *)
AIAnswers == \A r \in Requests : tx[r] # Idle ~> tx[r] = Idle
-------------------------------------------------------------------------------
(* The invariant of the proofs: what a request works on is its own until   *)
(* it commits, and an attachment it holds cannot be deleted meanwhile.     *)
Settling(r) == tx[r].at \in {"provider", "message", "commit"}
RequestBacked(r) ==
  /\ Settling(r) => tx[r].job \in JobIds /\ jobs[tx[r].job] = NoJob
  /\ At(r, "message") => tx[r].status = "completed"
  /\ At(r, "commit") => tx[r].status # "processing"
  /\ HoldsAttachment(r) => ~attachment[tx[r].target].deleted
JobsApart ==
  \A r, o \in Requests : Settling(r) /\ Settling(o) /\ r # o => tx[r].job # tx[o].job

AIJobsInv ==
  /\ AIJobsTypeOK /\ JobsWhole /\ JobsApart
  /\ \A r \in Requests : RequestBacked(r)
===============================================================================
