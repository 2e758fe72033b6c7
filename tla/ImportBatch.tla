---------------------------- MODULE ImportBatch ----------------------------
(***************************************************************************)
(* An Import Batch of the Managed Import: its files are uploaded, retried  *)
(* and cancelled, the Batch is confirmed, cancelled or left behind, and a  *)
(* ticker removes what nobody keeps alive.                                 *)
(* src/server/src/modules/managed_import/{service,repository,handlers}.rs  *)
(* and the client's src/web/src/routes/library/tracks/                     *)
(* -managed-import-workflow.ts.                                            *)
(*                                                                         *)
(* What ImportCommit and TrackFiles show step by step, the import of one   *)
(* file, is one step here.  An upload and a confirmation are detached      *)
(* tasks that see their client go away as a cancellation; a cancellation   *)
(* of a Batch or a file is not, and stops where it waits.                  *)
(***************************************************************************)
EXTENDS Integers, FiniteSets

CONSTANTS
  Files,        \* the Batch's files
  Sizes,        \* sizes an upload may have
  BatchLimit,   \* batch_limit, in the same unit
  MaxUploads, MaxLosses, MaxFaults, MaxCancels   \* bounds

\* What the proofs assume of them; the bounds may be anything.
ConstantsOK == IsFiniteSet(Files) /\ Sizes \subseteq Nat /\ BatchLimit \in Nat

VARIABLES
  batch,      \* managed_import_batches: status, revision; updated_at as stale or not
  job,        \* managed_import_jobs, one for each file
  disk,       \* files with a file in staging
  upload,     \* the upload handler of each file, and ActiveState.uploads
  canceling,  \* ActiveState.canceling
  task,       \* who holds batch_lock and how far it is
  client,     \* the Playback Client that made the Batch
  confirmed,  \* the revision of the confirmation that began (history)
  overtaken,  \* an upload was past its check when the confirmation began (history)
  counts      \* uploads, losses, faults and cancels so far

vars == <<batch, job, disk, upload, canceling, task, client, confirmed, overtaken, counts>>

NoUpload == [stage |-> "none", cancelled |-> FALSE, fresh |-> FALSE, size |-> 0]
NoTask == [kind |-> "none", step |-> "none", scope |-> {}, waits |-> {}, cancelled |-> FALSE, chosen |-> {}, staged |-> {}]
NewJob == [status |-> "uploading", error |-> "none", outcome |-> "none", selected |-> FALSE, size |-> 0, staged |-> FALSE]

\* canConfirm, isCloseLocked: the page offers nothing once its Batch is confirming.
Unlocked == client.here /\ ~client.locked

\* handleConfirm: whatever comes of it, the page shows the Batch as confirming from here.
LocksClient == client' = [client EXCEPT !.locked = TRUE]

Gone(f) == job[f].status = "gone"
Active(f) == upload[f].stage # "none"
Count(what) == counts' = [counts EXCEPT ![what] = @ + 1]
Ends == task' = NoTask

\* SUM(size): as many as the units of all of them.
SizeOf(files) == Cardinality(UNION {{f} \X (1..job[f].size) : f \in files})

\* revise_batch: every change of a file is a new revision and a sign of life.
Revised == [batch EXCEPT !.revision = @ + 1, !.stale = FALSE]
RevisedWhileUploading == IF batch.status = "uploading" THEN Revised ELSE batch

-----------------------------------------------------------------------------
(* Uploads.  One at a time for each file, behind its upload lock. *)

\* upload: the lock, then the registration; a file that is being cancelled is
\* cancelled from the start.
UploadStarts(f) ==
  /\ Unlocked /\ counts.uploads < MaxUploads
  /\ ~Active(f) /\ ~(f \in task.scope /\ task.step = "locked")
  /\ upload' = [upload EXCEPT ![f] = [NoUpload EXCEPT !.stage = "started", !.cancelled = f \in canceling, !.fresh = TRUE]]
  /\ Count("uploads")
  /\ UNCHANGED <<batch, job, disk, canceling, task, client, confirmed, overtaken>>

Stage(f, stage) == upload' = [upload EXCEPT ![f].stage = stage]
FinishUpload(f) == upload' = [upload EXCEPT ![f] = NoUpload]

\* get_uploading_job, unless it was cancelled before it began.
UploadChecks(f) ==
  /\ upload[f].stage = "started"
  /\ IF upload[f].cancelled \/ job[f].status # "uploading" \/ batch.status # "uploading"
     THEN FinishUpload(f) ELSE Stage(f, "checked")
  /\ UNCHANGED <<batch, job, disk, canceling, task, client, confirmed, overtaken, counts>>

\* The file's size and what its siblings have reserved stay within the limit.
Fits(f, size) == size + SizeOf(Files \ {f}) <= BatchLimit

\* mark_failed: only a file that is still open; the Batch is revised while it is.
Reject(f) ==
  IF job[f].status \in {"uploading", "awaiting"}
  THEN /\ job' = [job EXCEPT ![f] = [@ EXCEPT !.status = "failed", !.outcome = "rejected", !.selected = FALSE, !.staged = FALSE]]
       /\ batch' = RevisedWhileUploading
  ELSE UNCHANGED <<job, batch>>

\* mark_upload_interrupted: the file may be sent again.
Interrupt(f) ==
  IF job[f].status = "uploading"
  THEN /\ job' = [job EXCEPT ![f] = [@ EXCEPT !.error = "interrupted", !.selected = FALSE, !.staged = FALSE, !.size = 0]]
       /\ batch' = Revised
  ELSE UNCHANGED <<job, batch>>

\* reserve_batch_upload: one statement that looks at the file, not at its Batch.
UploadReserves(f) ==
  /\ upload[f].stage = "checked"
  /\ \E size \in Sizes :
       IF job[f].status = "uploading" /\ Fits(f, size)
       THEN /\ job' = [job EXCEPT ![f].size = size, ![f].error = "none"]
            /\ upload' = [upload EXCEPT ![f].stage = "receiving", ![f].size = size]
            /\ UNCHANGED batch
       ELSE Reject(f) /\ FinishUpload(f)
  /\ UNCHANGED <<disk, canceling, task, client, confirmed, overtaken, counts>>

\* The body has come and lies in staging.
UploadStages(f) ==
  /\ upload[f].stage = "receiving" /\ ~upload[f].cancelled
  /\ disk' = disk \cup {f}
  /\ upload' = [upload EXCEPT ![f].stage = "staged", ![f].fresh = TRUE]
  /\ UNCHANGED <<batch, job, canceling, task, client, confirmed, overtaken, counts>>

\* handle_upload_failure, retryable: the body broke off, or a cancellation was seen.
UploadInterrupted(f) ==
  /\ upload[f].stage \in {"receiving", "staged"} /\ upload[f].cancelled
  /\ disk' = disk \ {f}
  /\ Interrupt(f)
  /\ FinishUpload(f)
  /\ UNCHANGED <<canceling, task, client, confirmed, overtaken, counts>>

\* The Strict Import Profile refuses the file.
UploadRefused(f) ==
  /\ upload[f].stage = "staged" /\ ~upload[f].cancelled
  /\ disk' = disk \ {f}
  /\ Reject(f)
  /\ FinishUpload(f)
  /\ UNCHANGED <<canceling, task, client, confirmed, overtaken, counts>>

\* mark_exact_duplicate, remove_staged, clear_staged_file: the same bytes are in the
\* library.  A file that cannot be removed keeps its path in the row.
UploadDuplicate(f) ==
  /\ upload[f].stage = "staged" /\ job[f].status = "uploading"
  /\ \E kept \in BOOLEAN :
       /\ IF kept THEN counts.faults < MaxFaults /\ Count("faults") ELSE UNCHANGED counts
       /\ job' = [job EXCEPT ![f] = [@ EXCEPT !.status = "failed", !.error = "duplicate", !.outcome = "rejected",
                                              !.selected = FALSE, !.staged = kept, !.size = IF kept THEN upload[f].size ELSE 0]]
       /\ disk' = IF kept THEN disk ELSE disk \ {f}
  /\ batch' = RevisedWhileUploading
  /\ FinishUpload(f)
  /\ UNCHANGED <<canceling, task, client, confirmed, overtaken>>

\* mark_preview; the inspection may end before it sees a cancellation.
UploadPreviewed(f) ==
  /\ upload[f].stage = "staged"
  /\ IF job[f].status = "uploading" /\ Fits(f, upload[f].size)
     THEN /\ job' = [job EXCEPT ![f] = [@ EXCEPT !.status = "awaiting", !.error = "none", !.outcome = "none",
                                                 !.selected = TRUE, !.staged = TRUE, !.size = upload[f].size]]
          /\ batch' = Revised
          /\ UNCHANGED disk
     ELSE Reject(f) /\ disk' = disk \ {f}
  /\ FinishUpload(f)
  /\ UNCHANGED <<canceling, task, client, confirmed, overtaken, counts>>

\* The request goes away; the detached upload learns of it through its token.
UploadLost(f) ==
  /\ Active(f) /\ ~upload[f].cancelled /\ counts.losses < MaxLosses
  /\ upload' = [upload EXCEPT ![f].cancelled = TRUE]
  /\ Count("losses")
  /\ UNCHANGED <<batch, job, disk, canceling, task, client, confirmed, overtaken>>

-----------------------------------------------------------------------------
(* Cancellation: of the Batch, of a file, and of what is inactive. *)

Open == batch.status \in {"uploading", "confirming"}
Inactive(scope) == batch.stale /\ \A f \in scope : ~(Active(f) /\ upload[f].fresh)

\* batch_lock is taken and quiesce_uploads marks the files and cancels their uploads.
BeginCancel(kind, scope) ==
  /\ task = NoTask /\ Open
  /\ task' = [NoTask EXCEPT !.kind = kind, !.step = "waiting", !.scope = scope, !.waits = {f \in scope : Active(f)}]
  /\ canceling' = canceling \cup scope
  /\ upload' = [f \in Files |-> IF f \in scope /\ Active(f) THEN [upload[f] EXCEPT !.cancelled = TRUE] ELSE upload[f]]

CancelBatch ==
  /\ Unlocked /\ counts.cancels < MaxCancels
  /\ BeginCancel("batch", {f \in Files : ~Gone(f)})
  /\ Count("cancels")
  /\ UNCHANGED <<batch, job, disk, client, confirmed, overtaken>>

\* prepareConfirmationBatch cancels the files whose upload never came through.
CancelFile(f) ==
  /\ Unlocked /\ counts.cancels < MaxCancels
  /\ job[f].status = "uploading" /\ batch.status = "uploading"
  /\ BeginCancel("file", {f})
  /\ Count("cancels")
  /\ UNCHANGED <<batch, job, disk, client, confirmed, overtaken>>

\* list_uncommitted_batch_ids.
Listed == batch.status \in {"uploading", "confirming"}

\* cleanup_inactive lists a Batch that is stale; an upload with recent activity keeps it.
CleanUp ==
  /\ Listed /\ Inactive({f \in Files : ~Gone(f)})
  /\ BeginCancel("cleanup", {f \in Files : ~Gone(f)})
  /\ UNCHANGED <<batch, job, disk, client, confirmed, overtaken, counts>>

\* onExit: the page that goes away asks to cancel with a request that outlives it, and
\* that may be lost.
ExitCancels ==
  /\ client.exits
  /\ BeginCancel("exit", {f \in Files : ~Gone(f)})
  /\ client' = [client EXCEPT !.exits = FALSE]
  /\ UNCHANGED <<batch, job, disk, confirmed, overtaken, counts>>

IsCancel == task.kind \in {"batch", "file", "cleanup", "exit"}

\* The uploads that were running have stopped and the locks of all the files are held.
CancelLocks ==
  /\ IsCancel /\ task.step = "waiting" /\ \A f \in task.scope : ~Active(f)
  /\ task' = [task EXCEPT !.step = "locked"]
  /\ UNCHANGED <<batch, job, disk, upload, canceling, client, confirmed, overtaken, counts>>

\* VALIDATION_CLEANUP_TIMEOUT: an upload does not stop; the cancellation is given up.
CancelGivesUp ==
  /\ IsCancel /\ task.step = "waiting" /\ \E f \in task.waits : Active(f)
  /\ canceling' = canceling \ task.scope
  /\ Ends
  /\ UNCHANGED <<batch, job, disk, upload, client, confirmed, overtaken, counts>>

\* A removal that believes what it saw before the uploads were stopped.
StillInactiveAsListed == TRUE

\* is_batch_uncommitted_before: looked at again under the locks.
StillInactive == task.kind = "cleanup" => batch.stale

Removable(f) == f \in task.scope /\ ~Gone(f) /\ job[f].status # "committed" /\ job[f].staged

\* remove_uncommitted_staging, then delete_batch or delete_job.  Staging that cannot be
\* removed leaves the rows.
CancelRemoves ==
  /\ IsCancel /\ task.step = "locked"
  /\ LET files == {f \in task.scope : ~Gone(f)}
         taken == {f \in files : Removable(f)}
     IN \/ /\ StillInactive
           /\ disk' = disk \ taken
           /\ job' = [f \in Files |-> IF f \in files THEN [NewJob EXCEPT !.status = "gone"] ELSE job[f]]
           /\ batch' = IF task.kind = "file" THEN Revised ELSE [batch EXCEPT !.status = "gone"]
           /\ UNCHANGED counts
        \/ ~StillInactive /\ UNCHANGED <<disk, job, batch, counts>>
        \/ counts.faults < MaxFaults /\ taken # {} /\ Count("faults") /\ UNCHANGED <<disk, job, batch>>
  /\ canceling' = canceling \ task.scope
  /\ Ends
  /\ UNCHANGED <<upload, client, confirmed, overtaken>>

\* The client goes away from its cancellation: the handler is dropped where it waits,
\* and its marks stay.
CancelLost ==
  /\ task.kind \in {"batch", "file"} /\ counts.losses < MaxLosses
  /\ Ends /\ Count("losses")
  /\ UNCHANGED <<batch, job, disk, upload, canceling, client, confirmed, overtaken>>

-----------------------------------------------------------------------------
(* Confirmation. *)

\* Files that are neither accepted nor refused nor broken off.
Unresolved == {f \in Files : job[f].status = "uploading" /\ job[f].error # "interrupted"}
Accepted == {f \in Files : job[f].status = "awaiting"}
Undecided == {f \in Files : ~Gone(f) /\ job[f].outcome = "none"}

\* prepareConfirmationBatch: the client reads the revision it will confirm.
ClientReviews ==
  /\ Unlocked /\ batch.status = "uploading" /\ client.seen # batch.revision
  /\ client' = [client EXCEPT !.seen = batch.revision]
  /\ UNCHANGED <<batch, job, disk, upload, canceling, task, confirmed, overtaken, counts>>

\* confirm_batch_jobs goes through the files as they were listed when it began.
ConfirmTask(rows) ==
  [NoTask EXCEPT !.kind = "confirm", !.step = "file", !.scope = {f \in Files : rows[f].status # "gone" /\ rows[f].outcome = "none"},
                 !.chosen = {f \in Files : rows[f].selected}, !.staged = {f \in Files : rows[f].staged}]

\* confirm_batch of an uploading Batch, at the revision the client saw.
Confirm(selected) ==
  /\ Unlocked /\ task = NoTask /\ batch.status = "uploading"
  /\ selected # {} /\ client.seen = batch.revision /\ Unresolved = {}
  /\ batch' = [Revised EXCEPT !.status = "confirming"]
  /\ job' = [f \in Files |-> [job[f] EXCEPT !.selected = f \in selected]]
  /\ task' = ConfirmTask(job')
  /\ confirmed' = client.seen
  /\ overtaken' = \E f \in Files : upload[f].stage = "checked"
  /\ LocksClient
  /\ UNCHANGED <<disk, upload, canceling, counts>>

Confirming(f) == task.kind = "confirm" /\ f \in task.scope
Finishable(f) == job[f].outcome = "none" /\ (job[f].status = "awaiting" \/ (job[f].status = "uploading" /\ job[f].error = "interrupted"))

Decide(f, status, outcome) ==
  /\ job' = [job EXCEPT ![f] = [@ EXCEPT !.status = status, !.outcome = outcome, !.staged = FALSE]]
  /\ task' = [task EXCEPT !.scope = @ \ {f}]

\* confirm_job_with_edition of a selected file: imported, or a duplicate of what is there.
ConfirmsFile(f) ==
  /\ Confirming(f) /\ f \in task.chosen /\ job[f].status = "awaiting"
  /\ disk' = disk \ {f}
  /\ Decide(f, "committed", "imported") \/ Decide(f, "failed", "rejected")
  /\ UNCHANGED <<batch, upload, canceling, client, confirmed, overtaken, counts>>

\* The listed row names a file in staging.
Dropped(f) == f \in task.staged

\* finish_uncommitted_batch_file: of a file that is not selected, or of one whose import failed.
FinishesFile(f) ==
  /\ Confirming(f) /\ ~task.cancelled /\ Finishable(f)
  /\ disk' = IF Dropped(f) THEN disk \ {f} ELSE disk
  /\ Decide(f, "failed", IF f \in task.chosen THEN "failed" ELSE "not_attempted")
  /\ UNCHANGED <<batch, upload, canceling, client, confirmed, overtaken, counts>>

\* A file that cannot be finished ends the confirmation with an error: the client has
\* gone, the row is no longer as it was, or the disk or the database fails.
ConfirmFails ==
  /\ \E f \in Files :
       /\ Confirming(f)
       /\ \/ (task.cancelled \/ ~Finishable(f)) /\ UNCHANGED counts
          \/ counts.faults < MaxFaults /\ Count("faults")
  /\ Ends
  /\ UNCHANGED <<batch, job, disk, upload, canceling, client, confirmed, overtaken>>

\* complete_batch: when the last file has been looked at.
EveryFileDecided == task.kind = "confirm" /\ task.scope = {}

CompleteBatch ==
  /\ EveryFileDecided
  /\ batch' = [Revised EXCEPT !.status = "completed"]
  /\ Ends
  /\ UNCHANGED <<job, disk, upload, canceling, client, confirmed, overtaken, counts>>

\* start_or_resume_batch: the same confirmation again, for its answer or to go on.
ConfirmAgain ==
  /\ task = NoTask /\ counts.losses < MaxLosses
  /\ batch.status = "confirming" /\ confirmed = batch.revision - 1
  /\ task' = ConfirmTask(job)
  /\ Count("losses")
  /\ UNCHANGED <<batch, job, disk, upload, canceling, client, confirmed, overtaken>>

ConfirmLost ==
  /\ task.kind = "confirm" /\ ~task.cancelled /\ counts.losses < MaxLosses
  /\ task' = [task EXCEPT !.cancelled = TRUE]
  /\ Count("losses")
  /\ UNCHANGED <<batch, job, disk, upload, canceling, client, confirmed, overtaken>>

-----------------------------------------------------------------------------
(* The client and time. *)

\* heartbeat_batch waits for batch_lock.
Heartbeat ==
  /\ client.here /\ task = NoTask /\ Open /\ batch.stale
  /\ batch' = [batch EXCEPT !.stale = FALSE]
  /\ UNCHANGED <<job, disk, upload, canceling, task, client, confirmed, overtaken, counts>>

\* IMPORT_INACTIVITY_TIMEOUT passes without a sign of life.
TimePasses ==
  /\ Open /\ ~batch.stale
  /\ batch' = [batch EXCEPT !.stale = TRUE]
  /\ upload' = [f \in Files |-> [upload[f] EXCEPT !.fresh = FALSE]]
  /\ UNCHANGED <<job, disk, canceling, task, client, confirmed, overtaken, counts>>

\* The page is closed or loses the server for good: its requests go away.
ClientGoes ==
  /\ client.here
  /\ client' = [client EXCEPT !.here = FALSE, !.exits = batch.status = "uploading"]
  /\ upload' = [f \in Files |-> IF Active(f) THEN [upload[f] EXCEPT !.cancelled = TRUE] ELSE upload[f]]
  /\ task' = CASE task.kind = "confirm" -> [task EXCEPT !.cancelled = TRUE]
               [] task.kind \in {"batch", "file"} -> NoTask
               [] OTHER -> task
  /\ UNCHANGED <<batch, job, disk, canceling, confirmed, overtaken, counts>>

Init ==
  /\ batch = [status |-> "uploading", revision |-> 1 + Cardinality(Files), stale |-> FALSE]
  /\ job = [f \in Files |-> NewJob] /\ disk = {} /\ upload = [f \in Files |-> NoUpload]
  /\ canceling = {} /\ task = NoTask
  /\ client = [here |-> TRUE, locked |-> FALSE, exits |-> FALSE, seen |-> 0] /\ confirmed = 0 /\ overtaken = FALSE
  /\ counts = [uploads |-> 0, losses |-> 0, faults |-> 0, cancels |-> 0]

UploadStep(f) ==
  \/ UploadChecks(f) \/ UploadReserves(f) \/ UploadStages(f)
  \/ UploadInterrupted(f) \/ UploadRefused(f) \/ UploadDuplicate(f) \/ UploadPreviewed(f)

TaskStep ==
  \/ CancelLocks \/ CancelRemoves
  \/ (\E f \in Files : ConfirmsFile(f) \/ FinishesFile(f))
  \/ ConfirmFails \/ CompleteBatch

Next ==
  \/ \E f \in Files : UploadStarts(f) \/ UploadStep(f) \/ UploadLost(f) \/ CancelFile(f)
  \/ TaskStep \/ CancelBatch \/ ExitCancels \/ CleanUp \/ CancelGivesUp \/ CancelLost
  \/ ClientReviews \/ (\E selected \in SUBSET Accepted : Confirm(selected)) \/ ConfirmAgain \/ ConfirmLost
  \/ Heartbeat \/ TimePasses \/ ClientGoes

\* Detached tasks run to their end, the ticker keeps ticking, and the time without a sign
\* of life runs out once the client is gone: one that is there sends a heartbeat sooner,
\* unless it was held up.
Fairness ==
  /\ \A f \in Files : WF_vars(UploadStep(f))
  /\ WF_vars(TaskStep) /\ WF_vars(~client.here /\ TimePasses) /\ WF_vars(Heartbeat)
  /\ WF_vars(CleanUp)

Spec == Init /\ [][Next]_vars /\ Fairness

-----------------------------------------------------------------------------
\* TypeOK: the state of the module.
TypeOK ==
  /\ batch.status \in {"uploading", "confirming", "completed", "gone"} /\ batch.revision \in Nat /\ batch.stale \in BOOLEAN
  /\ \A f \in Files :
       /\ job[f].status \in {"uploading", "awaiting", "failed", "committed", "gone"}
       /\ job[f].outcome \in {"none", "imported", "rejected", "failed", "not_attempted"}
       /\ upload[f].stage \in {"none", "started", "checked", "receiving", "staged"}
  /\ disk \subseteq Files /\ canceling \subseteq Files
  /\ task.kind \in {"none", "batch", "file", "cleanup", "exit", "confirm"}

\* StagingIsOwned: a file in staging is always one that its row names or that a running
\* upload will place or remove, however uploads, cancellations of the file or of the
\* Batch, the ticker and a confirmation interleave; so what no one will import does not
\* stay until the next restart.  Unless an upload had read the Batch as uploading just
\* before its confirmation began: its file may be decided from a row without the path.
StagingIsOwned == ~overtaken => \A f \in disk : (~Gone(f) /\ job[f].staged) \/ upload[f].stage = "staged"

\* CompletedIsSettled: in a completed Batch every file has an outcome and nothing of it
\* is left in staging; only a duplicate whose file could not be removed waits for the
\* next restart.
CompletedIsSettled ==
  batch.status = "completed" /\ ~overtaken => Undecided = {} /\ \A f \in Files : job[f].staged => job[f].error = "duplicate"

\* BatchStaysWithinLimit: the files of a Batch never take more than its limit together,
\* although each upload reserves, receives and is previewed apart from its siblings.
BatchStaysWithinLimit == SizeOf({f \in Files : job[f].status \in {"uploading", "awaiting"}}) <= BatchLimit

\* LiveWorkIsKept, of every step: the ticker removes a Batch only if no sign of life has come since the
\* cutoff, also none that came between its listing and the locks (cancel_batch_before).
LiveWorkIsKept ==
  batch.status # "gone" /\ batch'.status = "gone" /\ task.kind = "cleanup" =>
    batch.stale /\ \A f \in Files : ~Gone(f) => ~Active(f)

\* ConfirmationKeepsItsRevision: a Batch that is being confirmed stands one revision
\* above the confirmation, and a completed one two, which is how start_or_resume_batch
\* and confirm_batch know a repeated confirmation; unless an upload had read the Batch
\* as uploading just before the confirmation began.
ConfirmationKeepsItsRevision ==
  ~overtaken =>
    /\ batch.status = "confirming" => batch.revision = confirmed + 1
    /\ batch.status = "completed" => batch.revision = confirmed + 2
==================================================
