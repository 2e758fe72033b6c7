--------------------------- MODULE ImportUploads ---------------------------
(***************************************************************************)
(* The uploads of an Import Batch as the importing page runs them: jobs    *)
(* are created, files are sent two at a time, a broken upload is first     *)
(* reconciled with the server and then retried after a delay, the listener *)
(* retries what is left or cancels the whole import.                       *)
(* src/web/src/routes/library/tracks/-managed-import-workflow.ts and       *)
(* -import-upload-queue.ts.                                                *)
(*                                                                         *)
(* The server is what the page sees of it: ImportBatch has its own side.   *)
(***************************************************************************)
EXTENDS Integers, Sequences, FiniteSets

CONSTANTS
  Files,
  MaxActive,    \* MAX_CONCURRENT_UPLOADS
  Retries,      \* RETRY_DELAYS_MS.length
  MaxFaults, MaxRetries, MaxSessions   \* bounds

\* What the proofs assume of them; the bounds may be anything.
ConstantsOK == IsFiniteSet(Files) /\ MaxActive \in Nat /\ Retries \in Nat

VARIABLES
  handler,    \* what the running handler does: createFileHandler or createRetryHandler
  busy,       \* importState # "idle"
  entry,      \* ImportFileEntry: hasJob, state, phase, canRetry
  worker,     \* runFile of each file: step and attemptIndex
  active,     \* activeCount
  waiting,    \* the files that wait for a place
  aborted,    \* the upload controller's signal
  lingering,  \* the handler of an import that was cancelled has not ended yet
  server,     \* what the server knows of each file
  sent,       \* requests on their way to the server, by file
  counts      \* faults, retries by the listener, sessions, cancellations that failed

vars == <<handler, busy, entry, worker, active, waiting, aborted, lingering, server, sent, counts>>

NewEntry == [hasJob |-> FALSE, state |-> "unresolved", phase |-> "queued", canRetry |-> FALSE]
NoWorker == [step |-> "none", attempt |-> 0]
Count(what) == counts' = [counts EXCEPT ![what] = @ + 1]
Fault == counts.faults < MaxFaults /\ Count("faults")

Decided(f) == server[f] \in {"accepted", "failed"}
At(f, step) == worker[f].step = step
Goes(f, step) == worker' = [worker EXCEPT ![f].step = step]

\* mergeBatchFiles: the server's word, but a file it waits for stays failed here.
Merged(f) ==
  CASE server[f] = "accepted" -> [entry[f] EXCEPT !.state = "accepted", !.phase = "ready", !.canRetry = FALSE]
    [] server[f] = "failed" -> [entry[f] EXCEPT !.state = "rejected", !.phase = "failed", !.canRetry = FALSE]
    [] server[f] \in {"queued", "busy"} -> [entry[f] EXCEPT !.state = IF entry[f].phase = "failed" THEN "rejected" ELSE "unresolved"]
    [] OTHER -> entry[f]

-----------------------------------------------------------------------------
(* The places: runAttempt. *)

Holders == {f \in Files : worker[f].step \in {"granted", "before", "send", "sending", "after"}}

\* A place is taken at once, or waited for in turn.
TakePlace(f) ==
  /\ At(f, "slot")
  /\ IF active >= MaxActive
     THEN waiting' = Append(waiting, f) /\ Goes(f, "waiting") /\ UNCHANGED active
     ELSE active' = active + 1 /\ Goes(f, "granted") /\ UNCHANGED waiting
  /\ UNCHANGED <<handler, busy, entry, aborted, lingering, server, sent, counts>>

\* A place that is handed on counts as free as well.
ReleaseAndFree(f, next) ==
  IF waiting # <<>>
  THEN /\ waiting' = Tail(waiting)
       /\ worker' = [worker EXCEPT ![f] = next, ![Head(waiting)].step = "granted"]
       /\ active' = active - 1
  ELSE /\ active' = active - 1
       /\ worker' = [worker EXCEPT ![f] = next]
       /\ UNCHANGED waiting

\* The place goes to the file that waits longest, or becomes free.
Release(f, next) ==
  IF waiting # <<>>
  THEN /\ waiting' = Tail(waiting)
       /\ worker' = [worker EXCEPT ![f] = next, ![Head(waiting)].step = "granted"]
       /\ UNCHANGED active
  ELSE /\ active' = active - 1
       /\ worker' = [worker EXCEPT ![f] = next]
       /\ UNCHANGED waiting

Done(f) == Release(f, [worker[f] EXCEPT !.step = "done"])

\* runFile after an attempt that should be repeated: the delay, unless it was the last.
Again(f) ==
  IF worker[f].attempt = Retries
  THEN Done(f)
  ELSE Release(f, [step |-> "delay", attempt |-> worker[f].attempt + 1])

-----------------------------------------------------------------------------
(* One attempt. *)

Set(f, change) == entry' = [entry EXCEPT ![f] = change]
FailedEntry(f, canRetry) == [entry[f] EXCEPT !.state = "rejected", !.phase = "failed", !.canRetry = canRetry]

StartAttempt(f) ==
  /\ At(f, "granted") /\ ~aborted
  /\ Goes(f, IF worker[f].attempt > 0 THEN "before" ELSE "send")
  /\ UNCHANGED <<handler, busy, entry, active, waiting, aborted, lingering, server, sent, counts>>

\* reconcileBeforeRetry: decided, still being worked on (asked again), or to be sent.
Reconciled(f) ==
  IF Decided(f) THEN "decided" ELSE IF server[f] = "busy" THEN "busy" ELSE "open"

\* Before a retry, and after an attempt that broke.  A file the server no longer has is
\* an error like any other here, and so is retried.
Reconcile(f) ==
  /\ worker[f].step \in {"before", "after"} /\ ~aborted
  /\ \/ /\ server[f] # "none" /\ Reconciled(f) = "decided" /\ Set(f, Merged(f)) /\ Done(f) /\ UNCHANGED counts
     \/ /\ server[f] # "none" /\ Reconciled(f) = "open"
        /\ IF At(f, "before") THEN Goes(f, "send") /\ UNCHANGED <<active, waiting>> ELSE Again(f)
        /\ UNCHANGED <<entry, counts>>
     \/ /\ server[f] = "none" /\ Set(f, FailedEntry(f, TRUE)) /\ Again(f) /\ UNCHANGED counts
     \/ /\ Fault /\ Set(f, FailedEntry(f, TRUE)) /\ Again(f)
  /\ UNCHANGED <<handler, busy, aborted, lingering, server, sent>>

\* uploadFile sends.
Send(f) ==
  /\ At(f, "send") /\ ~aborted
  /\ Set(f, [entry[f] EXCEPT !.state = "unresolved", !.phase = "uploading"])
  /\ sent' = sent \cup {f}
  /\ Goes(f, "sending")
  /\ UNCHANGED <<handler, busy, active, waiting, aborted, lingering, server, counts>>

\* The answer: a preview, or a refusal that no retry would change.
Answered(f) ==
  /\ At(f, "sending") /\ f \notin sent /\ ~aborted
  /\ \/ server[f] = "accepted" /\ Set(f, [entry[f] EXCEPT !.state = "accepted", !.phase = "ready", !.canRetry = FALSE])
     \/ server[f] \in {"failed", "none"} /\ Set(f, FailedEntry(f, FALSE))
  /\ Done(f)
  /\ UNCHANGED <<handler, busy, aborted, lingering, server, sent, counts>>

\* The transfer breaks, before the server has it (which then never gets it), while it
\* works on it or after.  Also an answer that the upload was interrupted.
Broken(f) ==
  /\ At(f, "sending") /\ ~aborted
  /\ IF f \notin sent /\ server[f] = "queued" THEN UNCHANGED counts ELSE Fault
  /\ Set(f, FailedEntry(f, TRUE))
  /\ Goes(f, "after")
  /\ sent' = sent \ {f}
  /\ UNCHANGED <<handler, busy, active, waiting, aborted, lingering, server>>

\* RETRY_DELAYS_MS.
Delayed(f) ==
  /\ At(f, "delay") /\ ~aborted
  /\ Set(f, [entry[f] EXCEPT !.state = "unresolved", !.phase = "retry_wait"])
  /\ Goes(f, "slot")
  /\ UNCHANGED <<handler, busy, active, waiting, aborted, lingering, server, sent, counts>>

\* The signal is seen wherever the file is, and a place is handed on.
Abort(f) ==
  /\ aborted /\ worker[f].step \notin {"none", "done", "waiting", "slot"}
  /\ IF f \in Holders THEN Done(f) ELSE Goes(f, "done") /\ UNCHANGED <<active, waiting>>
  /\ sent' = sent \ {f}
  /\ UNCHANGED <<handler, busy, entry, aborted, lingering, server, counts>>

-----------------------------------------------------------------------------
(* The server, as the page sees it. *)

ServerTakes(f) ==
  /\ f \in sent
  /\ sent' = sent \ {f}
  /\ server' = [server EXCEPT ![f] = IF @ = "queued" THEN "busy" ELSE @]
  /\ UNCHANGED <<handler, busy, entry, worker, active, waiting, aborted, lingering, counts>>

\* An upload ends accepted or refused; one whose page went away may end interrupted.
ServerEnds(f) ==
  /\ server[f] = "busy"
  /\ \E s \in {"accepted", "failed"} \cup (IF At(f, "sending") THEN {} ELSE {"queued"}) :
       server' = [server EXCEPT ![f] = s]
  /\ UNCHANGED <<handler, busy, entry, worker, active, waiting, aborted, lingering, sent, counts>>

-----------------------------------------------------------------------------
(* The handlers. *)

Workers(files) == [f \in Files |-> [NoWorker EXCEPT !.step = IF f \in files THEN "slot" ELSE "none"]]

\* createFileHandler: the entries, then the Batch.
PickFiles ==
  /\ handler = "none" /\ ~busy /\ counts.sessions < MaxSessions /\ \A f \in Files : server[f] = "none" /\ ~entry[f].hasJob
  /\ entry = [f \in Files |-> NewEntry]
  /\ handler' = "creating" /\ busy' = TRUE /\ aborted' = FALSE
  /\ Count("sessions")
  /\ UNCHANGED <<entry, worker, active, waiting, lingering, server, sent>>

\* createBatchJobs: one file after the other.  A job whose answer was lost is found again
\* by its clientFileId; a refused one is rejected here.
CreateJob(f) ==
  /\ handler = "creating" /\ ~aborted /\ ~entry[f].hasJob /\ entry[f].state = "unresolved"
  /\ \/ /\ server' = [server EXCEPT ![f] = "queued"] /\ Set(f, [entry[f] EXCEPT !.hasJob = TRUE]) /\ UNCHANGED counts
     \/ /\ Fault /\ Set(f, FailedEntry(f, FALSE)) /\ UNCHANGED server
  /\ UNCHANGED <<handler, busy, worker, active, waiting, aborted, lingering, sent>>

JobsCreated ==
  /\ handler = "creating" /\ ~aborted /\ \A f \in Files : entry[f].hasJob \/ entry[f].state = "rejected"
  /\ handler' = "uploading" /\ worker' = Workers({f \in Files : entry[f].hasJob})
  /\ UNCHANGED <<busy, entry, active, waiting, aborted, lingering, server, sent, counts>>

\* createRetryHandler: what can be retried is reconciled first.
Retry ==
  /\ handler = "none" /\ ~busy /\ counts.retries < MaxRetries
  /\ LET some == {f \in Files : entry[f].canRetry /\ entry[f].hasJob}
         left == {f \in some : ~Decided(f)}
     IN /\ some # {} /\ \A f \in some : server[f] \notin {"none", "busy"}
        /\ entry' = [f \in Files |-> IF f \in left THEN [entry[f] EXCEPT !.phase = "queued"]
                                     ELSE IF f \in some THEN Merged(f) ELSE entry[f]]
        /\ worker' = Workers(left)
  /\ handler' = "uploading" /\ busy' = TRUE /\ aborted' = FALSE
  /\ Count("retries")
  /\ UNCHANGED <<active, waiting, lingering, server, sent>>

Ended == \A f \in Files : worker[f].step \in {"none", "done"}

\* The last look at the Batch, and the finally.  A failed look leaves the entries.
UploadsEnd ==
  /\ handler = "uploading" /\ ~aborted /\ Ended
  /\ \/ entry' = [f \in Files |-> IF entry[f].hasJob THEN Merged(f) ELSE entry[f]] /\ UNCHANGED counts
     \/ Fault /\ UNCHANGED entry
  /\ handler' = "none" /\ busy' = FALSE
  /\ UNCHANGED <<worker, active, waiting, aborted, lingering, server, sent>>

\* createCancelHandler: abort, cancel the Batch, reset.  A handler that still waits for
\* an answer is left to end later.
Cancel ==
  /\ handler # "none" \/ \E f \in Files : entry[f].hasJob
  /\ server' = [f \in Files |-> "none"] /\ entry' = [f \in Files |-> NewEntry] /\ sent' = {}
  /\ worker' = [f \in Files |-> NoWorker] /\ active' = 0 /\ waiting' = <<>>
  /\ aborted' = FALSE /\ handler' = "none" /\ busy' = FALSE
  /\ lingering' = (lingering \/ handler # "none")
  /\ UNCHANGED counts

\* The cancellation is refused or lost: the uploads were stopped all the same.
CancelFails ==
  /\ handler # "none" /\ counts.faults < MaxFaults
  /\ counts' = [counts EXCEPT !.faults = @ + 1, !.stopped = @ + 1]
  /\ aborted' = TRUE
  /\ UNCHANGED <<handler, busy, entry, worker, active, waiting, lingering, server, sent>>

\* An aborted handler ends when its files have.
AbortedEnds ==
  /\ handler # "none" /\ aborted /\ Ended
  /\ handler' = "none" /\ busy' = FALSE /\ aborted' = FALSE
  /\ UNCHANGED <<entry, worker, active, waiting, lingering, server, sent, counts>>

\* The finally of a handler whose import is over: setImportState("idle").
LingeringEnds ==
  /\ lingering
  /\ lingering' = FALSE /\ busy' = FALSE
  /\ UNCHANGED <<handler, entry, worker, active, waiting, aborted, server, sent, counts>>

Init ==
  /\ handler = "none" /\ busy = FALSE /\ entry = [f \in Files |-> NewEntry]
  /\ worker = [f \in Files |-> NoWorker] /\ active = 0 /\ waiting = <<>>
  /\ aborted = FALSE /\ lingering = FALSE
  /\ server = [f \in Files |-> "none"] /\ sent = {}
  /\ counts = [faults |-> 0, retries |-> 0, sessions |-> 0, stopped |-> 0]

WorkerStep(f) ==
  \/ TakePlace(f) \/ StartAttempt(f) \/ Reconcile(f) \/ Send(f) \/ Answered(f) \/ Broken(f)
  \/ Delayed(f) \/ Abort(f) \/ ServerTakes(f) \/ ServerEnds(f)

HandlerStep == JobsCreated \/ UploadsEnd \/ AbortedEnds \/ \E f \in Files : CreateJob(f)

Next ==
  \/ \E f \in Files : WorkerStep(f)
  \/ HandlerStep \/ PickFiles \/ Retry \/ Cancel \/ CancelFails \/ LingeringEnds

\* Every promise settles: requests are answered or fail, timers fire.
Fairness == WF_vars(HandlerStep) /\ \A f \in Files : WF_vars(WorkerStep(f))

Spec == Init /\ [][Next]_vars /\ Fairness

-----------------------------------------------------------------------------
\* TypeOK: the state of the module.
TypeOK ==
  /\ handler \in {"none", "creating", "uploading"} /\ busy \in BOOLEAN /\ aborted \in BOOLEAN /\ lingering \in BOOLEAN
  /\ \A f \in Files :
       /\ entry[f].state \in {"unresolved", "accepted", "rejected"}
       /\ entry[f].phase \in {"queued", "uploading", "retry_wait", "failed", "ready"}
       /\ worker[f].step \in {"none", "slot", "waiting", "granted", "before", "send", "sending", "after", "delay", "done"}
       /\ worker[f].attempt \in 0..Retries
       /\ server[f] \in {"none", "queued", "busy", "accepted", "failed"}
  /\ active \in Nat /\ waiting \in Seq(Files) /\ sent \subseteq Files

\* PlacesAreCounted: as many files are being sent as activeCount says, never more than
\* MAX_CONCURRENT_UPLOADS, and nobody waits while a place is free, through every handover,
\* retry and abort of runAttempt.
PlacesAreCounted ==
  /\ active = Cardinality(Holders) /\ active <= MaxActive
  /\ waiting # <<>> => active = MaxActive

\* NoDeadEnd: when the page is idle, a file the server still waits for or has accepted
\* is shown accepted or can be retried, whatever was lost on the way.  Unless a
\* cancellation failed: that one leaves files the listener can only cancel again.
NoDeadEnd ==
  ~busy /\ handler = "none" /\ counts.stopped = 0 =>
    \A f \in Files : entry[f].hasJob /\ server[f] # "failed" => entry[f].state = "accepted" \/ entry[f].canRetry

\* SentOnce, of every step: a file is not sent while the server works on an earlier upload of it.
SentOnce == \A f \in Files : f \in sent' \ sent => server[f] # "busy"
=============================================================================
