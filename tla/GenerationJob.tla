---------------------------- MODULE GenerationJob ----------------------------
(***************************************************************************)
(* The life of one generation job: the generation_jobs row, its            *)
(* provider_runs, the outbox and the Redis stream that carry its events,   *)
(* the worker processes that execute and poll it, the API calls of its     *)
(* owner and the maintenance scans.  Jobs interact only through the        *)
(* model's concurrency limit, which ModelCapacity models; here a full      *)
(* model is a choice of the environment (DenyCapacity).                    *)
(*                                                                         *)
(* A step is one database transaction or statement, one provider call or   *)
(* one storage call: whatever the code reads before an await and uses      *)
(* after it is kept in the worker's record between two steps.  A read and  *)
(* the write right after it, with no external call in between, are one     *)
(* step.                                                                   *)
(*                                                                         *)
(* Runs are numbered by attempt: client_token is job:attempt:revision and  *)
(* the model revision of a job is pinned, so attempt determines the row.   *)
(* The outputs of a run are one element of stored / assets.                *)
(***************************************************************************)
EXTENDS ProviderRun

CONSTANTS
    Synchronous,        \* isSynchronousPlugin: the plugin has no poll
    MaxSubmitAttempts,  \* MAX_SYNC_SUBMIT_ATTEMPTS
    MaxAttempt,         \* bound: claims of the job
    MaxRev,             \* bound: a run at this revision is no longer scanned
    Allowed,            \* external events that may happen
    Budget              \* bound: how many of them

Attempts == 1..MaxAttempt

\* Events of the environment: users, failures, and leases that end early.
Externals == {"cancel", "retry", "delete", "delete_user", "crash", "duplicate",
              "expiry", "fault", "denial"}

ASSUME ConstantsAssumption ==
    /\ Synchronous \in BOOLEAN
    /\ MaxSubmitAttempts \in Nat
    /\ MaxAttempt \in Nat \ {0}
    /\ MaxRev \in Nat
    /\ Allowed \subseteq Externals
    /\ Budget \in Nat

VARIABLES
    job,      \* the generation_jobs row
    runs,     \* provider_runs of the job, by attempt
    events,   \* outbox_events not dispatched: 0 names the job, a > 0 a run
    keys,     \* dedupe_key values already in outbox_events
    stream,   \* stream messages a worker may take
    orphans,  \* messages a crashed worker had taken: [msg, run]
    worker,   \* what each worker process has in memory
    stored,   \* attempts whose output objects are in the bucket
    assets,   \* attempts whose outputs are rows of assets, not soft-deleted
    doomed,   \* asset_deletion_jobs not completed
    remote,   \* ghost: what the provider did with the submission of a run
    left      \* external events that may still happen

vars == <<job, runs, events, keys, stream, orphans, worker, stored, assets, doomed,
          remote, left>>

ActiveStatuses == {"queued", "running", "retry_wait"}
terminalStatuses == {"succeeded", "failed", "canceled"}

\* Outcomes of plugin.submit: the classes processJob tells apart.
SubmitResults == {"waiting", "submission_unknown", "submitting", "succeeded",
                  "failed", "canceled", "rate_limited", "temporary", "rejected"}

\* Outcomes of plugin.poll.
PollResults == {"waiting", "submission_unknown", "succeeded", "failed",
                "canceled", "temporary", "rejected"}

\* What the provider did: a refused submission left nothing behind; an
\* accepted one is a remote task until the provider reports its end or is
\* asked to cancel it.
RemoteStates == {"none", "refused", "accepted", "ended", "cancel_asked"}

Job == [ status : ActiveStatuses \cup terminalStatuses,
         attempt : 0..MaxAttempt, cancelReq : BOOLEAN, deleted : BOOLEAN ]

Messages == 0..MaxAttempt

Keys == [kind : {"cancel", "retry", "provider-run-poll", "provider-run-cancel"},
         run : Messages, rev : Nat]

PCs == {"idle", "preprocess", "acquire", "requeue", "submit", "submit_settle",
        "polling", "poll_settle", "cancel", "canceling", "import", "persist",
        "catch"}

Worker == [ pc : PCs, msg : Messages, claimed : BOOLEAN, run : Messages,
            rev : Nat,
            res : SubmitResults \cup {"none", "no_remote", "no_poll",
                                      "job_deleted", "uploaded", "skipped"},
            remote : BOOLEAN ]

Idle == [ pc |-> "idle", msg |-> 0, claimed |-> FALSE, run |-> 0, rev |-> 0,
          res |-> "none", remote |-> FALSE ]

\* Every row, message and worker record has one of the shapes the code can give
\* it: statuses and states of the schema's checks, attempts and runs in range,
\* only declared outcomes in a worker's memory.
TypeOK ==
    /\ job \in Job
    /\ runs \in [Attempts -> RunRow]
    /\ events \in SUBSET Messages
    /\ keys \in SUBSET Keys
    /\ stream \in SUBSET Messages
    /\ orphans \in SUBSET [msg : Messages, run : Messages]
    /\ worker \in [Workers -> Worker]
    /\ stored \in SUBSET Attempts
    /\ assets \in SUBSET Attempts
    /\ doomed \in SUBSET Attempts
    /\ remote \in [Attempts -> RemoteStates]
    /\ left \in 0..Budget

\* createGenerationJob commits the queued job and its outbox event together.
Init ==
    /\ job = [status |-> "queued", attempt |-> 0, cancelReq |-> FALSE,
              deleted |-> FALSE]
    /\ runs = [a \in Attempts |-> NoRun]
    /\ events = {0}
    /\ keys = {}
    /\ stream = {}
    /\ orphans = {}
    /\ worker = [k \in Workers |-> Idle]
    /\ stored = {}
    /\ assets = {}
    /\ doomed = {}
    /\ remote = [a \in Attempts |-> "none"]
    /\ left = Budget

-----------------------------------------------------------------------------
(* Helpers *)

\* The environment takes one of its events.
Spend(e) == e \in Allowed /\ left > 0 /\ left' = left - 1

\* getLatestProviderRunForJob: the row with the greatest attempt.
IsLatest(a) ==
    /\ Exists(runs[a])
    /\ \A b \in Attempts : Exists(runs[b]) => b <= a

IsLatestLive(a) == IsLatest(a) /\ isNonTerminalRunState(runs[a])

NoLatestLive == \A a \in Attempts : ~IsLatestLive(a)

\* INSERT INTO outbox_events ... ON CONFLICT DO NOTHING.
InsertEvent(msg, key) ==
    /\ events' = IF key \in keys THEN events ELSE events \cup {msg}
    /\ keys' = keys \cup {key}

Key(kind, run, rev) == [kind |-> kind, run |-> run, rev |-> rev]

\* The consumer acknowledges the message: nothing is left of the step.
Acknowledge(k) == worker' = [worker EXCEPT ![k] = Idle]

Goto(k, pc) == worker' = [worker EXCEPT ![k].pc = pc]

\* processJob threw: the message is not acknowledged, so XAUTOCLAIM will
\* deliver it again.
LeavePending(k) ==
    /\ stream' = stream \cup {worker[k].msg}
    /\ worker' = [worker EXCEPT ![k] = Idle]

\* persistJobFailure: only a running job moves.
persistJobFailure(retryable) ==
    job' = IF job.status = "running"
             THEN [job EXCEPT !.status = IF retryable THEN "retry_wait" ELSE "failed"]
             ELSE job

\* Mutant: the guard leaves out 'running'.
CanceledIfWaiting ==
    IF job.status \in {"queued", "retry_wait"} THEN [job EXCEPT !.status = "canceled"]
    ELSE job

\* The guarded UPDATE of cancelJobWithRun.
CanceledIfActive ==
    IF job.status \in ActiveStatuses THEN [job EXCEPT !.status = "canceled"] ELSE job

\* An exception inside the body of pollProviderRun or importRunOutputs: the
\* lease is released by the finally block; under processJob's try the outer
\* catch goes on, otherwise the consumer leaves the message pending.
Throw(k, res) ==
    /\ runs' = [runs EXCEPT ![worker[k].run] = Unleased(@, k)]
    /\ IF worker[k].claimed
         THEN /\ worker' = [worker EXCEPT ![k].pc = "catch", ![k].res = res]
              /\ UNCHANGED stream
         ELSE LeavePending(k)

outside == <<orphans, stored, assets, doomed, remote, left>>
queues == <<events, keys, stream>>

-----------------------------------------------------------------------------
(* processJob: the claim *)

Takes(k, m) ==
    /\ worker[k].pc = "idle"
    /\ m \in stream
    /\ stream' = stream \ {m}

decideJobClaim ==
    IF job.deleted \/ job.status \notin {"queued", "retry_wait"} THEN "ignore"
    ELSE IF job.cancelReq THEN "cancel" ELSE "claim"

ClaimJob(k) ==
    /\ Takes(k, 0)
    /\ decideJobClaim = "claim"
    /\ job.attempt < MaxAttempt
    /\ job' = [job EXCEPT !.status = "running", !.attempt = @ + 1]
    /\ worker' = [worker EXCEPT ![k] =
                    [Idle EXCEPT !.pc = "preprocess", !.claimed = TRUE]]
    /\ UNCHANGED <<runs, events, keys, outside>>

CancelAtClaim(k) ==
    /\ Takes(k, 0)
    /\ decideJobClaim = "cancel"
    /\ job' = [job EXCEPT !.status = "canceled"]
    /\ UNCHANGED <<runs, events, keys, worker, outside>>

\* pollProviderRun up to its first external call: take the lease, read the
\* job, decide.  Without the lease the message is simply acknowledged.
PollFrom(k, a, msg, claimed) ==
    LET row == runs[a]
        at(pc, res) ==
            [ pc |-> pc, msg |-> msg, claimed |-> claimed, run |-> a,
              rev |-> row.rev, res |-> res, remote |-> row.remote ]
        next ==
            IF job.deleted THEN at("poll_settle", "job_deleted")
            ELSE IF job.status = "canceled" \/ job.cancelReq THEN at("cancel", "none")
            ELSE IF ~isNonTerminalRunState(row) THEN Idle
            ELSE IF ~row.remote THEN at("poll_settle", "no_remote")
            ELSE IF Synchronous THEN at("poll_settle", "no_poll")
            ELSE at("polling", "none")
    IN  IF row.lease # NoWorker
          THEN /\ Acknowledge(k)
               /\ UNCHANGED runs
          ELSE /\ worker' = [worker EXCEPT ![k] = next]
               /\ runs' = IF next = Idle THEN runs
                          ELSE [runs EXCEPT ![a] = Leased(@, k)]

\* A job message that may not claim polls the latest run instead.
IgnoreClaim(k) ==
    /\ Takes(k, 0)
    /\ decideJobClaim = "ignore"
    /\ \/ NoLatestLive /\ UNCHANGED <<runs, worker>>
       \/ \E a \in Attempts : IsLatestLive(a) /\ PollFrom(k, a, 0, FALSE)
    /\ UNCHANGED <<job, events, keys, outside>>

\* A message that names a run goes straight to pollProviderRun.
PollMessage(k) ==
    /\ \E a \in Attempts :
        /\ Takes(k, a)
        /\ PollFrom(k, a, a, FALSE)
    /\ UNCHANGED <<job, events, keys, outside>>

\* preprocessPrompt or resolveSnapshot fails with a temporary or a permanent code.
PreprocessFails(k) ==
    /\ worker[k].pc = "preprocess"
    /\ Spend("fault")
    /\ \E res \in {"temporary", "rejected"} :
        worker' = [worker EXCEPT ![k].pc = "catch", ![k].res = res]
    /\ UNCHANGED <<job, runs, queues, orphans, stored, assets, doomed, remote>>

\* After preprocessPrompt the job is read again: a cancellation that arrived
\* meanwhile wins, a run that is still live is polled, otherwise capacity is
\* acquired for the current attempt.
decideClaimedJob ==
    IF job.deleted \/ job.status = "canceled" \/ job.cancelReq
      THEN "cancel" ELSE "continue"

CancelClaimed(k) ==
    /\ worker[k].pc = "preprocess"
    /\ decideClaimedJob = "cancel"
    /\ \/ /\ \E a \in Attempts :
                /\ IsLatestLive(a)
                /\ worker' = [worker EXCEPT ![k].pc = "cancel", ![k].run = a,
                                            ![k].rev = runs[a].rev]
          /\ UNCHANGED job
       \/ /\ NoLatestLive
          /\ job' = IF job.deleted THEN job ELSE [job EXCEPT !.status = "canceled"]
          /\ Acknowledge(k)
    /\ UNCHANGED <<runs, queues, outside>>

\* Mutant: no look for a run that is still live.
ContinueWithoutLooking(k) ==
    /\ worker[k].pc = "preprocess"
    /\ decideClaimedJob = "continue"
    /\ worker' = [worker EXCEPT ![k].pc = "acquire", ![k].run = job.attempt]
    /\ UNCHANGED <<job, runs, queues, outside>>

ContinueClaimed(k) ==
    /\ worker[k].pc = "preprocess"
    /\ decideClaimedJob = "continue"
    /\ \/ \E a \in Attempts : IsLatestLive(a) /\ PollFrom(k, a, 0, TRUE)
       \/ /\ NoLatestLive
          /\ worker' = [worker EXCEPT ![k].pc = "acquire",
                            ![k].run = IF job.attempt = 0 THEN 1 ELSE job.attempt]
          /\ UNCHANGED runs
    /\ UNCHANGED <<job, queues, outside>>

-----------------------------------------------------------------------------
(* processJob: capacity and submission *)

AcquireCapacity(k) ==
    LET a == worker[k].run
        row == createProviderRun(runs[a])
    IN  /\ worker[k].pc = "acquire"
        /\ runs' = [runs EXCEPT ![a] = row]
        /\ worker' = [worker EXCEPT ![k].pc = "submit", ![k].rev = row.rev]
        /\ UNCHANGED <<job, queues, outside>>

\* CONCURRENCY_LIMIT_EXCEEDED: the job goes back to the queue, then ...
DenyCapacity(k) ==
    /\ worker[k].pc = "acquire"
    /\ Spend("denial")
    /\ job' = IF job.status = "running" THEN [job EXCEPT !.status = "queued"] ELSE job
    /\ Goto(k, "requeue")
    /\ UNCHANGED <<runs, queues, orphans, stored, assets, doomed, remote>>

\* ... a second statement inserts the undeduplicated event that wakes it.
Requeue(k) ==
    /\ worker[k].pc = "requeue"
    /\ events' = events \cup {0}
    /\ Acknowledge(k)
    /\ UNCHANGED <<job, runs, keys, stream, outside>>

\* The model was deleted: INVALID_CONFIG, not retried, no run row.
ModelNotFound(k) ==
    /\ worker[k].pc = "acquire"
    /\ Spend("fault")
    /\ persistJobFailure(FALSE)
    /\ Acknowledge(k)
    /\ UNCHANGED <<runs, queues, orphans, stored, assets, doomed, remote>>

\* resolveMediaInputImages throws before anything was submitted.
InputsFail(k) ==
    /\ worker[k].pc = "submit"
    /\ Spend("fault")
    /\ \E res \in {"temporary", "rejected"} :
        worker' = [worker EXCEPT ![k].pc = "catch", ![k].res = res]
    /\ UNCHANGED <<job, runs, queues, orphans, stored, assets, doomed, remote>>

\* plugin.submit.  A rate-limited (429) or rejected request left nothing at
\* the provider; a temporary failure may have been accepted.
Submit(k) ==
    /\ worker[k].pc = "submit"
    /\ \E res \in SubmitResults, id \in BOOLEAN :
        /\ id => res \in {"waiting", "submission_unknown", "submitting"}
        /\ worker' = [worker EXCEPT ![k].pc = "submit_settle", ![k].res = res,
                                    ![k].remote = id]
        /\ remote' = [remote EXCEPT ![worker[k].run] =
                        CASE res \in {"rate_limited", "rejected"} -> "refused"
                          [] res \in {"succeeded", "failed", "canceled"} -> "ended"
                          [] OTHER -> "accepted"]
    /\ UNCHANGED <<job, runs, queues, orphans, stored, assets, doomed, left>>

-----------------------------------------------------------------------------
(* What the worker writes when a submission or a poll has answered *)

Settling(k, pc, results) == worker[k].pc = pc /\ worker[k].res \in results

\* failRunTerminal: the run by compare-and-swap, the job if it is running.
failRunTerminal(k, rev) ==
    /\ runs' = [runs EXCEPT ![worker[k].run] = Unleased(Ended(@, rev, "failed"), k)]
    /\ persistJobFailure(FALSE)
    /\ Acknowledge(k)

\* cancelJobWithRun on the row as it is now.
cancelJobWithRun(k) ==
    /\ runs' = [runs EXCEPT ![worker[k].run] = Unleased(Ended(@, @.rev, "canceled"), k)]
    /\ job' = CanceledIfActive
    /\ Acknowledge(k)

\* planSyncSubmitRetry(...).retry for a 429 answer at this attempt.
MayRetrySubmit(k) == Synchronous /\ worker[k].run < MaxSubmitAttempts

\* Mutant: any temporary failure is retried, of any plugin.
RetryAnyTemporary(k) ==
    LET a == worker[k].run IN
    /\ Settling(k, "submit_settle", {"rate_limited", "temporary"})
    /\ runs[a].rev = worker[k].rev
    /\ job.status = "running"
    /\ runs' = [runs EXCEPT ![a] = Ended(@, worker[k].rev, "failed")]
    /\ persistJobFailure(TRUE)
    /\ InsertEvent(0, Key("retry", a, 0))
    /\ Acknowledge(k)
    /\ UNCHANGED <<stream, outside>>

\* retrySyncSubmit: run, job and outbox event in one transaction.
retrySyncSubmit(k) ==
    LET a == worker[k].run IN
    /\ Settling(k, "submit_settle", {"rate_limited"})
    /\ MayRetrySubmit(k)
    /\ runs[a].rev = worker[k].rev
    /\ job.status = "running"
    /\ runs' = [runs EXCEPT ![a] = Ended(@, worker[k].rev, "failed")]
    /\ persistJobFailure(TRUE)
    /\ InsertEvent(0, Key("retry", a, 0))
    /\ Acknowledge(k)
    /\ UNCHANGED <<stream, outside>>

\* The same transaction meets RUN_STATE_CONFLICT or JOB_STATE_CONFLICT: it is
\* rolled back and SyncRetryPersistenceError leaves the message pending.
RetryConflict(k) ==
    /\ Settling(k, "submit_settle", {"rate_limited"})
    /\ MayRetrySubmit(k)
    /\ \/ runs[worker[k].run].rev # worker[k].rev
       \/ job.status # "running"
    /\ LeavePending(k)
    /\ UNCHANGED <<job, runs, events, keys, outside>>

\* Submission refused for good, retries exhausted, or a synchronous plugin
\* that failed or returned no remote id: the run as it was at submission.
SubmitFailed(k) ==
    /\ \/ Settling(k, "submit_settle", {"rejected"})
       \/ Settling(k, "submit_settle", {"rate_limited"}) /\ Synchronous
          /\ ~MayRetrySubmit(k)
       \/ Settling(k, "submit_settle", {"temporary"}) /\ Synchronous
       \/ Settling(k, "submit_settle", {"waiting", "submission_unknown"})
          /\ Synchronous /\ ~worker[k].remote
    /\ failRunTerminal(k, worker[k].rev)
    /\ UNCHANGED <<queues, outside>>

\* An asynchronous submission that may have been accepted is never repeated:
\* the run waits in submission_unknown.  The job update has no status guard.
SubmitUnclear(k) ==
    /\ Settling(k, "submit_settle", {"temporary", "rate_limited"})
    /\ ~Synchronous
    /\ runs' = [runs EXCEPT ![worker[k].run] =
                  Moved(@, worker[k].rev, "submission_unknown", FALSE)]
    /\ job' = [job EXCEPT !.status = "running"]
    /\ Acknowledge(k)
    /\ UNCHANGED <<queues, outside>>

\* storeRunWaiting / storeRunUnknown / the 'submitting' answer.
SubmitStored(k) ==
    /\ Settling(k, "submit_settle", {"waiting", "submission_unknown", "submitting"})
    /\ worker[k].res \in {"waiting", "submission_unknown"} /\ Synchronous
         => worker[k].remote
    /\ runs' = [runs EXCEPT ![worker[k].run] =
                  Stored(@, worker[k].rev,
                         IF worker[k].res = "submission_unknown"
                           THEN "submission_unknown" ELSE "waiting",
                         worker[k].remote)]
    /\ Acknowledge(k)
    /\ UNCHANGED <<job, queues, outside>>

Settled(k, results) ==
    \/ Settling(k, "submit_settle", results)
    \/ Settling(k, "poll_settle", results)

\* handleTerminalResult: a failure or a cancellation rereads the run first.
ResultFailed(k) ==
    /\ Settled(k, {"failed"})
    /\ failRunTerminal(k, runs[worker[k].run].rev)
    /\ UNCHANGED <<queues, outside>>

ResultCanceled(k) ==
    /\ Settled(k, {"canceled"})
    /\ cancelJobWithRun(k)
    /\ UNCHANGED <<queues, outside>>

\* importRunOutputs begins: 'importing' by compare-and-swap, going on with
\* the old row when that fails.
StartImport(k) ==
    LET a == worker[k].run
        row == Moved(runs[a], worker[k].rev, "importing", TRUE)
    IN  /\ Settled(k, {"succeeded"})
        /\ runs' = [runs EXCEPT ![a] = row]
        /\ worker' = [worker EXCEPT ![k].pc = "import",
                        ![k].rev = IF row = runs[a] THEN @ ELSE row.rev]
        /\ UNCHANGED <<job, queues, outside>>

\* The provider answered with a number of outputs that is not job.count.
CountMismatch(k) ==
    /\ Settled(k, {"succeeded"})
    /\ Spend("fault")
    /\ failRunTerminal(k, worker[k].rev)
    /\ UNCHANGED <<queues, orphans, stored, assets, doomed, remote>>

\* Download and upload under the deterministic key of the run; outputs whose
\* ingestion already names an asset are skipped.  The revision is read again
\* for the final compare-and-swap.
ImportOutputs(k) ==
    LET a == worker[k].run IN
    /\ worker[k].pc = "import"
    /\ stored' = IF a \in assets THEN stored ELSE stored \cup {a}
    /\ worker' = [worker EXCEPT ![k].pc = "persist", ![k].rev = runs[a].rev,
                    ![k].res = IF a \in assets THEN "skipped" ELSE "uploaded"]
    /\ UNCHANGED <<job, runs, queues, orphans, assets, doomed, remote, left>>

\* A download or an upload fails; what this import had uploaded is deleted.
ImportFails(k) ==
    /\ worker[k].pc = "import"
    /\ Spend("fault")
    /\ stored' \in {stored, stored \ {worker[k].run}}
    /\ Throw(k, "temporary")
    /\ UNCHANGED <<job, events, keys, orphans, assets, doomed, remote>>

\* persistJobSuccess accepts: assets, job and run in one transaction; a lost
\* compare-and-swap on the run is ignored.
PersistSuccess(k) ==
    LET a == worker[k].run IN
    /\ worker[k].pc = "persist"
    /\ job.status = "running"
    /\ ~job.deleted
    /\ assets' = assets \cup {a}
    /\ job' = [job EXCEPT !.status = "succeeded"]
    /\ runs' = [runs EXCEPT ![a] = Unleased(Ended(@, worker[k].rev, "succeeded"), k)]
    /\ Acknowledge(k)
    /\ UNCHANGED <<queues, orphans, stored, doomed, remote, left>>

\* persistJobSuccess refuses: the uploaded objects are deleted and the run
\* stays as it is.
PersistRefused(k) ==
    LET a == worker[k].run IN
    /\ worker[k].pc = "persist"
    /\ job.status # "running" \/ job.deleted
    /\ stored' = IF worker[k].res = "uploaded" THEN stored \ {a} ELSE stored
    /\ runs' = [runs EXCEPT ![a] = Unleased(@, k)]
    /\ Acknowledge(k)
    /\ UNCHANGED <<job, queues, orphans, assets, doomed, remote, left>>

-----------------------------------------------------------------------------
(* pollProviderRun *)

\* plugin.poll answers; every answer but an exception is followed by a fresh
\* read of the run.
Poll(k) ==
    LET a == worker[k].run IN
    /\ worker[k].pc = "polling"
    /\ \E res \in PollResults :
        /\ worker' = [worker EXCEPT ![k].pc = "poll_settle", ![k].res = res,
                        ![k].rev = IF res \in {"temporary", "rejected"}
                                     THEN @ ELSE runs[a].rev]
        /\ remote' = [remote EXCEPT ![a] =
                        IF res \in {"succeeded", "failed", "canceled"}
                          THEN "ended" ELSE @]
    /\ UNCHANGED <<job, runs, queues, orphans, stored, assets, doomed, left>>

\* resolveSnapshot throws (the configuration or the plugin is unavailable).
PollThrows(k) ==
    /\ \/ worker[k].pc = "polling"
       \/ Settling(k, "poll_settle", {"no_remote", "no_poll"})
    /\ Spend("fault")
    /\ Throw(k, "rejected")
    /\ UNCHANGED <<job, events, keys, orphans, stored, assets, doomed, remote>>

\* Mutant: an asynchronous run without a remote id is failed as well.
PollFailedWithoutRemote(k) ==
    /\ Settling(k, "poll_settle", {"rejected", "no_poll", "no_remote"})
    /\ failRunTerminal(k, worker[k].rev)
    /\ UNCHANGED <<queues, outside>>

\* A synchronous plugin has nothing to poll, or the poll failed for good.
PollFailed(k) ==
    /\ \/ Settling(k, "poll_settle", {"rejected", "no_poll"})
       \/ Settling(k, "poll_settle", {"no_remote"}) /\ Synchronous
    /\ failRunTerminal(k, worker[k].rev)
    /\ UNCHANGED <<queues, outside>>

\* The job row is gone: only the run is closed.
PollJobDeleted(k) ==
    /\ Settling(k, "poll_settle", {"job_deleted"})
    /\ runs' = [runs EXCEPT ![worker[k].run] =
                  Unleased(Ended(@, worker[k].rev, "failed"), k)]
    /\ Acknowledge(k)
    /\ UNCHANGED <<job, queues, outside>>

PollUnclear(k) ==
    /\ Settling(k, "poll_settle", {"no_remote"})
    /\ ~Synchronous
    /\ runs' = [runs EXCEPT ![worker[k].run] =
                  Unleased(Moved(@, worker[k].rev, "submission_unknown", FALSE), k)]
    /\ Acknowledge(k)
    /\ UNCHANGED <<job, queues, outside>>

PollStored(k) ==
    /\ Settling(k, "poll_settle", {"waiting", "submission_unknown"})
    /\ runs' = [runs EXCEPT ![worker[k].run] =
                  Unleased(Stored(@, worker[k].rev, worker[k].res, TRUE), k)]
    /\ Acknowledge(k)
    /\ UNCHANGED <<job, queues, outside>>

\* A temporary poll failure only postpones the next poll.
PollTemporary(k) ==
    /\ Settling(k, "poll_settle", {"temporary"})
    /\ runs' = [runs EXCEPT ![worker[k].run] =
                  Unleased(Postponed(@, worker[k].rev), k)]
    /\ Acknowledge(k)
    /\ UNCHANGED <<job, queues, outside>>

\* requestRemoteCancel: 'canceling' by compare-and-swap, then plugin.cancel
\* for a run that has a remote id ...
RequestCancel(k) ==
    LET a == worker[k].run IN
    /\ worker[k].pc = "cancel"
    /\ runs' = [runs EXCEPT ![a] = Moved(@, worker[k].rev, "canceling", TRUE)]
    /\ remote' = [remote EXCEPT ![a] =
                    IF runs[a].remote /\ ~Synchronous /\ @ = "accepted"
                      THEN "cancel_asked" ELSE @]
    /\ Goto(k, "canceling")
    /\ UNCHANGED <<job, queues, orphans, stored, assets, doomed, left>>

\* ... whose failure counts as 'canceled'; when resolveSnapshot throws
\* neither happens ...
RequestCancelFails(k) ==
    LET a == worker[k].run IN
    /\ worker[k].pc = "cancel"
    /\ Spend("fault")
    /\ runs' \in { runs,
                   [runs EXCEPT ![a] = Moved(@, worker[k].rev, "canceling", TRUE)] }
    /\ Goto(k, "canceling")
    /\ UNCHANGED <<job, queues, orphans, stored, assets, doomed, remote>>

\* ... and whatever came of it the finally block cancels run and job.
FinishCancel(k) ==
    /\ worker[k].pc = "canceling"
    /\ cancelJobWithRun(k)
    /\ UNCHANGED <<queues, outside>>

\* processJob's outer catch.
CatchFailure(k) ==
    /\ worker[k].pc = "catch"
    /\ runs' = [a \in Attempts |->
                  IF ~IsLatest(a) THEN runs[a]
                  ELSE IF isNonTerminalRunState(runs[a])
                         THEN Postponed(runs[a], runs[a].rev)
                         ELSE Ended(runs[a], runs[a].rev, "failed")]
    /\ persistJobFailure(worker[k].res = "temporary")
    /\ Acknowledge(k)
    /\ UNCHANGED <<queues, outside>>

-----------------------------------------------------------------------------
(* Crashes, leases and time *)

Abandoned(a) ==
    \A k \in Workers : runs[a].lease = k => worker[k].pc = "idle" \/ worker[k].run # a

\* A worker process dies: its message stays pending and its lease held.
Crash(k) ==
    /\ worker[k].pc # "idle"
    /\ Spend("crash")
    /\ orphans' = orphans \cup {[msg |-> worker[k].msg, run |-> worker[k].run]}
    /\ Acknowledge(k)
    /\ UNCHANGED <<job, runs, queues, stored, assets, doomed, remote>>

\* XAUTOCLAIM returns the message when the dead owner's heartbeat key has
\* lapsed, 75 to 90 seconds after its death: later than its lease of 60.
claimStalePending(o) ==
    /\ o \in orphans
    /\ o.run # 0 => runs[o.run].lease = NoWorker \/ ~Abandoned(o.run)
    /\ orphans' = orphans \ {o}
    /\ stream' = stream \cup {o.msg}
    /\ UNCHANGED <<job, runs, events, keys, worker, stored, assets, doomed, remote, left>>

\* A lease ends after 60 seconds: recoverExpiredLeases clears that of a dead
\* holder; that of a live one can expire during a long import.
ExpireLease(a) ==
    /\ runs[a].lease # NoWorker
    /\ \/ Abandoned(a) /\ UNCHANGED left
       \/ ~Abandoned(a) /\ Spend("expiry")
    /\ runs' = [runs EXCEPT ![a].lease = NoWorker]
    /\ UNCHANGED <<job, queues, worker, orphans, stored, assets, doomed, remote>>

\* next_action_at passes.
ActionFallsDue(a) ==
    /\ isNonTerminalRunState(runs[a])
    /\ ~runs[a].due
    /\ runs' = [runs EXCEPT ![a].due = TRUE]
    /\ UNCHANGED <<job, queues, worker, outside>>

-----------------------------------------------------------------------------
(* The API *)

MarkRunsCanceling == [a \in Attempts |-> MarkedCanceling(runs[a])]

\* POST /api/jobs/:id/cancel.
cancelJob ==
    /\ Spend("cancel")
    /\ ~job.deleted
    /\ \/ /\ job.status \in {"queued", "retry_wait"}
          /\ job' = [job EXCEPT !.status = "canceled"]
          /\ UNCHANGED <<runs, events, keys>>
       \/ /\ job.status = "running"
          /\ job' = [job EXCEPT !.cancelReq = TRUE]
          /\ InsertEvent(0, Key("cancel", job.attempt, 0))
          /\ runs' = MarkRunsCanceling
    /\ UNCHANGED <<stream, worker, orphans, stored, assets, doomed, remote>>

\* Mutant: the request to cancel survives the retry.
RetryStillCanceling ==
    /\ Spend("retry")
    /\ ~job.deleted
    /\ job.status = "failed"
    /\ job' = [job EXCEPT !.status = "queued", !.attempt = 0]
    /\ events' = events \cup {0}
    /\ UNCHANGED <<runs, keys, stream, worker, orphans, stored, assets, doomed, remote>>

\* POST /api/jobs/:id/retry: only a failed job; the row starts over.
retryJob ==
    /\ Spend("retry")
    /\ ~job.deleted
    /\ job.status = "failed"
    /\ job' = [job EXCEPT !.status = "queued", !.attempt = 0, !.cancelReq = FALSE]
    /\ events' = events \cup {0}
    /\ UNCHANGED <<runs, keys, stream, worker, orphans, stored, assets, doomed, remote>>

\* DELETE /api/jobs/:id.
deleteJobWithAssets ==
    /\ Spend("delete")
    /\ ~job.deleted
    /\ job' = [ status |-> CanceledIfActive.status, attempt |-> job.attempt,
                cancelReq |-> job.cancelReq \/ job.status = "running",
                deleted |-> TRUE ]
    /\ IF job.status = "running"
         THEN /\ runs' = MarkRunsCanceling
              /\ InsertEvent(0, Key("cancel", job.attempt, 0))
         ELSE UNCHANGED <<runs, events, keys>>
    /\ doomed' = doomed \cup assets
    /\ assets' = {}
    /\ UNCHANGED <<stream, worker, orphans, stored, remote>>

\* An administrator deletes the user: the active jobs are canceled in place.
deleteUser ==
    /\ Spend("delete_user")
    /\ job' = CanceledIfActive
    /\ UNCHANGED <<runs, queues, worker, orphans, stored, assets, doomed, remote>>

-----------------------------------------------------------------------------
(* Maintenance *)

\* dispatchOutbox: XADD, then dispatched_at.  A crash between the two, or a
\* second worker's tick that selected the same row, publishes it twice.
dispatchOutbox ==
    /\ \E m \in events :
        /\ stream' = stream \cup {m}
        /\ \/ events' = events \ {m} /\ UNCHANGED left
           \/ Spend("duplicate") /\ UNCHANGED events
    /\ UNCHANGED <<job, runs, keys, worker, orphans, stored, assets, doomed, remote>>

\* Mutant: the scan's list of states leaves out 'waiting'.
PollAllButWaiting(a) ==
    LET key == Key("provider-run-poll", a, runs[a].rev) IN
    /\ runs[a].state \in NonTerminalStates \ {"waiting"}
    /\ runs[a].due
    /\ runs[a].lease = NoWorker
    /\ runs[a].rev < MaxRev
    /\ key \notin keys
    /\ InsertEvent(a, key)
    /\ UNCHANGED <<job, runs, stream, worker, outside>>

\* dispatchDueProviderRuns: one poll event per run and revision, ever.
dispatchDueProviderRun(a) ==
    LET key == Key("provider-run-poll", a, runs[a].rev) IN
    /\ isNonTerminalRunState(runs[a])
    /\ runs[a].due
    /\ runs[a].lease = NoWorker
    /\ runs[a].rev < MaxRev
    /\ key \notin keys
    /\ InsertEvent(a, key)
    /\ UNCHANGED <<job, runs, stream, worker, outside>>

\* handleCancellations for this job.
handleCancellation ==
    /\ job.cancelReq
    /\ ~job.deleted
    /\ \/ /\ NoLatestLive
          /\ \/ job.status \in {"queued", "retry_wait"}
             \/ job.status = "running" /\ \A a \in Attempts : ~Exists(runs[a])
          /\ job' = [job EXCEPT !.status = "canceled"]
          /\ UNCHANGED <<events, keys>>
       \/ /\ job.status \in ActiveStatuses
          /\ \E a \in Attempts :
                LET key == Key("provider-run-cancel", a, runs[a].rev) IN
                /\ IsLatestLive(a)
                /\ runs[a].rev < MaxRev
                /\ key \notin keys
                /\ InsertEvent(a, key)
          /\ UNCHANGED job
    /\ UNCHANGED <<runs, stream, worker, outside>>

\* The asset_deletion_jobs sweep deletes the objects of deleted assets.
deleteDoomedObject(a) ==
    /\ a \in doomed
    /\ stored' = stored \ {a}
    /\ doomed' = doomed \ {a}
    /\ UNCHANGED <<job, runs, queues, orphans, worker, assets, remote, left>>

-----------------------------------------------------------------------------
(* Specification *)

\* What a worker does by itself, without a failure of its surroundings.
WorkerStep(k) ==
    \/ ClaimJob(k) \/ CancelAtClaim(k) \/ IgnoreClaim(k) \/ PollMessage(k)
    \/ CancelClaimed(k) \/ ContinueClaimed(k)
    \/ AcquireCapacity(k) \/ Requeue(k) \/ Submit(k)
    \/ retrySyncSubmit(k) \/ RetryConflict(k) \/ SubmitFailed(k)
    \/ SubmitUnclear(k) \/ SubmitStored(k)
    \/ ResultFailed(k) \/ ResultCanceled(k) \/ StartImport(k)
    \/ ImportOutputs(k) \/ PersistSuccess(k) \/ PersistRefused(k)
    \/ Poll(k) \/ PollFailed(k) \/ PollJobDeleted(k) \/ PollUnclear(k)
    \/ PollStored(k) \/ PollTemporary(k)
    \/ RequestCancel(k) \/ FinishCancel(k) \/ CatchFailure(k)

\* What may fail around it, within the budget.
WorkerFault(k) ==
    \/ PreprocessFails(k) \/ DenyCapacity(k) \/ ModelNotFound(k)
    \/ InputsFail(k) \/ CountMismatch(k) \/ ImportFails(k) \/ PollThrows(k)
    \/ RequestCancelFails(k) \/ Crash(k)

UserStep == cancelJob \/ retryJob \/ deleteJobWithAssets \/ deleteUser

Maintenance ==
    \/ dispatchOutbox
    \/ handleCancellation
    \/ \E o \in orphans : claimStalePending(o)
    \/ \E a \in Attempts : dispatchDueProviderRun(a) \/ deleteDoomedObject(a)

Time == \E a \in Attempts : ExpireLease(a) \/ ActionFallsDue(a)

Next ==
    \/ \E k \in Workers : WorkerStep(k) \/ WorkerFault(k)
    \/ UserStep
    \/ Maintenance
    \/ Time

Spec == Init /\ [][Next]_vars

\* Every live worker keeps consuming (consume loops forever, an await
\* settles), the five-second maintenance tick keeps running and time passes.
\* No user, no failure and no provider answer in particular is fair.
Fairness ==
    /\ \A k \in Workers : WF_vars(WorkerStep(k))
    /\ WF_vars(dispatchOutbox)
    /\ WF_vars(handleCancellation)
    /\ WF_vars(\E o \in orphans : claimStalePending(o))
    /\ \A a \in Attempts :
        /\ WF_vars(dispatchDueProviderRun(a))
        /\ WF_vars(deleteDoomedObject(a))
        /\ WF_vars(ExpireLease(a) /\ Abandoned(a))
        /\ WF_vars(ActionFallsDue(a))

FairSpec == Spec /\ Fairness

-----------------------------------------------------------------------------
(* Properties *)

\* A run in a terminal state holds no capacity of its model: however the run
\* ended (result, cancel, failed import, recovery), the write that ended it
\* released the reservation, and nothing reserves it again.
ReleasedWhenTerminal ==
    \A a \in Attempts : runs[a].state \in TerminalStates => ~runs[a].reserved

\* A job never has two runs in flight: retries, redeliveries and polls either
\* go on with the live run or open a new one after it ended.
SingleLiveRun ==
    \A a, b \in Attempts :
        isNonTerminalRunState(runs[a]) /\ isNonTerminalRunState(runs[b]) => a = b

MaybeAccepted(a) == remote[a] \notin {"none", "refused"}

\* No automatic resubmission after one the provider may have accepted: the
\* same generation is not ordered (and paid for) twice.
NoBlindResubmit ==
    \A a, b \in Attempts : MaybeAccepted(a) /\ MaybeAccepted(b) => a = b

\* A succeeded job has the outputs of exactly one run as assets, and their
\* objects are in the bucket: no loser of a race, failed import or cleanup
\* removed them, and no second run added its own.
SucceededHasMedia ==
    job.status = "succeeded" /\ ~job.deleted
        => \E a \in Attempts : assets = {a} /\ a \in stored

\* While a worker holds downloaded outputs ready to be persisted, the job has
\* not been failed or sent back to the queue by anybody else: only the user
\* takes a result away.
SuccessNotOverruled ==
    \A k \in Workers :
        worker[k].pc = "persist" => job.status \in {"running", "canceled"} \/ job.deleted

\* A terminal job is left only by the owner's retry, which starts it over.
TerminalStatusFinal ==
    [][ job.status \in terminalStatuses /\ job'.status # job.status
          => /\ job.status = "failed" /\ job'.status = "queued"
             /\ job'.attempt = 0 /\ ~job'.cancelReq ]_job

\* A run that has ended is not brought back to life by a worker that still works on it, nor made a
\* success of: what moves it again is a cancellation handled late, or a late failure.
TerminalRunFinal ==
    [][ \A a \in Attempts :
          runs[a].state \in TerminalStates /\ runs'[a].state # runs[a].state
            => runs'[a].state \in {"canceling", "canceled", "failed"} ]_runs

\* A requested cancellation ends the job even if the provider never answers.
CancelEnds == job.cancelReq ~> job.status \in terminalStatuses

\* Every job ends, its automatic retries are followed up, and capacity still held when it has
\* ended is given back.
ReachesEnd == job.status \in ActiveStatuses ~> job.status \in terminalStatuses
CapacityFreed ==
    job.status \in terminalStatuses /\ (\E a \in Attempts : runs[a].reserved)
        ~> \A a \in Attempts : ~runs[a].reserved
JobEnds == ReachesEnd /\ CapacityFreed
=============================================================================
