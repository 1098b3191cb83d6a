---------------------------- MODULE MediaUploads ----------------------------
(***************************************************************************)
(* Input images of a user: the presigned upload, its completion, deletion   *)
(* and attachment to a job, the worker's two sweeps, and the deletion of    *)
(* the account.                                                             *)
(*                                                                          *)
(* Each upload has a row in generation_input_images ("legacy") and a mirror *)
(* in media_uploads, written by separate statements.  A request may stop    *)
(* between any two of its statements, and storage may refuse a deletion.    *)
(***************************************************************************)
EXTENDS FiniteSets, Naturals

CONSTANTS
    Uploads,     \* upload ids of one user
    Completions, \* concurrent calls of completeGenerationUpload for an upload
    Requests,    \* concurrent calls of createGenerationJob
    Keys,        \* idempotency keys
    MaxActive    \* MAX_ACTIVE_UPLOADS

VARIABLES
    legacy,      \* generation_input_images
    mirror,      \* media_uploads
    stored,      \* the object: not sent yet, good or bad bytes, or deleted
    posting,     \* uploads whose presigned POST is still accepted
    expired,     \* uploads past expires_at
    completing,  \* per upload: its completeGenerationUpload calls, which may overlap
    deleting,    \* per upload: its deleteGenerationUpload call
    creating,    \* per request: its transaction
    jobs,        \* committed generation_jobs with their inputs
    sweeping,    \* per table and upload: what the worker's sweep is doing
    account      \* the owner, and the deletion_jobs row once it was deleted

vars == <<legacy, mirror, stored, posting, expired, completing, deleting, creating,
          jobs, sweeping, account>>
tables == <<legacy, mirror>>
time == <<posting, expired>>
calls == <<completing, deleting>>

Row == [status : {"none", "pending", "ready", "attached", "deleted"}, purged : BOOLEAN]
Absent == [status |-> "none", purged |-> FALSE]
Tables == {"legacy", "mirror"}
Job == [key : Keys, inputs : SUBSET Uploads, live : SUBSET Uploads]
Creating == [pc : {"idle", "inserted", "locked"}, key : Keys \cup {"none"}, inputs : SUBSET Uploads]
Idle == [pc |-> "idle", key |-> "none", inputs |-> {}]
NoSweep == "no"
Stages == {"no", "reading", "validated", "readied", "rejecting", "rejectLegacy", "rejectMirror"}
Sweeps == {NoSweep, "expired", "softDeleted", "expiredRemoved", "softDeletedRemoved"}

\* Every variable has the shape the code gives it.
TypeOK ==
    /\ legacy \in [Uploads -> Row]
    /\ mirror \in [Uploads -> Row]
    /\ stored \in [Uploads -> {"unsent", "good", "bad", "gone"}]
    /\ posting \subseteq Uploads
    /\ expired \subseteq Uploads
    /\ completing \in [Uploads -> [Completions -> Stages]]
    /\ deleting \in [Uploads -> {"no", "mirror", "object"}]
    /\ creating \in [Requests -> Creating]
    /\ jobs \subseteq Job
    /\ sweeping \in [Tables -> [Uploads -> Sweeps]]
    /\ account \in {"active", "waiting", "removing"}

Init ==
    /\ legacy = [u \in Uploads |-> Absent]
    /\ mirror = [u \in Uploads |-> Absent]
    /\ stored = [u \in Uploads |-> "unsent"]
    /\ posting = {}
    /\ expired = {}
    /\ completing = [u \in Uploads |-> [c \in Completions |-> "no"]]
    /\ deleting = [u \in Uploads |-> "no"]
    /\ creating = [r \in Requests |-> Idle]
    /\ jobs = {}
    /\ sweeping = [t \in Tables |-> [u \in Uploads |-> NoSweep]]
    /\ account = "active"

Table(t) == IF t = "legacy" THEN legacy ELSE mirror
\* Rows that count, expire and can be deleted: status IN ('pending','ready').
Open(row) == row.status \in {"pending", "ready"}
Present(u) == stored[u] \in {"good", "bad"}

\* DeleteObject succeeds also when there is no object.
WithoutObject(u) == [stored EXCEPT ![u] = IF Present(u) THEN "gone" ELSE @]

\* Rows locked by the FOR UPDATE of a job being created; statements on them wait.
Locked(u) == \E r \in Requests : creating[r].pc = "locked" /\ u \in creating[r].inputs
-----------------------------------------------------------------------------
(* createGenerationUpload: the count under the lock on the user row and both   *)
(* inserts are one transaction.                                                *)
ActiveUploads == {u \in Uploads : Open(legacy[u]) /\ u \notin expired}

createGenerationUpload(u) ==
    /\ account = "active"
    /\ legacy[u] = Absent /\ mirror[u] = Absent
    /\ Cardinality(ActiveUploads) < MaxActive
    /\ legacy' = [legacy EXCEPT ![u].status = "pending"]
    /\ mirror' = [mirror EXCEPT ![u].status = "pending"]
    /\ posting' = posting \cup {u}
    /\ UNCHANGED <<stored, expired, calls, creating, jobs, sweeping, account>>

\* Signing the POST throws: only the legacy row is taken back.
SigningFails(u) ==
    /\ account = "active"
    /\ legacy[u] = Absent /\ mirror[u] = Absent
    /\ Cardinality(ActiveUploads) < MaxActive
    /\ mirror' = [mirror EXCEPT ![u].status = "pending"]
    /\ UNCHANGED <<legacy, stored, time, calls, creating, jobs, sweeping, account>>

\* A POST arrives while the signature is accepted, however late and however often: it may
\* replace bytes that were validated or attached, and bring back a deleted object.
Post(u) ==
    /\ u \in posting
    /\ \E bytes \in {"good", "bad"} : stored' = [stored EXCEPT ![u] = bytes]
    /\ UNCHANGED <<tables, time, calls, creating, jobs, sweeping, account>>
-----------------------------------------------------------------------------
(* completeGenerationUpload: one action per statement and storage call.  Calls *)
(* for one upload may overlap, and each acts on what it read itself.           *)
Completing(u, c, from, to) ==
    /\ completing[u][c] = from
    /\ completing' = [completing EXCEPT ![u][c] = to]
    /\ UNCHANGED <<posting, expired, deleting, creating, jobs, sweeping, account>>

\* Mutant: an upload that is ready or attached is inspected again.
ReadUploadAgain(u, c) ==
    /\ account = "active"
    /\ legacy[u].status \in {"pending", "ready", "attached"}
    /\ Completing(u, c, "no", IF u \in expired THEN "rejecting" ELSE "reading")
    /\ UNCHANGED <<tables, stored>>

ReadUpload(u, c) ==
    /\ account = "active"
    /\ legacy[u].status = "pending"
    /\ Completing(u, c, "no", IF u \in expired THEN "rejecting" ELSE "reading")
    /\ UNCHANGED <<tables, stored>>

InspectBytes(u, c) ==
    /\ Completing(u, c, "reading", CASE stored[u] = "good" -> "validated"
                                     [] stored[u] = "bad" -> "rejecting"
                                     [] OTHER -> "no")
    /\ UNCHANGED <<tables, stored>>

SetLegacyReady(u, c) ==
    /\ Completing(u, c, "validated", "readied")
    /\ legacy' = [legacy EXCEPT ![u].status = IF @ = "pending" THEN "ready" ELSE @]
    /\ UNCHANGED <<mirror, stored>>

SetMirrorReady(u, c) ==
    /\ ~ Locked(u)
    /\ Completing(u, c, "readied", "no")
    /\ mirror' = [mirror EXCEPT ![u].status = IF @ = "pending" THEN "ready" ELSE @]
    /\ UNCHANGED <<legacy, stored>>

\* rejectUpload: the object first, then both rows, whatever their status is by then.
RejectObject(u, c) ==
    /\ Completing(u, c, "rejecting", "rejectLegacy")
    /\ stored' \in {stored, WithoutObject(u)}
    /\ UNCHANGED tables

RejectLegacy(u, c) ==
    /\ Completing(u, c, "rejectLegacy", "rejectMirror")
    /\ legacy' = [legacy EXCEPT ![u].status = IF @ = "none" THEN @ ELSE "deleted"]
    /\ UNCHANGED <<mirror, stored>>

RejectMirror(u, c) ==
    /\ ~ Locked(u)
    /\ Completing(u, c, "rejectMirror", "no")
    /\ mirror' = [mirror EXCEPT ![u].status = "deleted"]
    /\ UNCHANGED <<legacy, stored>>

\* No completion of the upload under way may still reject it.
Settled(u) == \A c \in Completions : completing[u][c] \in {"no", "validated", "readied"}
-----------------------------------------------------------------------------
(* deleteGenerationUpload                                                      *)
Deleting(u, from, to) ==
    /\ deleting[u] = from
    /\ deleting' = [deleting EXCEPT ![u] = to]
    /\ UNCHANGED <<posting, expired, completing, creating, jobs, sweeping, account>>

DeleteLegacy(u) ==
    /\ account = "active"
    /\ Open(legacy[u])
    /\ Deleting(u, "no", "mirror")
    /\ legacy' = [legacy EXCEPT ![u].status = "deleted"]
    /\ UNCHANGED <<mirror, stored>>

DeleteMirror(u) ==
    /\ ~ Locked(u)
    /\ Deleting(u, "mirror", "object")
    /\ mirror' = [mirror EXCEPT ![u].status = IF Open(mirror[u]) THEN "deleted" ELSE @]
    /\ UNCHANGED <<legacy, stored>>

DeleteObject(u) ==
    /\ Deleting(u, "object", "no")
    /\ stored' \in {stored, WithoutObject(u)}
    /\ UNCHANGED tables

\* The API process dies in the middle of a call, or the call's connection does.
CallStops(u) ==
    /\ \/ /\ UNCHANGED deleting
          /\ \E c \in Completions : /\ completing[u][c] # "no"
                                    /\ completing' = [completing EXCEPT ![u][c] = "no"]
       \/ deleting[u] # "no" /\ deleting' = [deleting EXCEPT ![u] = "no"] /\ UNCHANGED completing
    /\ UNCHANGED <<tables, stored, time, creating, jobs, sweeping, account>>
-----------------------------------------------------------------------------
(* createGenerationJob: one transaction per request.                            *)
Replays(k) == \E j \in jobs : j.key = k

InTransaction(r, to) ==
    /\ creating' = [creating EXCEPT ![r] = to]
    /\ UNCHANGED <<tables, stored, time, calls, jobs, sweeping, account>>

\* INSERT ... ON CONFLICT (created_by, idempotency_key) DO NOTHING: a request whose key has
\* a committed job is answered with that job, and one whose key another transaction has
\* inserted waits for that transaction to end.  The request was let in while the account
\* was active, and may still go on afterwards.
InsertJob(r, k, inputs) ==
    /\ creating[r] = Idle
    /\ ~ Replays(k)
    /\ \A other \in Requests : creating[other].key # k
    /\ InTransaction(r, [pc |-> "inserted", key |-> k, inputs |-> inputs])

\* validateAndAttachGenerationUploads reads the mirror rows FOR UPDATE.
Attachable(u) == mirror[u].status = "ready" /\ u \notin expired

LockInputs(r) ==
    /\ creating[r].pc = "inserted"
    /\ \A u \in creating[r].inputs : ~ Locked(u)
    /\ InTransaction(r, IF \A u \in creating[r].inputs : Attachable(u)
                          THEN [creating[r] EXCEPT !.pc = "locked"] ELSE Idle)

\* Both rows of each input become attached; `live` records which of them were whole when
\* the job was committed: the object was there, its owner had neither deleted it nor let
\* it expire, and no completion had still to decide on it.
CommitJob(r) ==
    /\ creating[r].pc = "locked"
    /\ LET S == creating[r].inputs
           Attached(table) == [u \in Uploads |-> IF u \in S /\ table[u].status # "none"
                                                   THEN [table[u] EXCEPT !.status = "attached"]
                                                   ELSE table[u]]
       IN /\ mirror' = Attached(mirror)
          /\ legacy' = Attached(legacy)
          /\ jobs' = jobs \cup {[ key |-> creating[r].key, inputs |-> S,
                                  live |-> {u \in S : /\ legacy[u].status = "ready" /\ u \notin expired
                                                    /\ Present(u) /\ Settled(u)} ]}
    /\ creating' = [creating EXCEPT ![r] = Idle]
    /\ UNCHANGED <<stored, time, calls, sweeping, account>>

RollBack(r) == creating[r] # Idle /\ InTransaction(r, Idle)
-----------------------------------------------------------------------------
(* maintenance: expired rows and, after the signature's lifetime, deleted ones. *)
Sweeping(t, u, to) ==
    /\ sweeping' = [sweeping EXCEPT ![t][u] = to]
    /\ UNCHANGED <<time, calls, creating, jobs, account>>

\* Mutant: only uploads never completed expire.
SelectExpiredPending(t, u) ==
    /\ sweeping[t][u] = NoSweep
    /\ Table(t)[u].status = "pending" /\ u \in expired /\ ~ Table(t)[u].purged
    /\ Sweeping(t, u, "expired")
    /\ UNCHANGED <<tables, stored>>

SelectExpired(t, u) ==
    /\ sweeping[t][u] = NoSweep
    /\ Open(Table(t)[u]) /\ u \in expired /\ ~ Table(t)[u].purged
    /\ Sweeping(t, u, "expired")
    /\ UNCHANGED <<tables, stored>>

\* Mutant: a deleted upload is purged at once, while its POST is still accepted.
SelectSoftDeletedAtOnce(t, u) ==
    /\ sweeping[t][u] = NoSweep
    /\ Table(t)[u].status = "deleted" /\ ~ Table(t)[u].purged
    /\ Sweeping(t, u, "softDeleted")
    /\ UNCHANGED <<tables, stored>>

\* deleted_at < now() - signedUrlTtl: the POST was signed before the deletion.
SelectSoftDeleted(t, u) ==
    /\ sweeping[t][u] = NoSweep
    /\ Table(t)[u].status = "deleted" /\ u \notin posting /\ ~ Table(t)[u].purged
    /\ Sweeping(t, u, "softDeleted")
    /\ UNCHANGED <<tables, stored>>

RemoveSwept(t, u) ==
    /\ \/ sweeping[t][u] = "expired" /\ Sweeping(t, u, "expiredRemoved")
       \/ sweeping[t][u] = "softDeleted" /\ Sweeping(t, u, "softDeletedRemoved")
    /\ stored' = WithoutObject(u)
    /\ UNCHANGED tables

\* WHERE id=$1 alone: the status is not looked at again.
Purged(row, sweep) ==
    [row EXCEPT !.purged = TRUE, !.status = IF sweep = "expiredRemoved" THEN "deleted" ELSE @]

WritePurged(t, u) ==
    /\ sweeping[t][u] \in {"expiredRemoved", "softDeletedRemoved"}
    /\ \/ /\ t = "legacy"
          /\ legacy' = [legacy EXCEPT ![u] = Purged(@, sweeping[t][u])] /\ UNCHANGED mirror
       \/ /\ t = "mirror" /\ ~ Locked(u)
          /\ mirror' = [mirror EXCEPT ![u] = Purged(@, sweeping[t][u])] /\ UNCHANGED legacy
    /\ Sweeping(t, u, NoSweep)
    /\ UNCHANGED stored

\* Storage refuses or the worker dies; the row is selected again later.
SweepStops(t, u) ==
    /\ sweeping[t][u] # NoSweep
    /\ Sweeping(t, u, NoSweep)
    /\ UNCHANGED <<tables, stored>>
-----------------------------------------------------------------------------
(* The account                                                                  *)
\* deleteUser marks the legacy rows; sessions end, calls under way do not.
deleteUser ==
    /\ account = "active"
    /\ account' = "waiting"
    /\ legacy' = [u \in Uploads |-> IF legacy[u] = Absent THEN Absent
                                      ELSE [legacy[u] EXCEPT !.status = "deleted"]]
    /\ UNCHANGED <<mirror, stored, time, calls, creating, jobs, sweeping>>

PurgeAccount ==
    /\ account = "waiting"
    /\ account' = "removing"
    /\ UNCHANGED <<tables, stored, time, calls, creating, jobs, sweeping>>

PurgeObject(u) ==
    /\ account = "removing"
    /\ ~ legacy[u].purged \/ ~ mirror[u].purged
    /\ Present(u)
    /\ stored' = WithoutObject(u)
    /\ UNCHANGED <<tables, time, calls, creating, jobs, sweeping, account>>

\* The transaction that would mark the account purged updates media_uploads with $1 and
\* no parameter: PostgreSQL refuses the statement and aborts the transaction, the catch
\* hides it, the next statement throws, and the row is left for the next tick.
PurgeAborts ==
    /\ account = "removing"
    /\ account' = "waiting"
    /\ UNCHANGED <<tables, stored, time, calls, creating, jobs, sweeping>>
-----------------------------------------------------------------------------
PostEnds(u) ==
    /\ u \in posting
    /\ posting' = posting \ {u}
    /\ UNCHANGED <<tables, stored, expired, calls, creating, jobs, sweeping, account>>

\* uploadTtlSeconds is not below signedUrlTtlSeconds, as by default (86400 and 900).
Expires(u) ==
    /\ mirror[u].status # "none"
    /\ u \notin expired \cup posting
    /\ expired' = expired \cup {u}
    /\ UNCHANGED <<tables, stored, posting, calls, creating, jobs, sweeping, account>>

Upload(u) == createGenerationUpload(u) \/ SigningFails(u) \/ Post(u)
Complete(u, c) ==
    \/ ReadUpload(u, c) \/ InspectBytes(u, c) \/ SetLegacyReady(u, c) \/ SetMirrorReady(u, c)
    \/ RejectObject(u, c) \/ RejectLegacy(u, c) \/ RejectMirror(u, c)
Delete(u) == DeleteLegacy(u) \/ DeleteMirror(u) \/ DeleteObject(u)
CreateJob(r) == \/ \E k \in Keys, S \in (SUBSET Uploads) \ {{}} : InsertJob(r, k, S)
                \/ LockInputs(r) \/ CommitJob(r) \/ RollBack(r)
Sweep(t, u) == \/ SelectExpired(t, u) \/ SelectSoftDeleted(t, u)
               \/ RemoveSwept(t, u) \/ WritePurged(t, u) \/ SweepStops(t, u)

Next ==
    \/ \E u \in Uploads : Upload(u) \/ Delete(u) \/ CallStops(u)
    \/ \E u \in Uploads, c \in Completions : Complete(u, c)
    \/ \E r \in Requests : CreateJob(r)
    \/ \E t \in Tables, u \in Uploads : Sweep(t, u)
    \/ \E u \in Uploads : PostEnds(u) \/ Expires(u) \/ PurgeObject(u)
    \/ deleteUser \/ PurgeAccount \/ PurgeAborts

\* Time passes, the maintenance tick comes back every five seconds, storage does not
\* refuse for ever, transactions end, and a purge that can go on does.
Fairness ==
    /\ WF_vars(\E u \in Uploads : PostEnds(u) \/ Expires(u))
    /\ WF_vars(\E r \in Requests : CommitJob(r) \/ RollBack(r))
    /\ WF_vars(\E t \in Tables, u \in Uploads : SelectExpired(t, u) \/ SelectSoftDeleted(t, u))
    /\ SF_vars(\E t \in Tables, u \in Uploads : RemoveSwept(t, u))
    /\ SF_vars(\E t \in Tables, u \in Uploads : WritePurged(t, u))
    /\ WF_vars(PurgeAccount \/ PurgeAborts)

Spec == Init /\ [][Next]_vars /\ Fairness
-----------------------------------------------------------------------------
InputOf(u) == \E j \in jobs : u \in j.inputs

LiveInputsKept == account = "active" => \A j \in jobs : \A u \in j.live : Present(u)
InputsNotShared == \A j1, j2 \in jobs : j1 # j2 => j1.key # j2.key /\ j1.inputs \cap j2.inputs = {}

\* validation.ts and the guards of handlers.ts: an input that was whole when its job was
\* committed is never deleted, whatever POSTs, completions, deletions and sweeps were or come
\* under way, and feeds no second job (attached_job_id and FOR UPDATE); an idempotency key
\* names one job.  An input is not whole while a completion that read the upload before
\* another one made it ready may still reject it: rejectUpload deletes it WHERE id=$1
\* alone, attached or not.
InputsProtected == LiveInputsKept /\ InputsNotShared

\* maintenance/index.ts: an object that exists is still named by a row some sweep will
\* look at, or by a job.
NoForgottenObject ==
    \A u \in Uploads : Present(u) => ~ legacy[u].purged \/ ~ mirror[u].purged \/ InputOf(u)

\* maintenance/index.ts: the object of an upload no job uses is deleted in the end, also
\* when the calls that should have deleted it stopped half way.
UnusedObjectsGo == \A u \in Uploads : Present(u) ~> (~ Present(u) \/ InputOf(u))

\* admin/users.ts:68 and canvas-cleanup.ts:3: a deletion handed to the worker is marked
\* complete once the content was scrubbed.
AccountPurged == account = "waiting" ~> account = "purged"
=============================================================================
