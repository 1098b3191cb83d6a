------------------------- MODULE GenerationJobProofs -------------------------
(***************************************************************************)
(* For every value of the constants: the types of GenerationJob, that a    *)
(* run in a terminal state holds no capacity, and, with one worker and a   *)
(* synchronous plugin, that a job that has ended stays so.  The second     *)
(* half is about asynchronous plugins and any number of workers.           *)
(***************************************************************************)
EXTENDS GenerationJob, TLAPS

\* A row that, if its state is terminal, holds no capacity.
SoundRow == {row \in RunRow : row.state \in TerminalStates => ~row.reserved}

-----------------------------------------------------------------------------
(* Writes of provider_runs keep a row sound. *)

\* A row that is inserted, or found by its client token, is sound.
LEMMA CreatedSound ==
    ASSUME NEW row \in SoundRow
    PROVE  createProviderRun(row) \in SoundRow
BY NoWorkerAssumption DEF createProviderRun, Exists, NewRun, SoundRow, RunRow,
       NonTerminalStates, TerminalStates

\* The next revision of a row is a number: what every write of a row needs.
LEMMA NextRevision ==
    ASSUME NEW row \in SoundRow
    PROVE  row \in RunRow /\ row.rev + 1 \in Nat
BY DEF SoundRow, RunRow

\* A compare-and-swap to a live state.
LEMMA MovedSound ==
    ASSUME NEW row \in SoundRow, NEW rev, NEW state \in NonTerminalStates,
           NEW due \in BOOLEAN
    PROVE  Moved(row, rev, state, due) \in SoundRow
<1>1. Moved(row, rev, state, due) \in RunRow
  BY NextRevision DEF Moved, RunRow
<1>2. row.rev = rev => Moved(row, rev, state, due).state = state
  BY NextRevision DEF Moved, RunRow
<1>3. row.rev # rev => Moved(row, rev, state, due) = row
  BY DEF Moved
<1> QED
  BY <1>1, <1>2, <1>3 DEF SoundRow, NonTerminalStates, TerminalStates

\* A compare-and-swap that stores the provider's answer.
LEMMA StoredSound ==
    ASSUME NEW row \in SoundRow, NEW rev, NEW state \in NonTerminalStates,
           NEW id \in BOOLEAN
    PROVE  Stored(row, rev, state, id) \in SoundRow
<1>1. Stored(row, rev, state, id) \in RunRow
  BY NextRevision DEF Stored, RunRow
<1>2. row.rev = rev => Stored(row, rev, state, id).state = state
  BY NextRevision DEF Stored, RunRow
<1>3. row.rev # rev => Stored(row, rev, state, id) = row
  BY DEF Stored
<1> QED
  BY <1>1, <1>2, <1>3 DEF SoundRow, NonTerminalStates, TerminalStates

\* A compare-and-swap to a terminal state releases in the same statement.
LEMMA EndedSound ==
    ASSUME NEW row \in SoundRow, NEW rev, NEW state \in TerminalStates
    PROVE  Ended(row, rev, state) \in SoundRow
<1>1. Ended(row, rev, state) \in RunRow
  BY NextRevision DEF Ended, RunRow
<1>2. row.rev = rev => ~Ended(row, rev, state).reserved
  BY NextRevision DEF Ended, RunRow
<1>3. row.rev # rev => Ended(row, rev, state) = row
  BY DEF Ended
<1> QED
  BY <1>1, <1>2, <1>3 DEF SoundRow

\* Writes that leave state and reservation alone.
LEMMA PostponedSound ==
    ASSUME NEW row \in SoundRow, NEW rev
    PROVE  Postponed(row, rev) \in SoundRow
<1>1. Postponed(row, rev) \in RunRow
  BY NextRevision DEF Postponed, RunRow
<1>2. /\ Postponed(row, rev).state = row.state
      /\ Postponed(row, rev).reserved = row.reserved
  BY NextRevision DEF Postponed, RunRow
<1> QED
  BY <1>1, <1>2 DEF SoundRow

\* Taking and releasing a lease changes neither state nor reservation.
LEMMA LeaseSound ==
    ASSUME NEW row \in SoundRow, NEW k \in Workers \cup {NoWorker}
    PROVE  /\ Leased(row, k) \in SoundRow
           /\ Unleased(row, k) \in SoundRow
BY NextRevision DEF Leased, Unleased, SoundRow, RunRow

\* The API's unguarded write moves live rows to a live state only.
LEMMA MarkedCancelingSound ==
    ASSUME NEW row \in SoundRow
    PROVE  MarkedCanceling(row) \in SoundRow
<1>1. MarkedCanceling(row) \in RunRow
  BY NextRevision DEF MarkedCanceling, RunRow, NonTerminalStates
<1>2. MarkedCanceling(row) # row => MarkedCanceling(row).state = "canceling"
  BY NextRevision DEF MarkedCanceling, RunRow
<1> QED
  BY <1>1, <1>2 DEF SoundRow, TerminalStates

-----------------------------------------------------------------------------
(* The invariant. *)

\* A worker past the claim of a job works on a run that has a number.
Unbound == {"idle", "preprocess", "catch"}
BoundWorker == {w \in Worker : w.pc \notin Unbound => w.run \in Attempts}

\* Types and released capacity together: the inductive invariant.
Inv ==
    /\ job \in Job
    /\ runs \in [Attempts -> SoundRow]
    /\ events \in SUBSET Messages
    /\ keys \in SUBSET Keys
    /\ stream \in SUBSET Messages
    /\ orphans \in SUBSET [msg : Messages, run : Messages]
    /\ worker \in [Workers -> BoundWorker]
    /\ stored \in SUBSET Attempts
    /\ assets \in SUBSET Attempts
    /\ doomed \in SUBSET Attempts
    /\ remote \in [Attempts -> RemoteStates]
    /\ left \in 0..Budget

-----------------------------------------------------------------------------
(* The helpers of the actions keep the invariant. *)

\* Replacing one row by a sound one.
LEMMA UpdateRun ==
    ASSUME NEW a,
           runs \in [Attempts -> SoundRow],
           NEW row,
           a \in Attempts => row \in SoundRow
    PROVE  [runs EXCEPT ![a] = row] \in [Attempts -> SoundRow]
OBVIOUS

\* Replacing the record of one worker.
LEMMA UpdateWorker ==
    ASSUME NEW k \in Workers,
           worker \in [Workers -> BoundWorker],
           NEW w \in BoundWorker
    PROVE  [worker EXCEPT ![k] = w] \in [Workers -> BoundWorker]
OBVIOUS

\* An idle worker is a worker.
LEMMA IdleBound == Idle \in BoundWorker
BY ConstantsAssumption DEF Idle, BoundWorker, Worker, PCs, Messages, Unbound

\* Acknowledging a message makes the worker idle.
LEMMA AcknowledgeType ==
    ASSUME NEW k \in Workers, Inv, Acknowledge(k)
    PROVE  worker' \in [Workers -> BoundWorker]
BY IdleBound, UpdateWorker DEF Inv, Acknowledge

\* Leaving a message pending puts a known message back.
LEMMA LeavePendingType ==
    ASSUME NEW k \in Workers, Inv, LeavePending(k)
    PROVE  /\ worker' \in [Workers -> BoundWorker]
           /\ stream' \in SUBSET Messages
<1>1. worker[k].msg \in Messages
  BY DEF Inv, BoundWorker, Worker
<1> QED
  BY <1>1, IdleBound, UpdateWorker DEF Inv, LeavePending

\* The message that names the job.
LEMMA ZeroMessage == 0 \in Messages
BY ConstantsAssumption DEF Messages

\* A message that names a run.
LEMMA AttemptMessage ==
    ASSUME NEW a \in Attempts
    PROVE  a \in Messages
BY ConstantsAssumption DEF Attempts, Messages

\* The budget of external events is never exceeded.
LEMMA SpendType ==
    ASSUME NEW e, left \in 0..Budget, Spend(e)
    PROVE  left' \in 0..Budget
BY ConstantsAssumption DEF Spend

\* A worker that goes on: only its program counter, answer, run and revision
\* change.
LEMMA WorkerType ==
    ASSUME NEW w \in Worker, NEW pc \in PCs
    PROVE  /\ [w EXCEPT !.pc = pc] \in Worker
           /\ [w EXCEPT !.pc = pc].pc = pc
           /\ [w EXCEPT !.pc = pc].run = w.run
BY DEF Worker

\* A worker bound to a run stays bound to it.
LEMMA GotoType ==
    ASSUME NEW k \in Workers, NEW pc \in PCs, Inv, Goto(k, pc),
           worker[k].pc \notin Unbound
    PROVE  worker' \in [Workers -> BoundWorker]
<1>0. worker[k] \in Worker /\ worker[k].run \in Attempts
  BY DEF Inv, BoundWorker
<1>1. [worker[k] EXCEPT !.pc = pc] \in BoundWorker
  BY <1>0, WorkerType DEF BoundWorker
<1>2. worker' = [worker EXCEPT ![k] = [worker[k] EXCEPT !.pc = pc]]
  BY DEF Goto
<1> QED
  BY <1>1, <1>2, UpdateWorker DEF Inv

\* A worker that enters the outer catch needs no run.
LEMMA CatchType ==
    ASSUME NEW k \in Workers, NEW res \in {"temporary", "rejected"}, Inv,
           worker' = [worker EXCEPT ![k].pc = "catch", ![k].res = res]
    PROVE  worker' \in [Workers -> BoundWorker]
<1>0. worker[k] \in Worker
  BY DEF Inv, BoundWorker
<1>1. [worker[k] EXCEPT !.pc = "catch", !.res = res] \in BoundWorker
  BY <1>0 DEF BoundWorker, Worker, Unbound, PCs, SubmitResults
<1>2. worker' = [worker EXCEPT ![k] =
                    [worker[k] EXCEPT !.pc = "catch", !.res = res]]
  BY DEF Inv
<1> QED
  BY <1>1, <1>2, UpdateWorker DEF Inv

\* An exception while the lease is held: the finally block and what follows.
LEMMA ThrowType ==
    ASSUME NEW k \in Workers, NEW res \in {"temporary", "rejected"}, Inv, Throw(k, res)
    PROVE  /\ runs' \in [Attempts -> SoundRow]
           /\ worker' \in [Workers -> BoundWorker]
           /\ stream' \in SUBSET Messages
<1>1. runs' \in [Attempts -> SoundRow]
  BY LeaseSound, UpdateRun DEF Inv, Throw
<1>2. CASE worker[k].claimed
  BY <1>1, <1>2, CatchType DEF Throw, Inv
<1>3. CASE ~worker[k].claimed
  BY <1>1, <1>3, LeavePendingType DEF Throw
<1> QED
  BY <1>2, <1>3

\* persistJobFailure writes a status of the job.
LEMMA JobFailureType ==
    ASSUME NEW retryable \in BOOLEAN, job \in Job, persistJobFailure(retryable)
    PROVE  job' \in Job
BY DEF persistJobFailure, Job, ActiveStatuses, terminalStatuses

\* The guarded cancellation writes a status of the job.
LEMMA CanceledType ==
    ASSUME job \in Job
    PROVE  CanceledIfActive \in Job
BY DEF CanceledIfActive, Job, ActiveStatuses, terminalStatuses

\* An event inserted under a key, or found there.
LEMMA InsertEventType ==
    ASSUME Inv, NEW msg \in Messages, NEW key \in Keys, InsertEvent(msg, key)
    PROVE  events' \in SUBSET Messages /\ keys' \in SUBSET Keys
BY DEF Inv, InsertEvent

\* The dedupe keys the code builds are keys.
LEMMA KeyType ==
    ASSUME NEW kind \in {"cancel", "retry", "provider-run-poll", "provider-run-cancel"},
           NEW run \in Messages, NEW rev \in Nat
    PROVE  Key(kind, run, rev) \in Keys
BY DEF Key, Keys

\* failRunTerminal: run, job and worker.
LEMMA FailRunType ==
    ASSUME NEW k \in Workers, NEW rev, Inv, failRunTerminal(k, rev)
    PROVE  /\ runs' \in [Attempts -> SoundRow]
           /\ job' \in Job
           /\ worker' \in [Workers -> BoundWorker]
<1>1. runs' \in [Attempts -> SoundRow]
  BY EndedSound, LeaseSound, UpdateRun DEF Inv, failRunTerminal, TerminalStates
<1> QED
  BY <1>1, AcknowledgeType, JobFailureType DEF Inv, failRunTerminal

\* cancelJobWithRun: run, job and worker.
LEMMA CancelRunType ==
    ASSUME NEW k \in Workers, Inv, cancelJobWithRun(k)
    PROVE  /\ runs' \in [Attempts -> SoundRow]
           /\ job' \in Job
           /\ worker' \in [Workers -> BoundWorker]
<1>1. runs' \in [Attempts -> SoundRow]
  BY EndedSound, LeaseSound, UpdateRun DEF Inv, cancelJobWithRun, TerminalStates
<1> QED
  BY <1>1, AcknowledgeType, CanceledType DEF Inv, cancelJobWithRun

-----------------------------------------------------------------------------
(* Every action keeps the invariant. *)

\* The beginning of pollProviderRun binds the worker to an existing number.
LEMMA PollFromType ==
    ASSUME NEW k \in Workers, NEW a \in Attempts, NEW msg \in Messages,
           NEW claimed \in BOOLEAN, Inv, PollFrom(k, a, msg, claimed)
    PROVE  /\ runs' \in [Attempts -> SoundRow]
           /\ worker' \in [Workers -> BoundWorker]
<1> DEFINE at(pc, res) ==
             [ pc |-> pc, msg |-> msg, claimed |-> claimed, run |-> a,
               rev |-> runs[a].rev, res |-> res, remote |-> runs[a].remote ]
           next ==
             IF job.deleted THEN at("poll_settle", "job_deleted")
             ELSE IF job.status = "canceled" \/ job.cancelReq THEN at("cancel", "none")
             ELSE IF ~isNonTerminalRunState(runs[a]) THEN Idle
             ELSE IF ~runs[a].remote THEN at("poll_settle", "no_remote")
             ELSE IF Synchronous THEN at("poll_settle", "no_poll")
             ELSE at("polling", "none")
<1>1. runs[a] \in SoundRow /\ runs[a].rev \in Nat /\ runs[a].remote \in BOOLEAN
  BY DEF Inv, SoundRow, RunRow
<1>2. a \in Messages
  BY ConstantsAssumption DEF Attempts, Messages
<1>3. \A pc \in PCs : \A res \in {"none", "job_deleted", "no_remote", "no_poll"} :
        at(pc, res) \in BoundWorker
  BY <1>1, <1>2 DEF BoundWorker, Worker
<1>4. next \in BoundWorker
  BY <1>3, IdleBound DEF PCs
<1>5. CASE runs[a].lease # NoWorker
  BY <1>5, AcknowledgeType DEF PollFrom, Inv
<1>6. CASE runs[a].lease = NoWorker
  <2>1. worker' = [worker EXCEPT ![k] = next]
    BY <1>6 DEF PollFrom
  <2>2. runs' = runs \/ runs' = [runs EXCEPT ![a] = Leased(runs[a], k)]
    BY <1>6 DEF PollFrom
  <2>3. Leased(runs[a], k) \in SoundRow
    BY <1>1, LeaseSound
  <2>4. runs' \in [Attempts -> SoundRow]
    BY <2>2, <2>3, UpdateRun DEF Inv
  <2>5. worker' \in [Workers -> BoundWorker]
    BY <1>4, <2>1, UpdateWorker DEF Inv
  <2> QED
    BY <2>4, <2>5
<1> QED
  BY <1>5, <1>6

\* The claim of a job, up to the choice between a poll and a new run.
LEMMA ClaimSteps ==
    ASSUME NEW k \in Workers, Inv,
           \/ ClaimJob(k) \/ CancelAtClaim(k) \/ IgnoreClaim(k) \/ PollMessage(k)
           \/ CancelClaimed(k) \/ ContinueClaimed(k) \/ PreprocessFails(k)
    PROVE  Inv'
<1>1. CASE ClaimJob(k)
  <2>1. [Idle EXCEPT !.pc = "preprocess", !.claimed = TRUE] \in BoundWorker
    BY IdleBound DEF BoundWorker, Worker, PCs, Unbound
  <2>2. worker' \in [Workers -> BoundWorker]
    BY <1>1, <2>1, UpdateWorker DEF ClaimJob, Inv
  <2>3. job \in Job /\ job.attempt + 1 \in 0..MaxAttempt
    BY <1>1, ConstantsAssumption DEF ClaimJob, Inv, Job
  <2>4. job' \in Job
    BY <1>1, <2>3 DEF ClaimJob, Job, ActiveStatuses
  <2> QED
    BY <1>1, <2>2, <2>4 DEF ClaimJob, Takes, Inv, outside
<1>2. CASE CancelAtClaim(k)
  <2>1. job' \in Job
    BY <1>2 DEF CancelAtClaim, Inv, Job, terminalStatuses
  <2> QED
    BY <1>2, <2>1 DEF CancelAtClaim, Takes, Inv, outside
<1>3. CASE IgnoreClaim(k)
  <2>1. runs' \in [Attempts -> SoundRow] /\ worker' \in [Workers -> BoundWorker]
    <3>1. CASE UNCHANGED <<runs, worker>>
      BY <3>1 DEF Inv
    <3>2. CASE \E a \in Attempts : PollFrom(k, a, 0, FALSE)
      <4>1. PICK a \in Attempts : PollFrom(k, a, 0, FALSE)
        BY <3>2
      <4> QED
        BY <4>1, PollFromType, ZeroMessage
    <3> QED
      BY <1>3, <3>1, <3>2 DEF IgnoreClaim
  <2> QED
    BY <1>3, <2>1 DEF IgnoreClaim, Takes, Inv, outside
<1>4. CASE PollMessage(k)
  <2>1. PICK a \in Attempts : Takes(k, a) /\ PollFrom(k, a, a, FALSE)
    BY <1>4 DEF PollMessage
  <2>2. a \in Messages
    BY ConstantsAssumption DEF Attempts, Messages
  <2>3. runs' \in [Attempts -> SoundRow] /\ worker' \in [Workers -> BoundWorker]
    BY <2>1, <2>2, PollFromType
  <2> QED
    BY <1>4, <2>1, <2>3 DEF PollMessage, Takes, Inv, outside
<1>5. CASE CancelClaimed(k)
  <2>1. CASE \E a \in Attempts :
                worker' = [worker EXCEPT ![k].pc = "cancel", ![k].run = a,
                                         ![k].rev = runs[a].rev]
             /\ UNCHANGED job
    <3>1. PICK a \in Attempts :
                worker' = [worker EXCEPT ![k].pc = "cancel", ![k].run = a,
                                         ![k].rev = runs[a].rev]
      BY <2>1
    <3>2. worker[k] \in Worker /\ runs[a].rev \in Nat /\ a \in Messages
      BY ConstantsAssumption DEF Inv, BoundWorker, SoundRow, RunRow, Attempts, Messages
    <3>3. [worker[k] EXCEPT !.pc = "cancel", !.run = a, !.rev = runs[a].rev]
            \in BoundWorker
      BY <3>2 DEF BoundWorker, Worker, PCs
    <3>4. worker' = [worker EXCEPT ![k] =
                 [worker[k] EXCEPT !.pc = "cancel", !.run = a, !.rev = runs[a].rev]]
      BY <3>1
    <3>5. worker' \in [Workers -> BoundWorker]
      BY <3>3, <3>4, UpdateWorker DEF Inv
    <3> QED
      BY <1>5, <2>1, <3>5 DEF CancelClaimed, Inv, queues, outside
  <2>2. CASE /\ job' = IF job.deleted THEN job ELSE [job EXCEPT !.status = "canceled"]
             /\ Acknowledge(k)
    <3>1. job' \in Job
      BY <2>2 DEF Inv, Job, terminalStatuses
    <3> QED
      BY <1>5, <2>2, <3>1, AcknowledgeType DEF CancelClaimed, Inv, queues, outside
  <2> QED
    BY <1>5, <2>1, <2>2 DEF CancelClaimed
<1>6. CASE ContinueClaimed(k)
  <2>1. CASE \E a \in Attempts : PollFrom(k, a, 0, TRUE)
    <3>1. runs' \in [Attempts -> SoundRow] /\ worker' \in [Workers -> BoundWorker]
      <4>1. PICK a \in Attempts : PollFrom(k, a, 0, TRUE)
        BY <2>1
      <4> QED
        BY <4>1, PollFromType, ZeroMessage
    <3> QED
      BY <1>6, <3>1 DEF ContinueClaimed, Inv, queues, outside
  <2>2. CASE /\ worker' = [worker EXCEPT ![k].pc = "acquire",
                              ![k].run = IF job.attempt = 0 THEN 1 ELSE job.attempt]
             /\ UNCHANGED runs
    <3> DEFINE a == IF job.attempt = 0 THEN 1 ELSE job.attempt
    <3>1. a \in Attempts /\ a \in Messages /\ worker[k] \in Worker
      BY ConstantsAssumption DEF Inv, Job, Attempts, Messages, BoundWorker
    <3>2. [worker[k] EXCEPT !.pc = "acquire", !.run = a] \in BoundWorker
      BY <3>1 DEF BoundWorker, Worker, PCs
    <3>3. worker' = [worker EXCEPT ![k] =
                        [worker[k] EXCEPT !.pc = "acquire", !.run = a]]
      BY <2>2
    <3>4. worker' \in [Workers -> BoundWorker]
      BY <3>2, <3>3, UpdateWorker DEF Inv
    <3> QED
      BY <1>6, <2>2, <3>4 DEF ContinueClaimed, Inv, queues, outside
  <2> QED
    BY <1>6, <2>1, <2>2 DEF ContinueClaimed
<1>7. CASE PreprocessFails(k)
  <2>1. PICK res \in {"temporary", "rejected"} :
          worker' = [worker EXCEPT ![k].pc = "catch", ![k].res = res]
    BY <1>7 DEF PreprocessFails
  <2>2. worker' \in [Workers -> BoundWorker]
    BY <2>1, CatchType
  <2>3. left' \in 0..Budget
    BY <1>7, SpendType DEF PreprocessFails, Inv
  <2> QED
    BY <1>7, <2>2, <2>3 DEF PreprocessFails, Inv, queues
<1> QED
  BY <1>1, <1>2, <1>3, <1>4, <1>5, <1>6, <1>7

\* What is known of a worker bound to a run.
LEMMA BoundType ==
    ASSUME Inv, NEW k \in Workers, worker[k].pc \notin Unbound
    PROVE  /\ worker[k] \in Worker
           /\ worker[k].run \in Attempts
           /\ worker[k].run \in Messages
           /\ runs[worker[k].run] \in SoundRow
           /\ runs[worker[k].run].rev \in Nat
BY AttemptMessage DEF Inv, BoundWorker, SoundRow, RunRow

\* Capacity and submission.
LEMMA SubmitSteps ==
    ASSUME NEW k \in Workers, Inv,
           \/ AcquireCapacity(k) \/ DenyCapacity(k) \/ Requeue(k)
           \/ ModelNotFound(k) \/ InputsFail(k) \/ Submit(k)
    PROVE  Inv'
<1>1. CASE AcquireCapacity(k)
  <2> DEFINE a == worker[k].run
             row == createProviderRun(runs[a])
  <2>1. worker[k] \in Worker /\ a \in Attempts /\ runs[a] \in SoundRow
    BY <1>1, BoundType DEF AcquireCapacity, Unbound
  <2>2. row \in SoundRow /\ row.rev \in Nat
    BY <2>1, CreatedSound DEF SoundRow, RunRow
  <2>3. runs' = [runs EXCEPT ![a] = row]
    BY <1>1 DEF AcquireCapacity
  <2>4. runs' \in [Attempts -> SoundRow]
    BY <2>2, <2>3, UpdateRun DEF Inv
  <2>5. [worker[k] EXCEPT !.pc = "submit", !.rev = row.rev] \in BoundWorker
    BY <2>1, <2>2 DEF BoundWorker, Worker, PCs
  <2>6. worker' = [worker EXCEPT ![k] =
                      [worker[k] EXCEPT !.pc = "submit", !.rev = row.rev]]
    BY <1>1 DEF AcquireCapacity
  <2>7. worker' \in [Workers -> BoundWorker]
    BY <2>5, <2>6, UpdateWorker DEF Inv
  <2> QED
    BY <1>1, <2>4, <2>7 DEF AcquireCapacity, Inv, queues, outside
<1>2. CASE DenyCapacity(k)
  <2>1. job' \in Job
    BY <1>2 DEF DenyCapacity, Inv, Job, ActiveStatuses
  <2>2. worker' \in [Workers -> BoundWorker]
    BY <1>2, GotoType DEF DenyCapacity, PCs, Unbound
  <2>3. left' \in 0..Budget
    BY <1>2, SpendType DEF DenyCapacity, Inv
  <2> QED
    BY <1>2, <2>1, <2>2, <2>3 DEF DenyCapacity, Inv, queues
<1>3. CASE Requeue(k)
  <2>1. worker' \in [Workers -> BoundWorker]
    BY <1>3, AcknowledgeType DEF Requeue
  <2> QED
    BY <1>3, <2>1, ZeroMessage DEF Requeue, Inv, outside
<1>4. CASE ModelNotFound(k)
  <2>1. job' \in Job
    BY <1>4, JobFailureType DEF ModelNotFound, Inv
  <2>2. worker' \in [Workers -> BoundWorker]
    BY <1>4, AcknowledgeType DEF ModelNotFound
  <2>3. left' \in 0..Budget
    BY <1>4, SpendType DEF ModelNotFound, Inv
  <2> QED
    BY <1>4, <2>1, <2>2, <2>3 DEF ModelNotFound, Inv, queues
<1>5. CASE InputsFail(k)
  <2>1. PICK res \in {"temporary", "rejected"} :
          worker' = [worker EXCEPT ![k].pc = "catch", ![k].res = res]
    BY <1>5 DEF InputsFail
  <2>2. worker' \in [Workers -> BoundWorker]
    BY <2>1, CatchType
  <2>3. left' \in 0..Budget
    BY <1>5, SpendType DEF InputsFail, Inv
  <2> QED
    BY <1>5, <2>2, <2>3 DEF InputsFail, Inv, queues
<1>6. CASE Submit(k)
  <2> DEFINE outcome(res) ==
               CASE res \in {"rate_limited", "rejected"} -> "refused"
                 [] res \in {"succeeded", "failed", "canceled"} -> "ended"
                 [] OTHER -> "accepted"
  <2>1. PICK res \in SubmitResults, id \in BOOLEAN :
          /\ worker' = [worker EXCEPT ![k].pc = "submit_settle", ![k].res = res,
                                      ![k].remote = id]
          /\ remote' = [remote EXCEPT ![worker[k].run] = outcome(res)]
    BY <1>6 DEF Submit
  <2>2. worker[k] \in Worker /\ worker[k].run \in Attempts
    BY <1>6, BoundType DEF Submit, Unbound
  <2>3. [worker[k] EXCEPT !.pc = "submit_settle", !.res = res, !.remote = id]
          \in BoundWorker
    BY <2>2 DEF BoundWorker, Worker, PCs
  <2>4. worker' = [worker EXCEPT ![k] =
           [worker[k] EXCEPT !.pc = "submit_settle", !.res = res, !.remote = id]]
    BY <2>1
  <2>5. worker' \in [Workers -> BoundWorker]
    BY <2>3, <2>4, UpdateWorker DEF Inv
  <2>6. outcome(res) \in RemoteStates
    BY DEF RemoteStates
  <2>7. remote' \in [Attempts -> RemoteStates]
    BY <2>1, <2>6 DEF Inv
  <2> QED
    BY <1>6, <2>5, <2>7 DEF Submit, Inv, queues
<1> QED
  BY <1>1, <1>2, <1>3, <1>4, <1>5, <1>6

\* What follows the answer to a submission.
LEMMA SettleSteps ==
    ASSUME NEW k \in Workers, Inv,
           \/ retrySyncSubmit(k) \/ RetryConflict(k) \/ SubmitFailed(k)
           \/ SubmitUnclear(k) \/ SubmitStored(k) \/ ResultFailed(k)
           \/ ResultCanceled(k) \/ CountMismatch(k)
    PROVE  Inv'
<1>1. CASE retrySyncSubmit(k)
  <2> DEFINE a == worker[k].run
  <2>1. a \in Attempts /\ a \in Messages /\ runs[a] \in SoundRow
    BY <1>1, BoundType DEF retrySyncSubmit, Settling, Unbound
  <2>2. runs' = [runs EXCEPT ![a] = Ended(runs[a], worker[k].rev, "failed")]
    BY <1>1 DEF retrySyncSubmit
  <2>3. runs' \in [Attempts -> SoundRow]
    BY <2>1, <2>2, EndedSound, UpdateRun DEF Inv, TerminalStates
  <2>4. job' \in Job
    BY <1>1, JobFailureType DEF retrySyncSubmit, Inv
  <2>5. Key("retry", a, 0) \in Keys
    BY <2>1, KeyType
  <2>6. events' \in SUBSET Messages /\ keys' \in SUBSET Keys
    BY <1>1, <2>5, ZeroMessage, InsertEventType DEF retrySyncSubmit
  <2>7. worker' \in [Workers -> BoundWorker]
    BY <1>1, AcknowledgeType DEF retrySyncSubmit
  <2> QED
    BY <1>1, <2>3, <2>4, <2>6, <2>7 DEF retrySyncSubmit, Inv, outside
<1>2. CASE RetryConflict(k)
  <2>1. worker' \in [Workers -> BoundWorker] /\ stream' \in SUBSET Messages
    BY <1>2, LeavePendingType DEF RetryConflict
  <2> QED
    BY <1>2, <2>1 DEF RetryConflict, Inv, outside
<1>3. CASE SubmitFailed(k)
  <2>1. failRunTerminal(k, worker[k].rev)
    BY <1>3 DEF SubmitFailed
  <2> QED
    BY <1>3, <2>1, FailRunType DEF SubmitFailed, Inv, queues, outside
<1>4. CASE SubmitUnclear(k)
  <2> DEFINE a == worker[k].run
  <2>1. a \in Attempts /\ runs[a] \in SoundRow
    BY <1>4, BoundType DEF SubmitUnclear, Settling, Unbound
  <2>2. runs' = [runs EXCEPT ![a] =
                    Moved(runs[a], worker[k].rev, "submission_unknown", FALSE)]
    BY <1>4 DEF SubmitUnclear
  <2>3. runs' \in [Attempts -> SoundRow]
    BY <2>1, <2>2, MovedSound, UpdateRun DEF Inv, NonTerminalStates
  <2>4. job' \in Job
    BY <1>4 DEF SubmitUnclear, Inv, Job, ActiveStatuses
  <2>5. worker' \in [Workers -> BoundWorker]
    BY <1>4, AcknowledgeType DEF SubmitUnclear
  <2> QED
    BY <1>4, <2>3, <2>4, <2>5 DEF SubmitUnclear, Inv, queues, outside
<1>5. CASE SubmitStored(k)
  <2> DEFINE a == worker[k].run
             state == IF worker[k].res = "submission_unknown"
                        THEN "submission_unknown" ELSE "waiting"
  <2>1. a \in Attempts /\ runs[a] \in SoundRow /\ worker[k].remote \in BOOLEAN
    BY <1>5, BoundType DEF SubmitStored, Settling, Unbound, Worker
  <2>2. state \in NonTerminalStates
    BY DEF NonTerminalStates
  <2>3. runs' = [runs EXCEPT ![a] =
                    Stored(runs[a], worker[k].rev, state, worker[k].remote)]
    BY <1>5 DEF SubmitStored
  <2>4. runs' \in [Attempts -> SoundRow]
    BY <2>1, <2>2, <2>3, StoredSound, UpdateRun DEF Inv
  <2>5. worker' \in [Workers -> BoundWorker]
    BY <1>5, AcknowledgeType DEF SubmitStored
  <2> QED
    BY <1>5, <2>4, <2>5 DEF SubmitStored, Inv, queues, outside
<1>6. CASE ResultFailed(k)
  <2>1. failRunTerminal(k, runs[worker[k].run].rev)
    BY <1>6 DEF ResultFailed
  <2> QED
    BY <1>6, <2>1, FailRunType DEF ResultFailed, Inv, queues, outside
<1>7. CASE ResultCanceled(k)
  <2>1. cancelJobWithRun(k)
    BY <1>7 DEF ResultCanceled
  <2> QED
    BY <1>7, <2>1, CancelRunType DEF ResultCanceled, Inv, queues, outside
<1>8. CASE CountMismatch(k)
  <2>1. failRunTerminal(k, worker[k].rev)
    BY <1>8 DEF CountMismatch
  <2>2. left' \in 0..Budget
    BY <1>8, SpendType DEF CountMismatch, Inv
  <2> QED
    BY <1>8, <2>1, <2>2, FailRunType DEF CountMismatch, Inv, queues
<1> QED
  BY <1>1, <1>2, <1>3, <1>4, <1>5, <1>6, <1>7, <1>8

\* The import of outputs and the transaction that persists them.
LEMMA ImportSteps ==
    ASSUME NEW k \in Workers, Inv,
           \/ StartImport(k) \/ ImportOutputs(k) \/ ImportFails(k)
           \/ PersistSuccess(k) \/ PersistRefused(k)
    PROVE  Inv'
<1> DEFINE a == worker[k].run
<1>0. /\ worker[k] \in Worker
      /\ a \in Attempts
      /\ runs[a] \in SoundRow
      /\ runs[a].rev \in Nat
  BY BoundType DEF StartImport, ImportOutputs, ImportFails, PersistSuccess,
       PersistRefused, Settled, Settling, Unbound
<1>1. CASE StartImport(k)
  <2> DEFINE row == Moved(runs[a], worker[k].rev, "importing", TRUE)
             rev == IF row = runs[a] THEN worker[k].rev ELSE row.rev
  <2>1. row \in SoundRow
    BY <1>0, MovedSound DEF NonTerminalStates
  <2>2. rev \in Nat
    BY <1>0, <2>1 DEF SoundRow, RunRow, Worker
  <2>3. runs' = [runs EXCEPT ![a] = row]
    BY <1>1 DEF StartImport
  <2>4. runs' \in [Attempts -> SoundRow]
    BY <2>1, <2>3, UpdateRun DEF Inv
  <2>5. [worker[k] EXCEPT !.pc = "import", !.rev = rev] \in BoundWorker
    BY <1>0, <2>2 DEF BoundWorker, Worker, PCs
  <2>6. worker' = [worker EXCEPT ![k] =
                      [worker[k] EXCEPT !.pc = "import", !.rev = rev]]
    BY <1>1 DEF StartImport
  <2>7. worker' \in [Workers -> BoundWorker]
    BY <2>5, <2>6, UpdateWorker DEF Inv
  <2> QED
    BY <1>1, <2>4, <2>7 DEF StartImport, Inv, queues, outside
<1>2. CASE ImportOutputs(k)
  <2> DEFINE res == IF a \in assets THEN "skipped" ELSE "uploaded"
  <2>1. [worker[k] EXCEPT !.pc = "persist", !.rev = runs[a].rev, !.res = res]
          \in BoundWorker
    BY <1>0 DEF BoundWorker, Worker, PCs
  <2>2. worker' = [worker EXCEPT ![k] =
           [worker[k] EXCEPT !.pc = "persist", !.rev = runs[a].rev, !.res = res]]
    BY <1>2 DEF ImportOutputs
  <2>3. worker' \in [Workers -> BoundWorker]
    BY <2>1, <2>2, UpdateWorker DEF Inv
  <2>4. stored' \in SUBSET Attempts
    BY <1>0, <1>2 DEF ImportOutputs, Inv
  <2> QED
    BY <1>2, <2>3, <2>4 DEF ImportOutputs, Inv, queues
<1>3. CASE ImportFails(k)
  <2>1. /\ runs' \in [Attempts -> SoundRow]
        /\ worker' \in [Workers -> BoundWorker]
        /\ stream' \in SUBSET Messages
    BY <1>3, ThrowType DEF ImportFails
  <2>2. stored' \in SUBSET Attempts
    BY <1>3 DEF ImportFails, Inv
  <2>3. left' \in 0..Budget
    BY <1>3, SpendType DEF ImportFails, Inv
  <2> QED
    BY <1>3, <2>1, <2>2, <2>3 DEF ImportFails, Inv
<1>4. CASE PersistSuccess(k)
  <2> DEFINE row == Unleased(Ended(runs[a], worker[k].rev, "succeeded"), k)
  <2>1. row \in SoundRow
    BY <1>0, EndedSound, LeaseSound DEF TerminalStates
  <2>2. runs' = [runs EXCEPT ![a] = row]
    BY <1>4 DEF PersistSuccess
  <2>3. runs' \in [Attempts -> SoundRow]
    BY <2>1, <2>2, UpdateRun DEF Inv
  <2>4. job' \in Job
    BY <1>4 DEF PersistSuccess, Inv, Job, terminalStatuses
  <2>5. worker' \in [Workers -> BoundWorker]
    BY <1>4, AcknowledgeType DEF PersistSuccess
  <2>6. assets' \in SUBSET Attempts
    BY <1>0, <1>4 DEF PersistSuccess, Inv
  <2> QED
    BY <1>4, <2>3, <2>4, <2>5, <2>6 DEF PersistSuccess, Inv, queues
<1>5. CASE PersistRefused(k)
  <2>1. runs' = [runs EXCEPT ![a] = Unleased(runs[a], k)]
    BY <1>5 DEF PersistRefused
  <2>2. runs' \in [Attempts -> SoundRow]
    BY <1>0, <2>1, LeaseSound, UpdateRun DEF Inv
  <2>3. worker' \in [Workers -> BoundWorker]
    BY <1>5, AcknowledgeType DEF PersistRefused
  <2>4. stored' \in SUBSET Attempts
    BY <1>5 DEF PersistRefused, Inv
  <2> QED
    BY <1>5, <2>2, <2>3, <2>4 DEF PersistRefused, Inv, queues
<1> QED
  BY <1>1, <1>2, <1>3, <1>4, <1>5

\* The poll of a run and what follows its answer.
LEMMA PollSteps ==
    ASSUME NEW k \in Workers, Inv,
           \/ Poll(k) \/ PollThrows(k) \/ PollFailed(k) \/ PollJobDeleted(k)
           \/ PollUnclear(k) \/ PollStored(k) \/ PollTemporary(k)
    PROVE  Inv'
<1> DEFINE a == worker[k].run
<1>0. /\ worker[k] \in Worker
      /\ a \in Attempts
      /\ runs[a] \in SoundRow
      /\ runs[a].rev \in Nat
  BY BoundType DEF Poll, PollThrows, PollFailed, PollJobDeleted, PollUnclear,
       PollStored, PollTemporary, Settling, Unbound
<1>1. CASE Poll(k)
  <2>1. PICK res \in PollResults :
          /\ worker' = [worker EXCEPT ![k].pc = "poll_settle", ![k].res = res,
                          ![k].rev = IF res \in {"temporary", "rejected"}
                                       THEN @ ELSE runs[a].rev]
          /\ remote' = [remote EXCEPT ![a] =
                          IF res \in {"succeeded", "failed", "canceled"}
                            THEN "ended" ELSE @]
    BY <1>1 DEF Poll
  <2> DEFINE rev == IF res \in {"temporary", "rejected"}
                      THEN worker[k].rev ELSE runs[a].rev
  <2>2. rev \in Nat
    BY <1>0 DEF Worker
  <2>3. [worker[k] EXCEPT !.pc = "poll_settle", !.res = res, !.rev = rev]
          \in BoundWorker
    BY <1>0, <2>2 DEF BoundWorker, Worker, PCs, PollResults, SubmitResults
  <2>4. worker' = [worker EXCEPT ![k] =
           [worker[k] EXCEPT !.pc = "poll_settle", !.res = res, !.rev = rev]]
    BY <2>1
  <2>5. worker' \in [Workers -> BoundWorker]
    BY <2>3, <2>4, UpdateWorker DEF Inv
  <2>6. remote' \in [Attempts -> RemoteStates]
    BY <2>1 DEF Inv, RemoteStates
  <2> QED
    BY <1>1, <2>5, <2>6 DEF Poll, Inv, queues
<1>2. CASE PollThrows(k)
  <2>1. /\ runs' \in [Attempts -> SoundRow]
        /\ worker' \in [Workers -> BoundWorker]
        /\ stream' \in SUBSET Messages
    BY <1>2, ThrowType DEF PollThrows
  <2>2. left' \in 0..Budget
    BY <1>2, SpendType DEF PollThrows, Inv
  <2> QED
    BY <1>2, <2>1, <2>2 DEF PollThrows, Inv
<1>3. CASE PollFailed(k)
  <2>1. failRunTerminal(k, worker[k].rev)
    BY <1>3 DEF PollFailed
  <2> QED
    BY <1>3, <2>1, FailRunType DEF PollFailed, Inv, queues, outside
<1>4. CASE PollJobDeleted(k)
  <2> DEFINE row == Unleased(Ended(runs[a], worker[k].rev, "failed"), k)
  <2>1. row \in SoundRow
    BY <1>0, EndedSound, LeaseSound DEF TerminalStates
  <2>2. runs' = [runs EXCEPT ![a] = row]
    BY <1>4 DEF PollJobDeleted
  <2>3. runs' \in [Attempts -> SoundRow] /\ worker' \in [Workers -> BoundWorker]
    BY <1>4, <2>1, <2>2, UpdateRun, AcknowledgeType DEF Inv, PollJobDeleted
  <2> QED
    BY <1>4, <2>3 DEF PollJobDeleted, Inv, queues, outside
<1>5. CASE PollUnclear(k)
  <2> DEFINE row == Unleased(
                Moved(runs[a], worker[k].rev, "submission_unknown", FALSE), k)
  <2>1. row \in SoundRow
    BY <1>0, MovedSound, LeaseSound DEF NonTerminalStates
  <2>2. runs' = [runs EXCEPT ![a] = row]
    BY <1>5 DEF PollUnclear
  <2>3. runs' \in [Attempts -> SoundRow] /\ worker' \in [Workers -> BoundWorker]
    BY <1>5, <2>1, <2>2, UpdateRun, AcknowledgeType DEF Inv, PollUnclear
  <2> QED
    BY <1>5, <2>3 DEF PollUnclear, Inv, queues, outside
<1>6. CASE PollStored(k)
  <2> DEFINE row == Unleased(Stored(runs[a], worker[k].rev, worker[k].res, TRUE), k)
  <2>1. worker[k].res \in NonTerminalStates
    BY <1>6 DEF PollStored, Settling, NonTerminalStates
  <2>2. row \in SoundRow
    BY <1>0, <2>1, StoredSound, LeaseSound
  <2>3. runs' = [runs EXCEPT ![a] = row]
    BY <1>6 DEF PollStored
  <2>4. runs' \in [Attempts -> SoundRow] /\ worker' \in [Workers -> BoundWorker]
    BY <1>6, <2>2, <2>3, UpdateRun, AcknowledgeType DEF Inv, PollStored
  <2> QED
    BY <1>6, <2>4 DEF PollStored, Inv, queues, outside
<1>7. CASE PollTemporary(k)
  <2> DEFINE row == Unleased(Postponed(runs[a], worker[k].rev), k)
  <2>1. row \in SoundRow
    BY <1>0, PostponedSound, LeaseSound
  <2>2. runs' = [runs EXCEPT ![a] = row]
    BY <1>7 DEF PollTemporary
  <2>3. runs' \in [Attempts -> SoundRow] /\ worker' \in [Workers -> BoundWorker]
    BY <1>7, <2>1, <2>2, UpdateRun, AcknowledgeType DEF Inv, PollTemporary
  <2> QED
    BY <1>7, <2>3 DEF PollTemporary, Inv, queues, outside
<1> QED
  BY <1>1, <1>2, <1>3, <1>4, <1>5, <1>6, <1>7

\* Cancelling a run, and the outer catch of processJob.
LEMMA CancelSteps ==
    ASSUME NEW k \in Workers, Inv,
           \/ RequestCancel(k) \/ RequestCancelFails(k) \/ FinishCancel(k)
           \/ CatchFailure(k)
    PROVE  Inv'
<1> DEFINE a == worker[k].run
<1>1. CASE RequestCancel(k)
  <2>1. a \in Attempts /\ runs[a] \in SoundRow /\ worker[k].pc \notin Unbound
    BY <1>1, BoundType DEF RequestCancel, Unbound
  <2>2. runs' = [runs EXCEPT ![a] = Moved(runs[a], worker[k].rev, "canceling", TRUE)]
    BY <1>1 DEF RequestCancel
  <2>3. runs' \in [Attempts -> SoundRow]
    <3>1. Moved(runs[a], worker[k].rev, "canceling", TRUE) \in SoundRow
      BY <2>1, MovedSound DEF NonTerminalStates
    <3> QED
      BY <2>1, <2>2, <3>1, UpdateRun DEF Inv
  <2>4. worker' \in [Workers -> BoundWorker]
    BY <1>1, <2>1, GotoType DEF RequestCancel, PCs
  <2>5. remote' \in [Attempts -> RemoteStates]
    BY <1>1 DEF RequestCancel, Inv, RemoteStates
  <2> QED
    BY <1>1, <2>3, <2>4, <2>5 DEF RequestCancel, Inv, queues
<1>2. CASE RequestCancelFails(k)
  <2>1. a \in Attempts /\ runs[a] \in SoundRow /\ worker[k].pc \notin Unbound
    BY <1>2, BoundType DEF RequestCancelFails, Unbound
  <2>2. \/ runs' = runs
        \/ runs' = [runs EXCEPT ![a] = Moved(runs[a], worker[k].rev, "canceling", TRUE)]
    BY <1>2 DEF RequestCancelFails
  <2>3. runs' \in [Attempts -> SoundRow]
    <3>1. Moved(runs[a], worker[k].rev, "canceling", TRUE) \in SoundRow
      BY <2>1, MovedSound DEF NonTerminalStates
    <3> QED
      BY <2>1, <2>2, <3>1, UpdateRun DEF Inv
  <2>4. worker' \in [Workers -> BoundWorker]
    BY <1>2, <2>1, GotoType DEF RequestCancelFails, PCs
  <2>5. left' \in 0..Budget
    BY <1>2, SpendType DEF RequestCancelFails, Inv
  <2> QED
    BY <1>2, <2>3, <2>4, <2>5 DEF RequestCancelFails, Inv, queues
<1>3. CASE FinishCancel(k)
  <2>1. cancelJobWithRun(k)
    BY <1>3 DEF FinishCancel
  <2> QED
    BY <1>3, <2>1, CancelRunType DEF FinishCancel, Inv, queues, outside
<1>4. CASE CatchFailure(k)
  <2> DEFINE row(b) == IF ~IsLatest(b) THEN runs[b]
                       ELSE IF isNonTerminalRunState(runs[b])
                              THEN Postponed(runs[b], runs[b].rev)
                              ELSE Ended(runs[b], runs[b].rev, "failed")
  <2>1. \A b \in Attempts : row(b) \in SoundRow
    BY PostponedSound, EndedSound DEF Inv, TerminalStates
  <2>2. runs' = [b \in Attempts |-> row(b)]
    BY <1>4 DEF CatchFailure
  <2>3. runs' \in [Attempts -> SoundRow]
    BY <2>1, <2>2
  <2>4. job' \in Job /\ worker' \in [Workers -> BoundWorker]
    BY <1>4, JobFailureType, AcknowledgeType DEF CatchFailure, Inv
  <2> QED
    BY <1>4, <2>3, <2>4 DEF CatchFailure, Inv, queues, outside
<1> QED
  BY <1>1, <1>2, <1>3, <1>4

\* Crashes, redelivery, leases and time.
LEMMA TimeSteps ==
    ASSUME Inv,
           \/ \E k \in Workers : Crash(k)
           \/ \E o \in orphans : claimStalePending(o)
           \/ \E a \in Attempts : ExpireLease(a) \/ ActionFallsDue(a)
    PROVE  Inv'
<1>1. ASSUME NEW k \in Workers, Crash(k) PROVE Inv'
  <2>1. worker[k].msg \in Messages /\ worker[k].run \in Messages
    BY DEF Inv, BoundWorker, Worker
  <2>2. orphans' \in SUBSET [msg : Messages, run : Messages]
    BY <1>1, <2>1 DEF Crash, Inv
  <2>3. worker' \in [Workers -> BoundWorker]
    BY <1>1, AcknowledgeType DEF Crash
  <2>4. left' \in 0..Budget
    BY <1>1, SpendType DEF Crash, Inv
  <2> QED
    BY <1>1, <2>2, <2>3, <2>4 DEF Crash, Inv, queues
<1>2. ASSUME NEW o \in orphans, claimStalePending(o) PROVE Inv'
  <2>1. o.msg \in Messages
    BY DEF Inv
  <2>2. stream' \in SUBSET Messages /\ orphans' \in SUBSET [msg : Messages, run : Messages]
    BY <1>2, <2>1 DEF claimStalePending, Inv
  <2> QED
    BY <1>2, <2>2 DEF claimStalePending, Inv
<1>3. ASSUME NEW a \in Attempts, ExpireLease(a) PROVE Inv'
  <2>1. [runs[a] EXCEPT !.lease = NoWorker] \in SoundRow
    BY DEF Inv, SoundRow, RunRow
  <2>2. runs' = [runs EXCEPT ![a] = [runs[a] EXCEPT !.lease = NoWorker]]
    BY <1>3 DEF ExpireLease
  <2>3. runs' \in [Attempts -> SoundRow]
    BY <2>1, <2>2, UpdateRun DEF Inv
  <2>4. left' \in 0..Budget
    BY <1>3, SpendType DEF ExpireLease, Inv
  <2> QED
    BY <1>3, <2>3, <2>4 DEF ExpireLease, Inv, queues
<1>4. ASSUME NEW a \in Attempts, ActionFallsDue(a) PROVE Inv'
  <2>1. [runs[a] EXCEPT !.due = TRUE] \in SoundRow
    BY DEF Inv, SoundRow, RunRow
  <2>2. runs' = [runs EXCEPT ![a] = [runs[a] EXCEPT !.due = TRUE]]
    BY <1>4 DEF ActionFallsDue
  <2>3. runs' \in [Attempts -> SoundRow]
    BY <2>1, <2>2, UpdateRun DEF Inv
  <2> QED
    BY <1>4, <2>3 DEF ActionFallsDue, Inv, queues, outside
<1> QED
  BY <1>1, <1>2, <1>3, <1>4

\* What the API does to the live runs of a job.
LEMMA MarkedType ==
    ASSUME Inv
    PROVE  MarkRunsCanceling \in [Attempts -> SoundRow]
BY MarkedCancelingSound DEF Inv, MarkRunsCanceling

\* The users of the API and the administrator.
LEMMA UserSteps ==
    ASSUME Inv, cancelJob \/ retryJob \/ deleteJobWithAssets \/ deleteUser
    PROVE  Inv'
<1>0. /\ job.attempt \in Messages
      /\ Key("cancel", job.attempt, 0) \in Keys
  <2>1. job.attempt \in Messages
    BY DEF Inv, Job, Messages
  <2> QED
    BY <2>1, KeyType
<1>1. CASE cancelJob
  <2>1. left' \in 0..Budget
    BY <1>1, SpendType DEF cancelJob, Inv
  <2>2. CASE /\ job' = [job EXCEPT !.status = "canceled"]
             /\ UNCHANGED <<runs, events, keys>>
    <3>1. job' \in Job
      BY <2>2 DEF Inv, Job, terminalStatuses
    <3> QED
      BY <1>1, <2>1, <2>2, <3>1 DEF cancelJob, Inv
  <2>3. CASE /\ job' = [job EXCEPT !.cancelReq = TRUE]
             /\ InsertEvent(0, Key("cancel", job.attempt, 0))
             /\ runs' = MarkRunsCanceling
    <3>1. job' \in Job
      BY <2>3 DEF Inv, Job
    <3>2. events' \in SUBSET Messages /\ keys' \in SUBSET Keys
      BY <1>0, <2>3, ZeroMessage, InsertEventType
    <3> QED
      BY <1>1, <2>1, <2>3, <3>1, <3>2, MarkedType DEF cancelJob, Inv
  <2> QED
    BY <1>1, <2>2, <2>3 DEF cancelJob
<1>2. CASE retryJob
  <2>1. left' \in 0..Budget
    BY <1>2, SpendType DEF retryJob, Inv
  <2>2. job \in Job /\ 0 \in 0..MaxAttempt
    BY ZeroMessage DEF Inv, Messages
  <2>3. job' = [job EXCEPT !.status = "queued", !.attempt = 0, !.cancelReq = FALSE]
    BY <1>2 DEF retryJob
  <2>4. job' \in Job
    BY <2>2, <2>3 DEF Job, ActiveStatuses
  <2> QED
    BY <1>2, <2>1, <2>4, ZeroMessage DEF retryJob, Inv
<1>3. CASE deleteJobWithAssets
  <2>1. left' \in 0..Budget
    BY <1>3, SpendType DEF deleteJobWithAssets, Inv
  <2>2. CanceledIfActive \in Job
    BY CanceledType DEF Inv
  <2>3. job' \in Job
    BY <1>3, <2>2 DEF deleteJobWithAssets, Inv, Job
  <2>4. /\ runs' \in [Attempts -> SoundRow]
        /\ events' \in SUBSET Messages
        /\ keys' \in SUBSET Keys
    <3>1. CASE job.status = "running"
      <4>1. /\ runs' = MarkRunsCanceling
            /\ InsertEvent(0, Key("cancel", job.attempt, 0))
        BY <1>3, <3>1 DEF deleteJobWithAssets
      <4> QED
        BY <1>0, <4>1, ZeroMessage, InsertEventType, MarkedType
    <3>2. CASE job.status # "running"
      BY <1>3, <3>2 DEF deleteJobWithAssets, Inv
    <3> QED
      BY <3>1, <3>2
  <2>5. doomed' \in SUBSET Attempts /\ assets' \in SUBSET Attempts
    BY <1>3 DEF deleteJobWithAssets, Inv
  <2> QED
    BY <1>3, <2>1, <2>3, <2>4, <2>5 DEF deleteJobWithAssets, Inv
<1>4. CASE deleteUser
  <2>1. left' \in 0..Budget
    BY <1>4, SpendType DEF deleteUser, Inv
  <2>2. job' \in Job
    BY <1>4, CanceledType DEF deleteUser, Inv
  <2> QED
    BY <1>4, <2>1, <2>2 DEF deleteUser, Inv, queues
<1> QED
  BY <1>1, <1>2, <1>3, <1>4

\* The maintenance tick.
LEMMA MaintenanceSteps ==
    ASSUME Inv,
           \/ dispatchOutbox
           \/ handleCancellation
           \/ \E a \in Attempts : dispatchDueProviderRun(a) \/ deleteDoomedObject(a)
    PROVE  Inv'
<1>1. CASE dispatchOutbox
  <2>1. PICK m \in events :
          /\ stream' = stream \cup {m}
          /\ \/ events' = events \ {m} /\ UNCHANGED left
             \/ Spend("duplicate") /\ UNCHANGED events
    BY <1>1 DEF dispatchOutbox
  <2>2. stream' \in SUBSET Messages /\ events' \in SUBSET Messages
    BY <2>1 DEF Inv
  <2>3. left' \in 0..Budget
    BY <2>1, SpendType DEF Inv
  <2> QED
    BY <1>1, <2>2, <2>3 DEF dispatchOutbox, Inv
<1>2. CASE handleCancellation
  <2>1. CASE job' = [job EXCEPT !.status = "canceled"] /\ UNCHANGED <<events, keys>>
    <3>1. job' \in Job
      BY <2>1 DEF Inv, Job, terminalStatuses
    <3> QED
      BY <1>2, <2>1, <3>1 DEF handleCancellation, Inv, outside
  <2>2. CASE /\ \E a \in Attempts :
                  InsertEvent(a, Key("provider-run-cancel", a, runs[a].rev))
             /\ UNCHANGED job
    <3>1. PICK a \in Attempts :
            InsertEvent(a, Key("provider-run-cancel", a, runs[a].rev))
      BY <2>2
    <3>2. a \in Messages /\ runs[a].rev \in Nat
      BY AttemptMessage DEF Inv, SoundRow, RunRow
    <3>3. Key("provider-run-cancel", a, runs[a].rev) \in Keys
      BY <3>2, KeyType
    <3>4. events' \in SUBSET Messages /\ keys' \in SUBSET Keys
      BY <3>1, <3>2, <3>3, InsertEventType
    <3> QED
      BY <1>2, <2>2, <3>4 DEF handleCancellation, Inv, outside
  <2> QED
    BY <1>2, <2>1, <2>2 DEF handleCancellation
<1>3. ASSUME NEW a \in Attempts, dispatchDueProviderRun(a) PROVE Inv'
  <2>1. a \in Messages /\ runs[a].rev \in Nat
    BY AttemptMessage DEF Inv, SoundRow, RunRow
  <2>2. Key("provider-run-poll", a, runs[a].rev) \in Keys
    BY <2>1, KeyType
  <2>3. events' \in SUBSET Messages /\ keys' \in SUBSET Keys
    BY <1>3, <2>1, <2>2, InsertEventType DEF dispatchDueProviderRun
  <2> QED
    BY <1>3, <2>3 DEF dispatchDueProviderRun, Inv, outside
<1>4. ASSUME NEW a \in Attempts, deleteDoomedObject(a) PROVE Inv'
  BY <1>4 DEF deleteDoomedObject, Inv, queues
<1> QED
  BY <1>1, <1>2, <1>3, <1>4

\* Init and Next as the specification has them.
LEMMA InitInv == Init => Inv
<1> SUFFICES ASSUME Init PROVE Inv
  OBVIOUS
<1>1. job \in Job
  BY ConstantsAssumption DEF Init, Job, ActiveStatuses
<1>2. NoRun \in SoundRow
  BY NoWorkerAssumption DEF NoRun, SoundRow, RunRow, TerminalStates
<1>3. runs \in [Attempts -> SoundRow]
  BY <1>2 DEF Init
<1>4. worker \in [Workers -> BoundWorker]
  BY IdleBound DEF Init
<1>5. remote \in [Attempts -> RemoteStates]
  BY DEF Init, RemoteStates
<1>6. left \in 0..Budget
  BY ConstantsAssumption DEF Init
<1> QED
  BY <1>1, <1>3, <1>4, <1>5, <1>6, ZeroMessage DEF Init, Inv

\* The invariant is inductive: every step of every process keeps it.
LEMMA StepInv == Inv /\ [Next]_vars => Inv'
<1> SUFFICES ASSUME Inv, [Next]_vars PROVE Inv'
  OBVIOUS
<1>1. ASSUME NEW k \in Workers, WorkerStep(k) PROVE Inv'
  BY <1>1, ClaimSteps, SubmitSteps, SettleSteps, ImportSteps, PollSteps, CancelSteps
     DEF WorkerStep
<1>2. ASSUME NEW k \in Workers, WorkerFault(k) PROVE Inv'
  BY <1>2, ClaimSteps, SubmitSteps, SettleSteps, ImportSteps, PollSteps, CancelSteps,
     TimeSteps
     DEF WorkerFault
<1>3. CASE UserStep
  BY <1>3, UserSteps DEF UserStep
<1>4. CASE Maintenance
  BY <1>4, TimeSteps, MaintenanceSteps DEF Maintenance
<1>5. CASE Time
  BY <1>5, TimeSteps DEF Time
<1>6. CASE UNCHANGED vars
  BY <1>6 DEF Inv, vars
<1> QED
  BY <1>1, <1>2, <1>3, <1>4, <1>5, <1>6 DEF Next

\* Every variable keeps its type, whatever the number of workers, attempts
\* and events.
THEOREM Typing == Spec => []TypeOK
<1>1. Inv => TypeOK
  BY DEF Inv, TypeOK, SoundRow, BoundWorker
<1> QED
  BY <1>1, InitInv, StepInv, PTL DEF Spec

\* A run in a terminal state holds no capacity of its model, whichever way it
\* ended: no write of worker, API or maintenance leaves a reservation behind.
THEOREM Released == Spec => []ReleasedWhenTerminal
<1>1. Inv => ReleasedWhenTerminal
  BY DEF Inv, ReleasedWhenTerminal, SoundRow
<1> QED
  BY <1>1, InitInv, StepInv, PTL DEF Spec

-----------------------------------------------------------------------------
(* The end of a job, with one worker process and a synchronous plugin. *)

\* A submission that is unclear does not exist, and nobody else ends a job under the worker.
OneSyncWorker == Synchronous /\ \A k, l \in Workers : k = l

\* From its claim to the read that follows the preprocessing, only a user ends the job.
ClaimHeld == \A k \in Workers : worker[k].pc = "preprocess" => job.status \in {"running", "canceled"}

\* What a terminal status may become in one step.
EndStays ==
    job.status \in terminalStatuses /\ job'.status # job.status
        => /\ job.status = "failed" /\ job'.status = "queued"
           /\ job'.attempt = 0 /\ ~job'.cancelReq

\* What most steps do to the job's row: nothing, or they give an active job another status.
Guarded == \/ UNCHANGED job
           \/ job.status \in ActiveStatuses /\ \E status : job' = [job EXCEPT !.status = status]

LEMMA AloneWorker ==
    ASSUME Inv, OneSyncWorker, ClaimHeld, NEW k \in Workers, WorkerStep(k) \/ WorkerFault(k)
    PROVE  ClaimHeld' /\ EndStays
<1>1. /\ job \in Job /\ worker[k] \in Worker /\ DOMAIN worker = Workers
      /\ worker[k].pc = "preprocess" => job.status \in {"running", "canceled"}
  BY DEF Inv, BoundWorker, ClaimHeld
<1>2. CASE ClaimJob(k)
  BY <1>1, <1>2 DEF ClaimJob, Job, OneSyncWorker, ClaimHeld, EndStays, decideJobClaim, terminalStatuses, Idle
<1>3. CASE CancelAtClaim(k)
  BY <1>1, <1>3 DEF CancelAtClaim, Takes, Job, OneSyncWorker, ClaimHeld, EndStays, decideJobClaim, terminalStatuses
<1>4. ASSUME worker'[k].pc # "preprocess", Guarded
      PROVE  ClaimHeld' /\ EndStays
  BY <1>1, <1>4 DEF Guarded, Job, OneSyncWorker, ClaimHeld, EndStays, ActiveStatuses, terminalStatuses
<1>5. \A retryable \in BOOLEAN : persistJobFailure(retryable) => Guarded
  BY DEF Guarded, persistJobFailure, ActiveStatuses
<1>6. job' = CanceledIfActive => Guarded
  BY DEF Guarded, CanceledIfActive
<1>7. ASSUME NEW a, NEW m, NEW claimed, PollFrom(k, a, m, claimed)
      PROVE  worker'[k].pc # "preprocess"
  BY <1>1, <1>7 DEF PollFrom, Acknowledge, Idle
<1>8. CASE CancelClaimed(k) \/ ContinueClaimed(k)
  <2>1. worker'[k].pc # "preprocess"
    <3>1. CASE CancelClaimed(k)
      <4>1. \/ worker' = [worker EXCEPT ![k] = Idle]
            \/ \E a \in Attempts : worker' = [worker EXCEPT ![k] =
                   [worker[k] EXCEPT !.pc = "cancel", !.run = a, !.rev = runs[a].rev]]
        BY <3>1 DEF CancelClaimed, Acknowledge
      <4>2. CASE worker' = [worker EXCEPT ![k] = Idle]
        BY <1>1, <4>2 DEF Idle
      <4>3. CASE \E a \in Attempts : worker' = [worker EXCEPT ![k] =
                   [worker[k] EXCEPT !.pc = "cancel", !.run = a, !.rev = runs[a].rev]]
        <5>1. PICK a \in Attempts : worker' = [worker EXCEPT ![k] =
                   [worker[k] EXCEPT !.pc = "cancel", !.run = a, !.rev = runs[a].rev]]
          BY <4>3
        <5>2. [worker[k] EXCEPT !.pc = "cancel", !.run = a, !.rev = runs[a].rev].pc = "cancel"
          BY <1>1 DEF Worker
        <5> QED
          BY <1>1, <5>1, <5>2
      <4> QED
        BY <4>1, <4>2, <4>3
    <3>2. CASE ContinueClaimed(k)
      <4>1. \/ \E a \in Attempts : PollFrom(k, a, 0, TRUE)
            \/ \E a : worker' = [worker EXCEPT ![k] = [worker[k] EXCEPT !.pc = "acquire", !.run = a]]
        BY <3>2 DEF ContinueClaimed
      <4>2. CASE \E a \in Attempts : PollFrom(k, a, 0, TRUE)
        BY <1>7, <4>2
      <4>3. CASE \E a : worker' = [worker EXCEPT ![k] = [worker[k] EXCEPT !.pc = "acquire", !.run = a]]
        <5>1. PICK a : worker' = [worker EXCEPT ![k] = [worker[k] EXCEPT !.pc = "acquire", !.run = a]]
          BY <4>3
        <5>2. [worker[k] EXCEPT !.pc = "acquire", !.run = a].pc = "acquire"
          BY <1>1 DEF Worker
        <5> QED
          BY <1>1, <5>1, <5>2
      <4> QED
        BY <4>1, <4>2, <4>3
    <3> QED
      BY <1>8, <3>1, <3>2
  <2>2. job' = job \/ (job.status \in {"running", "canceled"} /\ job' = [job EXCEPT !.status = "canceled"])
    BY <1>1, <1>8 DEF CancelClaimed, ContinueClaimed
  <2> QED
    BY <1>1, <2>1, <2>2 DEF Job, OneSyncWorker, ClaimHeld, EndStays, terminalStatuses
<1>9. CASE IgnoreClaim(k) \/ PollMessage(k)
  BY <1>1, <1>4, <1>7, <1>9 DEF Guarded, IgnoreClaim, PollMessage, Takes
<1>10. ASSUME NEW res, Throw(k, res)
       PROVE  worker'[k].pc # "preprocess"
  <2>1. \/ worker' = [worker EXCEPT ![k] = Idle]
        \/ worker' = [worker EXCEPT ![k] = [worker[k] EXCEPT !.pc = "catch", !.res = res]]
    BY <1>10 DEF Throw, LeavePending
  <2>2. /\ [worker[k] EXCEPT !.pc = "catch", !.res = res].pc = "catch"
        /\ Idle.pc = "idle"
    BY <1>1 DEF Worker, Idle
  <2> QED
    BY <1>1, <2>1, <2>2
<1>11. CASE AcquireCapacity(k)
  BY <1>1, <1>4, <1>11 DEF Guarded, AcquireCapacity
<1>12. CASE Requeue(k)
  BY <1>1, <1>4, <1>12 DEF Guarded, Requeue, Acknowledge, Idle
<1>13. CASE Submit(k)
  BY <1>1, <1>4, <1>13 DEF Guarded, Submit
<1>14. CASE DenyCapacity(k)
  <2>1. worker'[k].pc # "preprocess"
    BY <1>1, <1>14 DEF DenyCapacity, Goto
  <2>2. Guarded
    BY <1>14 DEF DenyCapacity, Guarded, ActiveStatuses
  <2> QED
    BY <1>4, <2>1, <2>2
<1>15. CASE ModelNotFound(k)
  BY <1>1, <1>4, <1>5, <1>15 DEF Guarded, ModelNotFound, Acknowledge, Idle
<1>16. CASE InputsFail(k)
  BY <1>1, <1>4, <1>16 DEF Guarded, InputsFail
<1>17. CASE PreprocessFails(k)
  BY <1>1, <1>4, <1>17 DEF Guarded, PreprocessFails
<1>18. CASE retrySyncSubmit(k)
  BY <1>1, <1>4, <1>5, <1>18 DEF Guarded, retrySyncSubmit, Acknowledge, Idle
<1>19. CASE RetryConflict(k)
  BY <1>1, <1>4, <1>19 DEF Guarded, RetryConflict, LeavePending, Idle
<1>20. CASE SubmitFailed(k)
  BY <1>1, <1>4, <1>5, <1>20 DEF Guarded, SubmitFailed, failRunTerminal, Acknowledge, Idle
<1>21. CASE SubmitStored(k)
  BY <1>1, <1>4, <1>21 DEF Guarded, SubmitStored, Acknowledge, Idle
<1>22. CASE ResultFailed(k)
  BY <1>1, <1>4, <1>5, <1>22 DEF Guarded, ResultFailed, failRunTerminal, Acknowledge, Idle
<1>23. CASE ResultCanceled(k)
  BY <1>1, <1>4, <1>6, <1>23 DEF Guarded, ResultCanceled, cancelJobWithRun, Acknowledge, Idle
<1>24. CASE StartImport(k)
  BY <1>1, <1>4, <1>24 DEF Guarded, StartImport
<1>25. CASE CountMismatch(k)
  BY <1>1, <1>4, <1>5, <1>25 DEF Guarded, CountMismatch, failRunTerminal, Acknowledge, Idle
<1>26. CASE FinishCancel(k)
  BY <1>1, <1>4, <1>6, <1>26 DEF Guarded, FinishCancel, cancelJobWithRun, Acknowledge, Idle
<1>27. CASE ImportOutputs(k)
  BY <1>1, <1>4, <1>27 DEF Guarded, ImportOutputs
<1>28. CASE ImportFails(k)
  BY <1>1, <1>4, <1>10, <1>28 DEF Guarded, ImportFails
<1>29. CASE PersistSuccess(k)
  BY <1>1, <1>4, <1>29 DEF Guarded, PersistSuccess, Acknowledge, Idle, ActiveStatuses
<1>30. CASE PersistRefused(k)
  BY <1>1, <1>4, <1>30 DEF Guarded, PersistRefused, Acknowledge, Idle
<1>31. CASE Poll(k)
  BY <1>1, <1>4, <1>31 DEF Guarded, Poll
<1>32. CASE PollThrows(k)
  BY <1>1, <1>4, <1>10, <1>32 DEF Guarded, PollThrows
<1>33. CASE PollFailed(k)
  BY <1>1, <1>4, <1>5, <1>33 DEF Guarded, PollFailed, failRunTerminal, Acknowledge, Idle
<1>34. CASE PollJobDeleted(k)
  BY <1>1, <1>4, <1>34 DEF Guarded, PollJobDeleted, Acknowledge, Idle
<1>35. CASE PollStored(k)
  BY <1>1, <1>4, <1>35 DEF Guarded, PollStored, Acknowledge, Idle
<1>36. CASE PollTemporary(k)
  BY <1>1, <1>4, <1>36 DEF Guarded, PollTemporary, Acknowledge, Idle
<1>37. CASE RequestCancel(k)
  BY <1>1, <1>4, <1>37 DEF Guarded, RequestCancel, Goto
<1>38. CASE RequestCancelFails(k)
  BY <1>1, <1>4, <1>38 DEF Guarded, RequestCancelFails, Goto
<1>39. CASE CatchFailure(k)
  BY <1>1, <1>4, <1>5, <1>39 DEF Guarded, CatchFailure, Acknowledge, Idle
<1>40. CASE Crash(k)
  BY <1>1, <1>4, <1>40 DEF Guarded, Crash, Acknowledge, Idle
<1>41. CASE SubmitUnclear(k) \/ PollUnclear(k)
  BY <1>41 DEF OneSyncWorker, SubmitUnclear, PollUnclear
<1> QED
  BY <1>2, <1>3, <1>8, <1>9, <1>11, <1>12, <1>13, <1>14, <1>15, <1>16, <1>17, <1>18, <1>19, <1>20, <1>21,
     <1>22, <1>23, <1>24, <1>25, <1>26, <1>27, <1>28, <1>29, <1>30, <1>31, <1>32, <1>33, <1>34, <1>35,
     <1>36, <1>37, <1>38, <1>39, <1>40, <1>41
     DEF WorkerStep, WorkerFault

LEMMA AloneUser ==
    ASSUME Inv, ClaimHeld, UserStep
    PROVE  ClaimHeld' /\ EndStays
<1> USE DEF Inv, Job, ClaimHeld, EndStays, CanceledIfActive, ActiveStatuses, terminalStatuses
<1>1. CASE cancelJob
  BY <1>1 DEF cancelJob
<1>2. CASE retryJob
  BY <1>2 DEF retryJob
<1>3. CASE deleteJobWithAssets
  BY <1>3 DEF deleteJobWithAssets
<1>4. CASE deleteUser
  BY <1>4 DEF deleteUser
<1> QED
  BY <1>1, <1>2, <1>3, <1>4 DEF UserStep

LEMMA AloneRest ==
    ASSUME Inv, ClaimHeld, Maintenance \/ Time \/ UNCHANGED vars
    PROVE  ClaimHeld' /\ EndStays
<1>1. /\ UNCHANGED worker
      /\ \/ UNCHANGED job
         \/ job.status \in ActiveStatuses /\ job' = [job EXCEPT !.status = "canceled"]
  BY DEF Maintenance, Time, vars, dispatchOutbox, handleCancellation, claimStalePending, dispatchDueProviderRun,
         deleteDoomedObject, ExpireLease, ActionFallsDue, outside, queues, ActiveStatuses
<1> QED
  BY <1>1 DEF Inv, Job, ClaimHeld, EndStays, ActiveStatuses, terminalStatuses

\* A job that has ended is left only by its owner's retry: with one worker process and a synchronous
\* plugin, whatever is canceled, deleted, redelivered, crashes or fails meanwhile.
THEOREM EndedJobsStay ==
    ASSUME OneSyncWorker
    PROVE  Spec => TerminalStatusFinal
<1>1. Init => ClaimHeld
  BY DEF Init, ClaimHeld, Idle
<1>2. Inv /\ ClaimHeld /\ [Next]_vars => ClaimHeld' /\ EndStays
  BY AloneWorker, AloneUser, AloneRest DEF Next
<1>3. EndStays => [job.status \in terminalStatuses /\ job'.status # job.status
          => /\ job.status = "failed" /\ job'.status = "queued"
             /\ job'.attempt = 0 /\ ~job'.cancelReq]_job
  BY DEF EndStays
<1> QED
  BY <1>1, <1>2, <1>3, InitInv, StepInv, PTL DEF Spec, TerminalStatusFinal
-----------------------------------------------------------------------------
(***************************************************************************)
(* An asynchronous plugin, for every number of workers, claims, crashes,   *)
(* redeliveries, expired leases and failures: as long as the owner does    *)
(* not start a failed job over, the job has one run and is ordered once.   *)
(*                                                                         *)
(* The reason is not in any one guard.  A job goes back to the queue only  *)
(* by the hand of the worker that claimed it, before anything is known of  *)
(* a remote task; a worker that did not claim the job ends it or leaves it *)
(* alone.  So one worker at a time has a claim (OneClaim), a run that it   *)
(* finds is live unless the user took the job away (BeforeRemote), and a   *)
(* new run is opened only when there never was one.                        *)
(*                                                                         *)
(* A further part is about leases that last as long as their holders, and *)
(* what becomes of the job's result then.  Who claimed the job is alone as *)
(* long as the run has no remote id; who did not claim it holds the lease  *)
(* of the run.  So a worker that follows the remote task has read a        *)
(* revision that is still the run's (Following), its compare-and-swap      *)
(* succeeds, and nobody ends the job or removes an object behind its back. *)
(***************************************************************************)

\* The worker has claimed the job and has not given it back.
Claims(k) == worker[k].claimed /\ worker[k].pc \notin {"idle", "requeue"}

\* The job can be claimed, or somebody is at it.
Claimable == job.status \in {"queued", "retry_wait"} \/ \E k \in Workers : Claims(k)

\* The user took the job away.
Over == job.deleted \/ job.status = "canceled"

Live(a) == isNonTerminalRunState(runs[a])

\* A worker at these points has no run in hand that is sure to exist.
Unstarted == {"idle", "preprocess", "acquire", "requeue", "catch"}

OneClaim ==
    \A k \in Workers : Claims(k) =>
        /\ job.status \in {"running", "canceled"}
        /\ \A j \in Workers : Claims(j) => j = k

\* Where a worker is only with a claim, and where it never is with one.
Phases ==
    \A k \in Workers :
        LET w == worker[k] IN
        /\ w.pc \in {"preprocess", "acquire", "requeue", "submit", "submit_settle", "catch"}
             => w.claimed
        /\ w.pc = "polling" => ~w.claimed
        /\ w.pc = "poll_settle" /\ w.claimed => w.res = "no_remote"

\* The worker acts on an answer about a remote task that the run names.
Follows(k) ==
    \/ worker[k].pc = "polling"
    \/ worker[k].pc = "poll_settle" /\ worker[k].res \notin {"no_remote", "job_deleted"}
    \/ worker[k].pc \in {"import", "persist"} /\ ~worker[k].claimed

\* What is known of the run in hand.
InHand ==
    \A k \in Workers :
        /\ worker[k].pc \notin Unstarted =>
             worker[k].run \in Attempts /\ Exists(runs[worker[k].run])
        /\ Follows(k) => runs[worker[k].run].remote
        /\ worker[k].pc = "poll_settle" /\ worker[k].res = "job_deleted" => job.deleted
        /\ worker[k].pc = "acquire" => \A a \in Attempts : ~Exists(runs[a])

OneRun == \A a, b \in Attempts : Exists(runs[a]) /\ Exists(runs[b]) => a = b

\* Until its submission is stored a run has no remote id, and nothing ends it
\* but the end of the job.
BeforeRemote ==
    Claimable =>
        \A a \in Attempts : Exists(runs[a]) => ~runs[a].remote /\ (Live(a) \/ Over)

\* Somebody names run a: an event, a message, a worker or the provider.
Named(a) ==
    \/ a \in events \cup stream
    \/ \E o \in orphans : o.msg = a
    \/ \E k \in Workers : worker[k].msg = a
    \/ remote[a] # "none"

\* Whoever names a run names one that was inserted.
RunsKnown == \A a \in Attempts : Named(a) => Exists(runs[a])

AsyncCore == OneClaim /\ Phases /\ InHand /\ OneRun /\ BeforeRemote

AsyncInv == Inv /\ AsyncCore /\ RunsKnown

\* What the theorems assume: the plugin has a poll, the owner does not retry.
LetRun == ~Synchronous /\ "retry" \notin Allowed

-----------------------------------------------------------------------------
(* Every action keeps the invariant. *)

\* The plain types behind Inv, as the steps below use them.
LEMMA Shapes ==
    ASSUME Inv
    PROVE  /\ job \in Job
           /\ runs \in [Attempts -> RunRow]
           /\ worker \in [Workers -> Worker]
           /\ \A k \in Workers : worker[k].pc \notin Unbound => worker[k].run \in Attempts
BY DEF Inv, SoundRow, BoundWorker

\* With one run at most, the latest live run is the live run.
LEMMA LatestLive ==
    ASSUME OneRun, NEW a \in Attempts
    PROVE  IsLatestLive(a) <=> Live(a)
BY ConstantsAssumption
   DEF OneRun, IsLatestLive, IsLatest, Live, Exists, isNonTerminalRunState, NonTerminalStates, Attempts

\* A row whose lease is taken or given back is otherwise the row it was.
SameButLease(row, old) ==
    /\ row.state = old.state /\ row.rev = old.rev /\ row.remote = old.remote
    /\ row.reserved = old.reserved /\ row.due = old.due

\* What pollProviderRun makes of a worker before its first external call.
Begun(k, a, msg, claimed) ==
    /\ \A j \in Workers \ {k} : worker'[j] = worker[j]
    /\ \A b \in Attempts : SameButLease(runs'[b], runs[b])
    /\ \/ worker'[k] = Idle
       \/ /\ (worker'[k].claimed <=> claimed) /\ worker'[k].msg = msg
          /\ worker'[k].run = a /\ worker'[k].rev = runs[a].rev
          /\ \/ worker'[k].pc = "poll_settle" /\ worker'[k].res = "job_deleted" /\ job.deleted
             \/ worker'[k].pc = "cancel" /\ (job.status = "canceled" \/ job.cancelReq)
             \/ /\ ~job.deleted /\ job.status # "canceled" /\ ~job.cancelReq /\ Live(a)
                /\ \/ worker'[k].pc = "poll_settle" /\ worker'[k].res = "no_remote" /\ ~runs[a].remote
                   \/ worker'[k].pc = "polling" /\ runs[a].remote

LEMMA PollFromWorker ==
    ASSUME Inv, ~Synchronous, NEW k \in Workers, NEW a \in Attempts, NEW msg,
           NEW claimed \in BOOLEAN, PollFrom(k, a, msg, claimed)
    PROVE  Begun(k, a, msg, claimed)
<1>1. CASE runs[a].lease # NoWorker
  BY <1>1, Shapes DEF PollFrom, Begun, Acknowledge, SameButLease
<1>2. CASE runs[a].lease = NoWorker
  <2>1. \A b \in Attempts : SameButLease(runs'[b], runs[b])
    BY <1>2, Shapes DEF PollFrom, Leased, SameButLease, RunRow
  <2> QED
    BY <1>2, <2>1, Shapes DEF PollFrom, Begun, Live, Idle
<1> QED
  BY <1>1, <1>2

\* A write that leaves a row what it was for the invariant, or ends it.
Kept(row, old) ==
    /\ Exists(row) <=> Exists(old)
    /\ row.remote <=> old.remote
    /\ isNonTerminalRunState(old) => isNonTerminalRunState(row)

Closed(row, old) ==
    /\ Exists(row) <=> Exists(old)
    /\ row.remote <=> old.remote

\* The writes of provider_runs on a row that exists.
LEMMA RowWrites ==
    ASSUME NEW row \in RunRow, Exists(row), NEW rev, NEW due \in BOOLEAN, NEW k
    PROVE  /\ \A state \in NonTerminalStates :
                /\ Kept(Moved(row, rev, state, due), row)
                /\ Kept(Unleased(Moved(row, rev, state, due), k), row)
           /\ \A state \in TerminalStates :
                /\ Closed(Ended(row, rev, state), row)
                /\ Closed(Unleased(Ended(row, rev, state), k), row)
           /\ Kept(Postponed(row, rev), row) /\ Kept(Unleased(Postponed(row, rev), k), row)
           /\ Kept(Unleased(row, k), row)
           /\ Kept(MarkedCanceling(row), row)
<1> USE DEF Exists, isNonTerminalRunState, NonTerminalStates, TerminalStates, Unleased, Kept, Closed
<1>1. \A state \in NonTerminalStates :
        /\ Kept(Moved(row, rev, state, due), row)
        /\ Kept(Unleased(Moved(row, rev, state, due), k), row)
  BY DEF Moved, RunRow
<1>2. \A state \in TerminalStates :
        /\ Closed(Ended(row, rev, state), row)
        /\ Closed(Unleased(Ended(row, rev, state), k), row)
  BY DEF Ended, RunRow
<1>3. Kept(Postponed(row, rev), row) /\ Kept(Unleased(Postponed(row, rev), k), row)
  BY DEF Postponed, RunRow
<1>4. Kept(Unleased(row, k), row)
  BY DEF RunRow
<1>5. Kept(MarkedCanceling(row), row)
  BY DEF MarkedCanceling, RunRow
<1> QED
  BY <1>1, <1>2, <1>3, <1>4, <1>5

\* A claim that is given up with the end of the job, or before anything ended.
LEMMA LetGo ==
    ASSUME AsyncInv, NEW k \in Workers, Acknowledge(k), NEW a \in Attempts, NEW row,
           runs' = [runs EXCEPT ![a] = row], Exists(runs[a]),
           Closed(row, runs[a]),
           job'.deleted = job.deleted,
           \/ job'.status \in {job.status, "canceled"}
           \/ job'.status \in {"running", "failed", "succeeded"} /\ (Claims(k) \/ runs[a].remote),
           \/ job'.status = "canceled" \/ job.deleted \/ Claims(k) \/ Kept(row, runs[a])
           \/ runs[a].remote
    PROVE  AsyncCore'
<1> USE DEF LetRun, AsyncInv, AsyncCore, OneClaim, Phases, InHand, Follows, OneRun, BeforeRemote, Claims,
        Claimable, Over, Live, Unstarted, Exists
<1>1. /\ worker' = [worker EXCEPT ![k] = Idle]
      /\ \A b \in Attempts : Closed(runs'[b], runs[b])
  BY Shapes DEF Acknowledge, Closed
<1>2. OneClaim'
  BY <1>1, Shapes DEF Idle
<1> QED
  BY <1>1, <1>2, Shapes DEF Idle, Closed, Kept

\* The claim of a job, up to the choice between a poll and a new run.
LEMMA AsyncClaimSteps ==
    ASSUME LetRun, AsyncInv, NEW k \in Workers,
           \/ ClaimJob(k) \/ CancelAtClaim(k) \/ IgnoreClaim(k) \/ PollMessage(k)
           \/ CancelClaimed(k) \/ ContinueClaimed(k) \/ PreprocessFails(k)
    PROVE  AsyncCore'
<1> USE DEF LetRun, AsyncInv, AsyncCore, OneClaim, Phases, InHand, Follows, OneRun, BeforeRemote, Claims,
        Claimable, Over, Live, Unstarted, Exists, outside, queues
<1>1. CASE ClaimJob(k)
  BY <1>1, Shapes DEF ClaimJob, Takes, decideJobClaim, Idle, Job, Attempts
<1>2. CASE CancelAtClaim(k)
  BY <1>2, Shapes DEF CancelAtClaim, Takes, decideJobClaim, Job
<1>3. CASE IgnoreClaim(k)
  <2>1. CASE UNCHANGED <<runs, worker>>
    BY <1>3, <2>1 DEF IgnoreClaim
  <2>2. CASE \E a \in Attempts : IsLatestLive(a) /\ PollFrom(k, a, 0, FALSE)
    <3>1. PICK a \in Attempts : Live(a) /\ PollFrom(k, a, 0, FALSE)
      BY <2>2 DEF IsLatestLive
    <3>2. Begun(k, a, 0, FALSE)
      BY <3>1, ZeroMessage, PollFromWorker
    <3> QED
      BY <1>3, <3>1, <3>2 DEF IgnoreClaim, Takes, Begun, SameButLease, Idle, Attempts,
                              isNonTerminalRunState, NonTerminalStates
  <2> QED
    BY <1>3, <2>1, <2>2 DEF IgnoreClaim
<1>4. CASE PollMessage(k)
  <2>1. PICK a \in Attempts : Takes(k, a) /\ PollFrom(k, a, a, FALSE)
    BY <1>4 DEF PollMessage
  <2>2. Exists(runs[a])
    BY <2>1 DEF Takes, RunsKnown, Named
  <2>3. Begun(k, a, a, FALSE)
    BY <2>1, PollFromWorker
  <2> QED
    BY <1>4, <2>1, <2>2, <2>3 DEF PollMessage, Takes, Begun, SameButLease, Idle, isNonTerminalRunState
<1>5. CASE CancelClaimed(k)
  <2>1. CASE NoLatestLive
    <3>1. /\ Acknowledge(k)
          /\ worker[k].pc = "preprocess"
          /\ \/ job.deleted /\ job' = job
             \/ job' = [job EXCEPT !.status = "canceled"]
      BY <1>5, <2>1 DEF CancelClaimed, NoLatestLive
    <3>2. UNCHANGED runs
      BY <1>5 DEF CancelClaimed
    <3> QED
      BY <3>1, <3>2, Shapes DEF Acknowledge, Idle, Job
  <2>2. CASE ~NoLatestLive
    <3>1. PICK a \in Attempts :
            /\ IsLatestLive(a)
            /\ worker' = [worker EXCEPT ![k].pc = "cancel", ![k].run = a, ![k].rev = runs[a].rev]
      BY <1>5, <2>2 DEF CancelClaimed
    <3>2. worker[k].pc = "preprocess" /\ UNCHANGED <<job, runs>>
      BY <1>5, <2>2 DEF CancelClaimed
    <3> QED
      BY <3>1, <3>2, Shapes, SMTT(30) DEF IsLatestLive, IsLatest, Worker
  <2> QED
    BY <2>1, <2>2
<1>6. CASE ContinueClaimed(k)
  <2>1. CASE NoLatestLive
    <3>1. \A a \in Attempts : ~Exists(runs[a])
      BY <1>6, <2>1, LatestLive DEF ContinueClaimed, decideClaimedJob, NoLatestLive
    <3>2. /\ worker[k].pc = "preprocess"
          /\ worker' = [worker EXCEPT ![k].pc = "acquire",
                            ![k].run = IF job.attempt = 0 THEN 1 ELSE job.attempt]
          /\ UNCHANGED <<job, runs>>
      BY <1>6, <2>1 DEF ContinueClaimed, NoLatestLive
    <3> QED
      BY <3>1, <3>2, Shapes DEF Worker
  <2>2. CASE ~NoLatestLive
    <3>1. PICK a \in Attempts : IsLatestLive(a) /\ PollFrom(k, a, 0, TRUE)
      BY <1>6, <2>2 DEF ContinueClaimed
    <3>2. Begun(k, a, 0, TRUE)
      BY <3>1, ZeroMessage, PollFromWorker
    <3>3. /\ worker[k].pc = "preprocess" /\ ~Over /\ ~job.cancelReq
          /\ UNCHANGED job
      BY <1>6 DEF ContinueClaimed, decideClaimedJob
    <3> QED
      BY <3>1, <3>2, <3>3 DEF Begun, SameButLease, Idle, IsLatestLive, isNonTerminalRunState,
                              NonTerminalStates
  <2> QED
    BY <2>1, <2>2
<1>7. CASE PreprocessFails(k)
  BY <1>7, Shapes, SMTT(30) DEF PreprocessFails, Worker
<1> QED
  BY <1>1, <1>2, <1>3, <1>4, <1>5, <1>6, <1>7

\* Capacity and submission: the new run is the only one.
LEMMA AsyncSubmitSteps ==
    ASSUME LetRun, AsyncInv, NEW k \in Workers,
           \/ AcquireCapacity(k) \/ DenyCapacity(k) \/ Requeue(k)
           \/ ModelNotFound(k) \/ InputsFail(k) \/ Submit(k)
    PROVE  AsyncCore'
<1> USE DEF LetRun, AsyncInv, AsyncCore, OneClaim, Phases, InHand, Follows, OneRun, BeforeRemote, Claims,
        Claimable, Over, Live, Unstarted, Exists
<1>1. CASE AcquireCapacity(k)
  <2> DEFINE a == worker[k].run
  <2>1. a \in Attempts /\ worker[k].pc = "acquire" /\ ~Exists(runs[a])
    BY <1>1, Shapes DEF AcquireCapacity, Unbound
  <2>2. /\ runs' = [runs EXCEPT ![a] = NewRun]
        /\ worker' = [worker EXCEPT ![k].pc = "submit", ![k].rev = NewRun.rev]
        /\ UNCHANGED job
    BY <1>1, <2>1 DEF AcquireCapacity, createProviderRun
  <2> QED
    BY <2>1, <2>2, Shapes DEF Worker, NewRun, isNonTerminalRunState, NonTerminalStates
<1>2. CASE DenyCapacity(k)
  <2>1. /\ worker[k].pc = "acquire" /\ Goto(k, "requeue") /\ UNCHANGED runs
        /\ job' = IF job.status = "running" THEN [job EXCEPT !.status = "queued"] ELSE job
    BY <1>2 DEF DenyCapacity
  <2> QED
    BY <2>1, Shapes DEF Goto, Worker, Job
<1>3. CASE Requeue(k)
  <2>1. worker[k].pc = "requeue" /\ Acknowledge(k) /\ UNCHANGED <<job, runs>>
    BY <1>3 DEF Requeue, outside
  <2> QED
    BY <2>1, Shapes DEF Acknowledge, Idle
<1>4. CASE ModelNotFound(k)
  <2>1. worker[k].pc = "acquire" /\ Acknowledge(k) /\ persistJobFailure(FALSE) /\ UNCHANGED runs
    BY <1>4 DEF ModelNotFound
  <2> QED
    BY <2>1, Shapes DEF persistJobFailure, Acknowledge, Idle, Job
<1>5. CASE InputsFail(k)
  <2>1. PICK res \in {"temporary", "rejected"} :
          worker' = [worker EXCEPT ![k].pc = "catch", ![k].res = res]
    BY <1>5 DEF InputsFail
  <2>2. worker[k].pc = "submit" /\ UNCHANGED <<job, runs>>
    BY <1>5 DEF InputsFail
  <2> QED
    BY <2>1, <2>2, Shapes DEF Worker
<1>6. CASE Submit(k)
  <2>1. PICK res \in SubmitResults, id \in BOOLEAN :
          worker' = [worker EXCEPT ![k].pc = "submit_settle", ![k].res = res, ![k].remote = id]
    BY <1>6 DEF Submit
  <2>2. worker[k].pc = "submit" /\ UNCHANGED <<job, runs>>
    BY <1>6 DEF Submit
  <2> QED
    BY <2>1, <2>2, Shapes, SMTT(30) DEF Worker
<1> QED
  BY <1>1, <1>2, <1>3, <1>4, <1>5, <1>6

\* A run failed by a worker that has the claim, or that follows the remote task.
LEMMA FailRunCore ==
    ASSUME AsyncInv, NEW k \in Workers, NEW rev, failRunTerminal(k, rev),
           worker[k].pc \notin Unstarted, Claims(k) \/ Follows(k)
    PROVE  AsyncCore'
<1> DEFINE a == worker[k].run
           row == Unleased(Ended(runs[a], rev, "failed"), k)
<1>1. a \in Attempts /\ Exists(runs[a]) /\ (Claims(k) \/ runs[a].remote)
  BY DEF AsyncInv, AsyncCore, InHand
<1>2. runs' = [runs EXCEPT ![a] = row] /\ Closed(row, runs[a])
  BY <1>1, RowWrites, Shapes DEF failRunTerminal, TerminalStates, AsyncInv
<1>3. /\ job'.deleted = job.deleted
      /\ job'.status = job.status \/ job'.status = "failed"
  BY Shapes DEF failRunTerminal, persistJobFailure, Job, AsyncInv
<1> HIDE DEF a, row
<1> QED
  BY <1>1, <1>2, <1>3, LetGo DEF failRunTerminal

\* A run canceled, whoever asked for it.
LEMMA CancelRunCore ==
    ASSUME AsyncInv, NEW k \in Workers, cancelJobWithRun(k), worker[k].pc \notin Unstarted
    PROVE  AsyncCore'
<1> DEFINE a == worker[k].run
           row == Unleased(Ended(runs[a], runs[a].rev, "canceled"), k)
<1>1. a \in Attempts /\ Exists(runs[a])
  BY DEF AsyncInv, AsyncCore, InHand
<1>2. runs' = [runs EXCEPT ![a] = row] /\ Closed(row, runs[a])
  BY <1>1, RowWrites, Shapes DEF cancelJobWithRun, TerminalStates, AsyncInv
<1>3. /\ job'.deleted = job.deleted
      /\ job'.status \in {job.status, "canceled"}
      /\ job.status \in {"queued", "running", "retry_wait"} => job'.status = "canceled"
  BY Shapes DEF cancelJobWithRun, CanceledIfActive, ActiveStatuses, Job, AsyncInv
<1> HIDE DEF a, row
<1>4. CASE Claimable
  <2>1. job'.status = "canceled"
    BY <1>3, <1>4 DEF Claimable, AsyncInv, AsyncCore, OneClaim
  <2> QED
    BY <1>1, <1>2, <1>3, <2>1, LetGo DEF cancelJobWithRun
<1>5. CASE ~Claimable
  BY <1>1, <1>2, <1>3, <1>5, Shapes DEF cancelJobWithRun, Acknowledge, Idle, Closed, AsyncInv, AsyncCore,
       OneClaim, Phases, InHand, Follows, OneRun, BeforeRemote, Claims, Claimable, Unstarted
<1> QED
  BY <1>4, <1>5

\* What follows the answer to a submission.
LEMMA AsyncSettleSteps ==
    ASSUME LetRun, AsyncInv, NEW k \in Workers,
           \/ retrySyncSubmit(k) \/ RetryConflict(k) \/ SubmitFailed(k)
           \/ SubmitUnclear(k) \/ SubmitStored(k) \/ ResultFailed(k)
           \/ ResultCanceled(k) \/ CountMismatch(k)
    PROVE  AsyncCore'
<1> DEFINE a == worker[k].run
<1>1. CASE retrySyncSubmit(k) \/ RetryConflict(k)
  BY <1>1 DEF retrySyncSubmit, RetryConflict, MayRetrySubmit, LetRun
<1>2. CASE SubmitFailed(k)
  <2>1. worker[k].pc = "submit_settle" /\ failRunTerminal(k, worker[k].rev)
    BY <1>2 DEF SubmitFailed, Settling
  <2>2. worker[k].pc \notin Unstarted /\ Claims(k)
    BY <2>1 DEF Unstarted, Claims, AsyncInv, AsyncCore, Phases
  <2> QED
    BY <2>1, <2>2, FailRunCore
<1>3. CASE SubmitUnclear(k)
  <2>1. /\ worker[k].pc = "submit_settle" /\ Acknowledge(k)
        /\ runs' = [runs EXCEPT ![a] = Moved(runs[a], worker[k].rev, "submission_unknown", FALSE)]
        /\ job' = [job EXCEPT !.status = "running"]
    BY <1>3 DEF SubmitUnclear, Settling
  <2>2. Claims(k) /\ a \in Attempts /\ Exists(runs[a]) /\ runs[a] \in RunRow
    BY <2>1, Shapes DEF Unstarted, Claims, AsyncInv, AsyncCore, Phases, InHand
  <2>3. Kept(Moved(runs[a], worker[k].rev, "submission_unknown", FALSE), runs[a])
    BY <2>2, RowWrites DEF NonTerminalStates
  <2>4. job'.deleted = job.deleted /\ job'.status = "running"
    BY <2>1, Shapes DEF Job, AsyncInv
  <2> HIDE DEF a
  <2> QED
    BY <2>1, <2>2, <2>3, <2>4, LetGo DEF Closed, Kept
<1>4. CASE SubmitStored(k)
  <2>1. /\ worker[k].pc = "submit_settle" /\ Acknowledge(k) /\ UNCHANGED job
        /\ \E state \in NonTerminalStates :
             runs' = [runs EXCEPT ![a] = Stored(runs[a], worker[k].rev, state, worker[k].remote)]
    BY <1>4 DEF SubmitStored, Settling, NonTerminalStates
  <2>2. Claims(k) /\ a \in Attempts /\ Exists(runs[a]) /\ runs[a] \in RunRow
    BY <2>1, Shapes DEF Unstarted, Claims, AsyncInv, AsyncCore, Phases, InHand
  <2>3. /\ worker' = [worker EXCEPT ![k] = Idle]
        /\ \A b \in Attempts : b # a => runs'[b] = runs[b]
        /\ Exists(runs'[a])
    BY <2>1, <2>2, Shapes DEF Acknowledge, Stored, Exists, NonTerminalStates, RunRow, AsyncInv
  <2>4. ~Claimable'
    BY <2>1, <2>2, <2>3, Shapes DEF Claimable, Claims, Idle, AsyncInv, AsyncCore, OneClaim
  <2>5. \A b \in Attempts : ~runs[b].remote \/ ~Exists(runs[b])
    BY <2>2 DEF Claimable, AsyncInv, AsyncCore, BeforeRemote
  <2> HIDE DEF a
  <2> QED
    BY <2>1, <2>2, <2>3, <2>4, <2>5, Shapes DEF AsyncInv, AsyncCore, OneClaim, Phases, InHand, Follows,
         OneRun, BeforeRemote, Claims, Claimable, Unstarted, Idle
<1>5. CASE ResultFailed(k) \/ CountMismatch(k)
  <2>1. /\ \E rev : failRunTerminal(k, rev)
        /\ worker[k].pc \notin Unstarted
        /\ Claims(k) \/ Follows(k)
    BY <1>5 DEF ResultFailed, CountMismatch, Settled, Settling, Unstarted, Claims, Follows, AsyncInv,
         AsyncCore, Phases
  <2> QED
    BY <2>1, FailRunCore
<1>6. CASE ResultCanceled(k)
  <2>1. cancelJobWithRun(k) /\ worker[k].pc \notin Unstarted
    BY <1>6 DEF ResultCanceled, Settled, Settling, Unstarted
  <2> QED
    BY <2>1, CancelRunCore
<1> QED
  BY <1>1, <1>2, <1>3, <1>4, <1>5, <1>6

\* An exception under a run in hand: the run is as it was.
LEMMA ThrowCore ==
    ASSUME AsyncInv, NEW k \in Workers, NEW res, Throw(k, res), UNCHANGED job,
           worker[k].pc \notin Unstarted
    PROVE  AsyncCore'
<1> DEFINE a == worker[k].run
           row == Unleased(runs[a], k)
<1>1. a \in Attempts /\ Exists(runs[a]) /\ Kept(row, runs[a])
  BY Shapes, RowWrites DEF AsyncInv, AsyncCore, InHand
<1>2. runs' = [runs EXCEPT ![a] = row]
  BY DEF Throw
<1>3. CASE worker[k].claimed
  <2>1. worker' = [worker EXCEPT ![k].pc = "catch", ![k].res = res]
    BY <1>3 DEF Throw
  <2>2. \A b \in Attempts : Kept(runs'[b], runs[b])
    BY <1>1, <1>2, Shapes DEF Kept, AsyncInv
  <2>3. Claims(k)
    BY <1>3 DEF Claims, Unstarted
  <2>4. /\ \A j \in Workers : j # k => worker'[j] = worker[j]
        /\ worker'[k].pc = "catch" /\ worker'[k].claimed
    BY <1>3, <2>1, Shapes DEF Worker, AsyncInv
  <2> HIDE DEF a, row
  <2> QED
    BY <2>2, <2>3, <2>4, Shapes DEF Kept, AsyncInv, AsyncCore, OneClaim, Phases, InHand, Follows,
         OneRun, BeforeRemote, Claims, Claimable, Over, Live, Unstarted
<1>4. CASE ~worker[k].claimed
  <2>1. Acknowledge(k)
    BY <1>4 DEF Throw, LeavePending, Acknowledge
  <2> HIDE DEF a, row
  <2> QED
    BY <1>1, <1>2, <2>1, LetGo DEF Kept, Closed
<1> QED
  BY <1>3, <1>4

\* Import of the outputs.
LEMMA AsyncImportSteps ==
    ASSUME LetRun, AsyncInv, NEW k \in Workers,
           \/ StartImport(k) \/ ImportOutputs(k) \/ ImportFails(k)
           \/ PersistSuccess(k) \/ PersistRefused(k)
    PROVE  AsyncCore'
<1> DEFINE a == worker[k].run
<1>0. worker[k].pc \notin Unstarted => a \in Attempts /\ Exists(runs[a]) /\ runs[a] \in RunRow
  BY Shapes DEF AsyncInv, AsyncCore, InHand
<1>1. CASE StartImport(k)
  <2> DEFINE row == Moved(runs[a], worker[k].rev, "importing", TRUE)
  <2>1. /\ worker[k].pc \in {"submit_settle", "poll_settle"} /\ worker[k].res = "succeeded"
        /\ runs' = [runs EXCEPT ![a] = row]
        /\ \E rev : worker' = [worker EXCEPT ![k].pc = "import", ![k].rev = rev]
        /\ UNCHANGED job
    BY <1>1 DEF StartImport, Settled, Settling
  <2>2. a \in Attempts /\ Exists(runs[a]) /\ Kept(row, runs[a])
    BY <1>0, <2>1, RowWrites DEF Unstarted, NonTerminalStates
  <2>3. /\ \A j \in Workers : j # k => worker'[j] = worker[j]
        /\ worker'[k].pc = "import" /\ worker'[k].run = a
        /\ (worker'[k].claimed <=> worker[k].claimed)
    BY <2>1, Shapes DEF Worker, AsyncInv
  <2>4. \A b \in Attempts : Kept(runs'[b], runs[b])
    BY <2>1, <2>2, Shapes DEF Kept, AsyncInv
  <2> HIDE DEF a, row
  <2> QED
    BY <2>1, <2>2, <2>3, <2>4, Shapes DEF Kept, AsyncInv, AsyncCore, OneClaim, Phases, InHand, Follows,
         OneRun, BeforeRemote, Claims, Claimable, Over, Live, Unstarted
<1>2. CASE ImportOutputs(k)
  <2>1. /\ worker[k].pc = "import" /\ UNCHANGED <<job, runs>>
        /\ \E rev, res :
             worker' = [worker EXCEPT ![k].pc = "persist", ![k].rev = rev, ![k].res = res]
    BY <1>2 DEF ImportOutputs
  <2> QED
    BY <2>1, Shapes DEF Worker, AsyncInv, AsyncCore, OneClaim, Phases, InHand, Follows,
         OneRun, BeforeRemote, Claims, Claimable, Over, Live, Unstarted
<1>3. CASE ImportFails(k)
  <2>1. worker[k].pc = "import" /\ Throw(k, "temporary") /\ UNCHANGED job
    BY <1>3 DEF ImportFails
  <2> QED
    BY <2>1, ThrowCore DEF Unstarted
<1>4. CASE PersistSuccess(k)
  <2> DEFINE row == Unleased(Ended(runs[a], worker[k].rev, "succeeded"), k)
  <2>1. /\ worker[k].pc = "persist" /\ job.status = "running"
        /\ job' = [job EXCEPT !.status = "succeeded"]
        /\ runs' = [runs EXCEPT ![a] = row]
        /\ Acknowledge(k)
    BY <1>4 DEF PersistSuccess
  <2>2. a \in Attempts /\ Exists(runs[a]) /\ Closed(row, runs[a])
    BY <1>0, <2>1, RowWrites DEF Unstarted, TerminalStates
  <2>3. Claims(k) \/ runs[a].remote
    BY <2>1 DEF Claims, AsyncInv, AsyncCore, InHand, Follows
  <2>4. job'.deleted = job.deleted /\ job'.status = "succeeded"
    BY <2>1, Shapes DEF Job, AsyncInv
  <2> HIDE DEF a, row
  <2> QED
    BY <2>1, <2>2, <2>3, <2>4, LetGo
<1>5. CASE PersistRefused(k)
  <2> DEFINE row == Unleased(runs[a], k)
  <2>1. worker[k].pc = "persist" /\ UNCHANGED job /\ Acknowledge(k)
        /\ runs' = [runs EXCEPT ![a] = row]
    BY <1>5 DEF PersistRefused
  <2>2. a \in Attempts /\ Exists(runs[a]) /\ Kept(row, runs[a])
    BY <1>0, <2>1, RowWrites DEF Unstarted
  <2> HIDE DEF a, row
  <2> QED
    BY <2>1, <2>2, LetGo DEF Kept, Closed
<1> QED
  BY <1>1, <1>2, <1>3, <1>4, <1>5

\* Polls.
LEMMA AsyncPollSteps ==
    ASSUME LetRun, AsyncInv, NEW k \in Workers,
           \/ Poll(k) \/ PollThrows(k) \/ PollFailed(k) \/ PollJobDeleted(k)
           \/ PollUnclear(k) \/ PollStored(k) \/ PollTemporary(k)
    PROVE  AsyncCore'
<1> DEFINE a == worker[k].run
<1>0. worker[k].pc \notin Unstarted => a \in Attempts /\ Exists(runs[a]) /\ runs[a] \in RunRow
  BY Shapes DEF AsyncInv, AsyncCore, InHand
<1>1. CASE Poll(k)
  <2>1. worker[k].pc = "polling" /\ UNCHANGED <<job, runs>>
    BY <1>1 DEF Poll
  <2>2. PICK res \in PollResults :
          worker' = [worker EXCEPT ![k].pc = "poll_settle", ![k].res = res,
                        ![k].rev = IF res \in {"temporary", "rejected"}
                                     THEN @ ELSE runs[a].rev]
    BY <1>1 DEF Poll
  <2> QED
    BY <2>1, <2>2, Shapes DEF Worker, PollResults, AsyncInv, AsyncCore, OneClaim, Phases, InHand, Follows,
         OneRun, BeforeRemote, Claims, Claimable, Over, Live, Unstarted
<1>2. CASE PollThrows(k)
  <2>1. worker[k].pc \in {"polling", "poll_settle"} /\ Throw(k, "rejected") /\ UNCHANGED job
    BY <1>2 DEF PollThrows, Settling
  <2> QED
    BY <2>1, ThrowCore DEF Unstarted
<1>3. CASE PollFailed(k)
  <2>1. /\ worker[k].pc = "poll_settle" /\ worker[k].res \in {"rejected", "no_poll"}
        /\ failRunTerminal(k, worker[k].rev)
    BY <1>3 DEF PollFailed, Settling, LetRun
  <2>2. worker[k].pc \notin Unstarted /\ Follows(k)
    BY <2>1 DEF Unstarted, Follows
  <2> QED
    BY <2>1, <2>2, FailRunCore
<1>4. CASE PollJobDeleted(k)
  <2> DEFINE row == Unleased(Ended(runs[a], worker[k].rev, "failed"), k)
  <2>1. /\ worker[k].pc = "poll_settle" /\ worker[k].res = "job_deleted"
        /\ UNCHANGED job /\ Acknowledge(k) /\ runs' = [runs EXCEPT ![a] = row]
    BY <1>4 DEF PollJobDeleted, Settling
  <2>2. a \in Attempts /\ Exists(runs[a]) /\ Closed(row, runs[a])
    BY <1>0, <2>1, RowWrites DEF Unstarted, TerminalStates
  <2>3. job.deleted
    BY <2>1 DEF AsyncInv, AsyncCore, InHand
  <2> HIDE DEF a, row
  <2> QED
    BY <2>1, <2>2, <2>3, LetGo
<1>5. CASE PollUnclear(k)
  <2> DEFINE row == Unleased(Moved(runs[a], worker[k].rev, "submission_unknown", FALSE), k)
  <2>1. /\ worker[k].pc = "poll_settle" /\ UNCHANGED job /\ Acknowledge(k)
        /\ runs' = [runs EXCEPT ![a] = row]
    BY <1>5 DEF PollUnclear, Settling
  <2>2. a \in Attempts /\ Exists(runs[a]) /\ Kept(row, runs[a])
    BY <1>0, <2>1, RowWrites DEF Unstarted, NonTerminalStates
  <2> HIDE DEF a, row
  <2> QED
    BY <2>1, <2>2, LetGo DEF Kept, Closed
<1>6. CASE PollStored(k)
  <2> DEFINE row == Unleased(Stored(runs[a], worker[k].rev, worker[k].res, TRUE), k)
  <2>1. /\ worker[k].pc = "poll_settle" /\ worker[k].res \in {"waiting", "submission_unknown"}
        /\ UNCHANGED job /\ Acknowledge(k) /\ runs' = [runs EXCEPT ![a] = row]
    BY <1>6 DEF PollStored, Settling
  <2>2. /\ a \in Attempts /\ Exists(runs[a]) /\ runs[a] \in RunRow
        /\ runs[a].remote
    BY <1>0, <2>1 DEF Unstarted, Follows, AsyncInv, AsyncCore, InHand
  <2>3. Kept(row, runs[a])
    BY <2>1, <2>2 DEF Kept, Unleased, Stored, Exists, isNonTerminalRunState, NonTerminalStates, RunRow
  <2> HIDE DEF a, row
  <2> QED
    BY <2>1, <2>2, <2>3, LetGo DEF Kept, Closed
<1>7. CASE PollTemporary(k)
  <2> DEFINE row == Unleased(Postponed(runs[a], worker[k].rev), k)
  <2>1. /\ worker[k].pc = "poll_settle" /\ UNCHANGED job /\ Acknowledge(k)
        /\ runs' = [runs EXCEPT ![a] = row]
    BY <1>7 DEF PollTemporary, Settling
  <2>2. a \in Attempts /\ Exists(runs[a]) /\ Kept(row, runs[a])
    BY <1>0, <2>1, RowWrites DEF Unstarted
  <2> HIDE DEF a, row
  <2> QED
    BY <2>1, <2>2, LetGo DEF Kept, Closed
<1> QED
  BY <1>1, <1>2, <1>3, <1>4, <1>5, <1>6, <1>7

\* Cancellation, and processJob's outer catch.
LEMMA AsyncCancelSteps ==
    ASSUME LetRun, AsyncInv, NEW k \in Workers,
           RequestCancel(k) \/ RequestCancelFails(k) \/ FinishCancel(k) \/ CatchFailure(k)
    PROVE  AsyncCore'
<1> DEFINE a == worker[k].run
<1>0. worker[k].pc \notin Unstarted => a \in Attempts /\ Exists(runs[a]) /\ runs[a] \in RunRow
  BY Shapes DEF AsyncInv, AsyncCore, InHand
<1>1. CASE RequestCancel(k) \/ RequestCancelFails(k)
  <2> DEFINE row == Moved(runs[a], worker[k].rev, "canceling", TRUE)
  <2>1. /\ worker[k].pc = "cancel" /\ UNCHANGED job /\ Goto(k, "canceling")
        /\ UNCHANGED runs \/ runs' = [runs EXCEPT ![a] = row]
    BY <1>1 DEF RequestCancel, RequestCancelFails
  <2>2. a \in Attempts /\ Exists(runs[a]) /\ Kept(row, runs[a])
    BY <1>0, <2>1, RowWrites DEF Unstarted, NonTerminalStates
  <2>3. /\ \A j \in Workers : j # k => worker'[j] = worker[j]
        /\ worker'[k].pc = "canceling" /\ worker'[k].run = a
        /\ (worker'[k].claimed <=> worker[k].claimed)
    BY <2>1, Shapes DEF Goto, Worker, AsyncInv
  <2>4. \A b \in Attempts : Kept(runs'[b], runs[b])
    BY <2>1, <2>2, Shapes DEF Kept, AsyncInv
  <2> HIDE DEF a, row
  <2> QED
    BY <2>1, <2>2, <2>3, <2>4, Shapes DEF Kept, AsyncInv, AsyncCore, OneClaim, Phases, InHand, Follows,
         OneRun, BeforeRemote, Claims, Claimable, Over, Live, Unstarted
<1>2. CASE FinishCancel(k)
  BY <1>2, CancelRunCore DEF FinishCancel, Unstarted
<1>3. CASE CatchFailure(k)
  <2>1. worker[k].pc = "catch" /\ Acknowledge(k) /\ Claims(k)
    BY <1>3 DEF CatchFailure, Claims, AsyncInv, AsyncCore, Phases
  <2>2. \A b \in Attempts :
          \/ runs'[b] = runs[b]
          \/ Exists(runs[b]) /\ runs'[b] = Postponed(runs[b], runs[b].rev)
          \/ Exists(runs[b]) /\ ~Live(b) /\ runs'[b] = Ended(runs[b], runs[b].rev, "failed")
    BY <1>3 DEF CatchFailure, IsLatest, Live
  <2>3. \A b \in Attempts :
          /\ Closed(runs'[b], runs[b])
          /\ Live(b) => isNonTerminalRunState(runs'[b])
    <3> TAKE b \in Attempts
    <3>1. Exists(runs[b]) => /\ Kept(Postponed(runs[b], runs[b].rev), runs[b])
                             /\ Closed(Ended(runs[b], runs[b].rev, "failed"), runs[b])
      BY Shapes, RowWrites DEF TerminalStates, AsyncInv
    <3> QED
      BY <2>2, <3>1 DEF Kept, Closed, Live
  <2>4. /\ job'.deleted = job.deleted
        /\ job'.status = job.status \/ job'.status \in {"retry_wait", "failed"}
        /\ job.status = "canceled" => job'.status = "canceled"
    BY <1>3, Shapes DEF CatchFailure, persistJobFailure, Job, AsyncInv
  <2>5. /\ worker' = [worker EXCEPT ![k] = Idle]
        /\ \A j \in Workers : ~Claims(j)'
    BY <2>1, Shapes DEF Acknowledge, Idle, Claims, AsyncInv, AsyncCore, OneClaim
  <2>6. \A b \in Attempts : Exists(runs[b]) => ~runs[b].remote /\ (Live(b) \/ Over)
    BY <2>1 DEF Claimable, AsyncInv, AsyncCore, BeforeRemote
  <2> QED
    BY <2>1, <2>3, <2>4, <2>5, <2>6, Shapes DEF Closed, AsyncInv, AsyncCore, OneClaim, Phases, InHand,
         Follows, OneRun, BeforeRemote, Claimable, Over, Live, Unstarted, Idle
<1> QED
  BY <1>1, <1>2, <1>3

\* Time, users and maintenance: rows change in ways that keep them.
LEMMA AsyncOtherSteps ==
    ASSUME LetRun, AsyncInv,
           \/ \E k \in Workers : Crash(k)
           \/ UserStep \/ Maintenance \/ Time
    PROVE  AsyncCore'
<1> USE DEF AsyncInv, AsyncCore, OneClaim, Phases, InHand, Follows, OneRun, BeforeRemote, Claims,
        Claimable, Over, Live, Unstarted
<1>1. CASE \E k \in Workers : Crash(k)
  <2>1. PICK k \in Workers : Acknowledge(k) /\ UNCHANGED <<job, runs>>
    BY <1>1 DEF Crash
  <2> QED
    BY <2>1, Shapes DEF Acknowledge, Idle
<1>2. ASSUME UNCHANGED worker, \A b \in Attempts : Kept(runs'[b], runs[b]),
             job'.deleted \/ ~job.deleted,
             job'.status \in {job.status, "canceled"}
      PROVE  AsyncCore'
  BY <1>2, Shapes DEF Kept
<1>3. \A b \in Attempts : Kept(runs[b], runs[b]) /\ Kept(MarkedCanceling(runs[b]), runs[b])
  BY Shapes DEF Kept, MarkedCanceling, Exists, isNonTerminalRunState, NonTerminalStates, RunRow
<1>4. CASE UserStep
  <2>1. ~retryJob
    BY DEF LetRun, retryJob, Spend
  <2>2. \A b \in Attempts : Kept(runs'[b], runs[b])
    BY <1>3, <1>4, <2>1 DEF UserStep, cancelJob, deleteJobWithAssets, deleteUser, MarkRunsCanceling
  <2>3. /\ UNCHANGED worker
        /\ job'.deleted \/ ~job.deleted
        /\ job'.status \in {job.status, "canceled"}
    BY <1>4, <2>1, Shapes
       DEF UserStep, cancelJob, deleteJobWithAssets, deleteUser, CanceledIfActive, Job
  <2> QED
    BY <1>2, <2>2, <2>3
<1>5. CASE Maintenance
  <2>1. /\ UNCHANGED <<worker, runs>>
        /\ UNCHANGED job \/ job' = [job EXCEPT !.status = "canceled"]
    BY <1>5 DEF Maintenance, dispatchOutbox, handleCancellation, claimStalePending,
                dispatchDueProviderRun, deleteDoomedObject, outside
  <2>2. job'.deleted = job.deleted /\ job'.status \in {job.status, "canceled"}
    BY <2>1, Shapes DEF Job
  <2> QED
    BY <1>2, <1>3, <2>1, <2>2
<1>6. CASE Time
  <2>1. /\ UNCHANGED <<worker, job>>
        /\ \E a \in Attempts : \/ runs' = [runs EXCEPT ![a].lease = NoWorker]
                               \/ runs' = [runs EXCEPT ![a].due = TRUE]
    BY <1>6 DEF Time, ExpireLease, ActionFallsDue
  <2>2. \A b \in Attempts : Kept(runs'[b], runs[b])
    BY <2>1, Shapes DEF Kept, Exists, isNonTerminalRunState, RunRow
  <2> QED
    BY <1>2, <2>1, <2>2
<1> QED
  BY <1>1, <1>4, <1>5, <1>6

\* One action of the specification keeps the rest of the invariant.
LEMMA CoreStep ==
    ASSUME LetRun, AsyncInv, [Next]_vars
    PROVE  AsyncCore'
<1>1. CASE UNCHANGED vars
  BY <1>1 DEF vars, AsyncInv, AsyncCore, OneClaim, Phases, InHand, Follows, OneRun, BeforeRemote,
       Claims, Claimable, Over, Live, Unstarted
<1>2. ASSUME NEW k \in Workers, WorkerStep(k) \/ WorkerFault(k)
      PROVE  AsyncCore'
  BY <1>2, AsyncClaimSteps, AsyncSubmitSteps, AsyncSettleSteps, AsyncImportSteps, AsyncPollSteps,
     AsyncCancelSteps, AsyncOtherSteps DEF WorkerStep, WorkerFault
<1> QED
  BY <1>1, <1>2, AsyncOtherSteps DEF Next

-----------------------------------------------------------------------------
(* Whatever names a run was handed the name of a run that exists. *)

\* No write takes a row away.
LEMMA RowStays ==
    ASSUME NEW row \in RunRow, Exists(row), NEW rev, NEW k, NEW remoteId, NEW due
    PROVE  /\ \A state \in NonTerminalStates \cup TerminalStates :
                /\ Exists(Moved(row, rev, state, due))
                /\ Exists(Unleased(Moved(row, rev, state, due), k))
                /\ Exists(Stored(row, rev, state, remoteId))
                /\ Exists(Unleased(Stored(row, rev, state, remoteId), k))
                /\ Exists(Ended(row, rev, state))
                /\ Exists(Unleased(Ended(row, rev, state), k))
           /\ Exists(Postponed(row, rev)) /\ Exists(Unleased(Postponed(row, rev), k))
           /\ Exists(Unleased(row, k)) /\ Exists(Leased(row, k)) /\ Exists(MarkedCanceling(row))
           /\ Exists(createProviderRun(row))
<1> USE DEF Exists, RunRow, NonTerminalStates, TerminalStates
<1>1. ASSUME NEW state \in NonTerminalStates \cup TerminalStates
      PROVE  /\ Exists(Moved(row, rev, state, due))
             /\ Exists(Stored(row, rev, state, remoteId))
             /\ Exists(Ended(row, rev, state))
  BY <1>1 DEF Moved, Stored, Ended
<1>2. ASSUME NEW state \in NonTerminalStates \cup TerminalStates
      PROVE  /\ Exists(Unleased(Moved(row, rev, state, due), k))
             /\ Exists(Unleased(Stored(row, rev, state, remoteId), k))
             /\ Exists(Unleased(Ended(row, rev, state), k))
  BY <1>2 DEF Moved, Stored, Ended, Unleased
<1>3. Exists(Postponed(row, rev)) /\ Exists(Unleased(Postponed(row, rev), k))
  BY DEF Postponed, Unleased
<1>4. /\ Exists(Unleased(row, k)) /\ Exists(Leased(row, k)) /\ Exists(MarkedCanceling(row))
      /\ Exists(createProviderRun(row))
  BY DEF Unleased, Leased, MarkedCanceling, createProviderRun
<1> QED
  BY <1>1, <1>2, <1>3, <1>4

\* A single row changes, and stays.
LEMMA OneRowStays ==
    ASSUME Inv, NEW a, NEW row, runs' = [runs EXCEPT ![a] = row],
           a \in Attempts /\ Exists(runs[a]) => Exists(row)
    PROVE  \A b \in Attempts : Exists(runs[b]) => Exists(runs'[b])
BY Shapes

LEMMA RunsStay ==
    ASSUME AsyncInv, [Next]_vars
    PROVE  \A b \in Attempts : Exists(runs[b]) => Exists(runs'[b])
<1> DEFINE Stay == \A b \in Attempts : Exists(runs[b]) => Exists(runs'[b])
<1>0. Inv /\ \A b \in Attempts : runs[b] \in RunRow
  BY Shapes DEF AsyncInv
<1>1. CASE UNCHANGED runs
  BY <1>1
<1>2. ASSUME NEW k \in Workers, WorkerStep(k) \/ WorkerFault(k)
      PROVE  Stay
  <2> DEFINE a == worker[k].run
  <2>1. ASSUME NEW state \in NonTerminalStates \cup TerminalStates, NEW rev, NEW due, NEW id,
               \/ runs' = [runs EXCEPT ![a] = Moved(@, rev, state, due)]
               \/ runs' = [runs EXCEPT ![a] = Unleased(Moved(@, rev, state, due), k)]
               \/ runs' = [runs EXCEPT ![a] = Stored(@, rev, state, id)]
               \/ runs' = [runs EXCEPT ![a] = Unleased(Stored(@, rev, state, id), k)]
               \/ runs' = [runs EXCEPT ![a] = Ended(@, rev, state)]
               \/ runs' = [runs EXCEPT ![a] = Unleased(Ended(@, rev, state), k)]
               \/ runs' = [runs EXCEPT ![a] = Unleased(Postponed(@, rev), k)]
               \/ runs' = [runs EXCEPT ![a] = Unleased(@, k)]
        PROVE  Stay
    <3>1. PICK row : /\ runs' = [runs EXCEPT ![a] = row]
                     /\ a \in Attempts /\ Exists(runs[a]) => Exists(row)
      <4> HIDE DEF a
      <4> QED
        BY <1>0, <2>1, RowStays
    <3> HIDE DEF a
    <3> QED
      BY <1>0, <3>1, OneRowStays
  <2>2. ASSUME NEW b \in Attempts, NEW msg, NEW claimed, PollFrom(k, b, msg, claimed)
        PROVE  Stay
    <3>1. UNCHANGED runs \/ runs' = [runs EXCEPT ![b] = Leased(runs[b], k)]
      BY <2>2 DEF PollFrom
    <3> QED
      BY <1>0, <3>1, RowStays, OneRowStays
  <2>3. CASE \/ ClaimJob(k) \/ CancelAtClaim(k) \/ IgnoreClaim(k) \/ PollMessage(k)
             \/ CancelClaimed(k) \/ ContinueClaimed(k) \/ PreprocessFails(k)
    BY <1>1, <2>2, <2>3 DEF ClaimJob, CancelAtClaim, IgnoreClaim, PollMessage, CancelClaimed,
                            ContinueClaimed, PreprocessFails
  <2>4. CASE AcquireCapacity(k)
    BY <1>0, <2>4, RowStays, OneRowStays DEF AcquireCapacity
  <2>5. CASE \/ DenyCapacity(k) \/ Requeue(k) \/ ModelNotFound(k) \/ InputsFail(k) \/ Submit(k)
             \/ RetryConflict(k) \/ ImportOutputs(k) \/ Poll(k) \/ Crash(k)
    BY <1>1, <2>5 DEF DenyCapacity, Requeue, ModelNotFound, InputsFail, Submit, RetryConflict,
                      ImportOutputs, Poll, Crash, outside
  <2>6. CASE retrySyncSubmit(k) \/ SubmitFailed(k) \/ ResultFailed(k) \/ CountMismatch(k) \/ PollFailed(k)
    <3>1. \E rev : \/ runs' = [runs EXCEPT ![a] = Ended(@, rev, "failed")]
                   \/ runs' = [runs EXCEPT ![a] = Unleased(Ended(@, rev, "failed"), k)]
      BY <2>6 DEF retrySyncSubmit, SubmitFailed, ResultFailed, CountMismatch, PollFailed, failRunTerminal
    <3> HIDE DEF a, Stay
    <3> QED
      BY <2>1, <3>1 DEF TerminalStates
  <2>7. CASE SubmitUnclear(k) \/ PollUnclear(k) \/ StartImport(k) \/ RequestCancel(k) \/ RequestCancelFails(k)
    <3>0. {"submission_unknown", "importing", "canceling"} \subseteq NonTerminalStates
      BY DEF NonTerminalStates
    <3>1. PICK rev : \/ UNCHANGED runs
                     \/ runs' = [runs EXCEPT ![a] = Moved(@, rev, "submission_unknown", FALSE)]
                     \/ runs' = [runs EXCEPT ![a] = Unleased(Moved(@, rev, "submission_unknown", FALSE), k)]
                     \/ runs' = [runs EXCEPT ![a] = Moved(@, rev, "importing", TRUE)]
                     \/ runs' = [runs EXCEPT ![a] = Moved(@, rev, "canceling", TRUE)]
      BY <2>7 DEF SubmitUnclear, PollUnclear, StartImport, RequestCancel, RequestCancelFails
    <3> HIDE DEF a, Stay
    <3> QED
      <4>1. CASE UNCHANGED runs
        BY <1>1, <4>1 DEF Stay
      <4>2. CASE ~UNCHANGED runs
        <5>1. PICK state \in NonTerminalStates, due \in BOOLEAN :
                 \/ runs' = [runs EXCEPT ![a] = Moved(@, rev, state, due)]
                 \/ runs' = [runs EXCEPT ![a] = Unleased(Moved(@, rev, state, due), k)]
          BY <3>0, <3>1, <4>2
        <5> QED
          BY <2>1, <5>1
      <4> QED
        BY <4>1, <4>2
  <2>8. CASE SubmitStored(k) \/ PollStored(k)
    <3>1. \E state \in NonTerminalStates : \E rev, id :
             \/ runs' = [runs EXCEPT ![a] = Stored(@, rev, state, id)]
             \/ runs' = [runs EXCEPT ![a] = Unleased(Stored(@, rev, state, id), k)]
      BY <2>8, ZenonT(60) DEF SubmitStored, PollStored, Settling, NonTerminalStates
    <3> HIDE DEF a, Stay
    <3> QED
      BY <2>1, <3>1
  <2>9. CASE \/ ResultCanceled(k) \/ FinishCancel(k) \/ PersistSuccess(k) \/ PollJobDeleted(k)
    <3>1. \E rev : \E state \in TerminalStates :
            runs' = [runs EXCEPT ![a] = Unleased(Ended(@, rev, state), k)]
      BY <2>9 DEF ResultCanceled, FinishCancel, PersistSuccess, PollJobDeleted, cancelJobWithRun,
                  TerminalStates
    <3> HIDE DEF a, Stay
    <3> QED
      BY <2>1, <3>1
  <2>10. CASE ImportFails(k) \/ PollThrows(k) \/ PersistRefused(k) \/ PollTemporary(k)
    <3>1. \E rev : \/ runs' = [runs EXCEPT ![a] = Unleased(@, k)]
                   \/ runs' = [runs EXCEPT ![a] = Unleased(Postponed(@, rev), k)]
      BY <2>10 DEF ImportFails, PollThrows, PersistRefused, PollTemporary, Throw
    <3> HIDE DEF a, Stay
    <3> QED
      BY <2>1, <3>1 DEF TerminalStates
  <2>11. CASE CatchFailure(k)
    BY <1>0, <2>11, RowStays DEF CatchFailure, TerminalStates
  <2> QED
    BY <1>2, <2>3, <2>4, <2>5, <2>6, <2>7, <2>8, <2>9, <2>10, <2>11 DEF WorkerStep, WorkerFault
<1>3. CASE UserStep
  <2>1. UNCHANGED runs \/ runs' = MarkRunsCanceling
    BY <1>3 DEF UserStep, cancelJob, retryJob, deleteJobWithAssets, deleteUser
  <2> QED
    BY <1>0, <2>1, RowStays DEF MarkRunsCanceling
<1>4. CASE Maintenance
  BY <1>1, <1>4 DEF Maintenance, dispatchOutbox, handleCancellation, claimStalePending,
                    dispatchDueProviderRun, deleteDoomedObject, outside
<1>5. CASE Time
  <2>1. PICK a \in Attempts : \/ runs' = [runs EXCEPT ![a].lease = NoWorker]
                             \/ runs' = [runs EXCEPT ![a].due = TRUE]
    BY <1>5 DEF Time, ExpireLease, ActionFallsDue
  <2> QED
    BY <1>0, <2>1, Shapes DEF Exists, RunRow
<1> QED
  BY <1>1, <1>2, <1>3, <1>4, <1>5 DEF Next, vars


\* The message a worker has in hand is the one it had, none, or one it takes.
LEMMA MessageInHand ==
    ASSUME Inv, NEW k \in Workers, WorkerStep(k) \/ WorkerFault(k)
    PROVE  /\ \A j \in Workers \ {k} : worker'[j] = worker[j]
           /\ worker'[k].msg \in {worker[k].msg, 0} \cup stream
<1> DEFINE Passes ==
              /\ \A j \in Workers \ {k} : worker'[j] = worker[j]
              /\ worker'[k].msg \in {worker[k].msg, 0} \cup stream
<1> SUFFICES Passes
  OBVIOUS
<1>0. worker \in [Workers -> Worker]
  BY Shapes
<1>1. ASSUME Acknowledge(k) \/ LeavePending(k)
      PROVE  Passes
  BY <1>0, <1>1 DEF Acknowledge, LeavePending, Idle
<1>3. ASSUME NEW a \in Attempts, NEW msg \in {0} \cup stream, NEW claimed, PollFrom(k, a, msg, claimed)
      PROVE  Passes
  BY <1>0, <1>1, <1>3 DEF PollFrom, Idle
<1> HIDE DEF Passes
<1>4. UNCHANGED worker => Passes
  BY DEF Passes
<1>5. CASE ClaimJob(k) \/ CancelAtClaim(k) \/ IgnoreClaim(k) \/ PollMessage(k)
  <2>1. ClaimJob(k) => Passes
    BY <1>0 DEF ClaimJob, Idle, Passes
  <2> QED
    BY <1>3, <1>4, <1>5, <2>1 DEF CancelAtClaim, IgnoreClaim, PollMessage, Takes
<1>6. CASE CancelClaimed(k) \/ ContinueClaimed(k)
  <2>1. \/ Acknowledge(k)
        \/ \E a \in Attempts : PollFrom(k, a, 0, TRUE)
        \/ \E a \in Attempts :
             worker' = [worker EXCEPT ![k].pc = "cancel", ![k].run = a, ![k].rev = runs[a].rev]
        \/ worker' = [worker EXCEPT ![k].pc = "acquire",
                          ![k].run = IF job.attempt = 0 THEN 1 ELSE job.attempt]
    BY <1>6 DEF CancelClaimed, ContinueClaimed
  <2>2. \A a \in Attempts :
          worker' = [worker EXCEPT ![k].pc = "cancel", ![k].run = a, ![k].rev = runs[a].rev] => Passes
    BY <1>0 DEF Worker, Passes
  <2>3. worker' = [worker EXCEPT ![k].pc = "acquire",
                       ![k].run = IF job.attempt = 0 THEN 1 ELSE job.attempt] => Passes
    BY <1>0 DEF Worker, Passes
  <2> QED
    BY <1>1, <1>3, <2>1, <2>2, <2>3
<1>7. CASE \/ PreprocessFails(k) \/ InputsFail(k) \/ AcquireCapacity(k) \/ DenyCapacity(k)
           \/ Submit(k)
  <2>1. PreprocessFails(k) \/ InputsFail(k) => Passes
    BY <1>0 DEF PreprocessFails, InputsFail, Worker, Passes
  <2>2. AcquireCapacity(k) => Passes
    BY <1>0 DEF AcquireCapacity, Worker, Passes
  <2>3. DenyCapacity(k) => Passes
    BY <1>0 DEF DenyCapacity, Goto, Worker, Passes
  <2>4. Submit(k) => Passes
    BY <1>0 DEF Submit, Worker, Passes
  <2> QED
    BY <1>7, <2>1, <2>2, <2>3, <2>4
<1>8. CASE StartImport(k) \/ ImportOutputs(k) \/ Poll(k) \/ RequestCancel(k) \/ RequestCancelFails(k)
  <2>1. StartImport(k) => Passes
    BY <1>0 DEF StartImport, Worker, Passes
  <2>2. ImportOutputs(k) => Passes
    BY <1>0 DEF ImportOutputs, Worker, Passes
  <2>3. Poll(k) => Passes
    BY <1>0 DEF Poll, Worker, Passes
  <2>4. RequestCancel(k) \/ RequestCancelFails(k) => Passes
    BY <1>0, ZenonT(60) DEF RequestCancel, RequestCancelFails, Goto, Worker, Passes
  <2> QED
    BY <1>8, <2>1, <2>2, <2>3, <2>4
<1>9. CASE ImportFails(k) \/ PollThrows(k)
  <2>1. \/ LeavePending(k)
        \/ \E res : worker' = [worker EXCEPT ![k].pc = "catch", ![k].res = res]
    BY <1>9 DEF ImportFails, PollThrows, Throw
  <2>2. (\E res : worker' = [worker EXCEPT ![k].pc = "catch", ![k].res = res]) => Passes
    BY <1>0 DEF Worker, Passes
  <2> QED
    BY <1>1, <2>1, <2>2
<1>10. CASE \/ Requeue(k) \/ ModelNotFound(k) \/ retrySyncSubmit(k) \/ RetryConflict(k)
            \/ SubmitFailed(k) \/ SubmitUnclear(k) \/ SubmitStored(k) \/ ResultFailed(k)
            \/ ResultCanceled(k) \/ CountMismatch(k) \/ PersistSuccess(k) \/ PersistRefused(k)
            \/ PollFailed(k) \/ PollJobDeleted(k) \/ PollUnclear(k) \/ PollStored(k)
            \/ PollTemporary(k) \/ FinishCancel(k) \/ CatchFailure(k) \/ Crash(k)
  <2>1. Acknowledge(k) \/ LeavePending(k)
    BY <1>10 DEF Requeue, ModelNotFound, retrySyncSubmit, RetryConflict, SubmitFailed, SubmitUnclear,
                 SubmitStored, ResultFailed, ResultCanceled, CountMismatch, PersistSuccess,
                 PersistRefused, PollFailed, PollJobDeleted, PollUnclear, PollStored, PollTemporary,
                 FinishCancel, CatchFailure, Crash, failRunTerminal, cancelJobWithRun
  <2> QED
    BY <1>1, <2>1
<1> QED
  BY <1>5, <1>6, <1>7, <1>8, <1>9, <1>10 DEF WorkerStep, WorkerFault

\* What the queues and the orphaned messages may come to hold.
LEMMA QueuesNamed ==
    ASSUME Inv, NEW k \in Workers, WorkerStep(k) \/ WorkerFault(k)
    PROVE  /\ events' \subseteq events \cup {0}
           /\ stream' \subseteq stream \cup {worker[k].msg}
           /\ orphans' \subseteq orphans \cup {[msg |-> worker[k].msg, run |-> worker[k].run]}
           /\ \A b \in Attempts : remote'[b] = remote[b] \/ b = worker[k].run
           /\ UNCHANGED remote \/ worker[k].pc \in {"submit", "polling", "cancel"}
<1> USE DEF queues, outside
<1>1. CASE \/ ClaimJob(k) \/ CancelAtClaim(k) \/ IgnoreClaim(k) \/ PollMessage(k)
           \/ CancelClaimed(k) \/ ContinueClaimed(k) \/ PreprocessFails(k)
  BY <1>1 DEF ClaimJob, CancelAtClaim, IgnoreClaim, PollMessage, CancelClaimed, ContinueClaimed,
              PreprocessFails, Takes
<1>2. CASE \/ AcquireCapacity(k) \/ DenyCapacity(k) \/ Requeue(k) \/ ModelNotFound(k)
           \/ InputsFail(k) \/ PollFailed(k) \/ PollJobDeleted(k) \/ PollUnclear(k)
           \/ PollStored(k) \/ PollTemporary(k)
  BY <1>2 DEF AcquireCapacity, DenyCapacity, Requeue, ModelNotFound, InputsFail, PollFailed,
              PollJobDeleted, PollUnclear, PollStored, PollTemporary
<1>3. CASE \/ retrySyncSubmit(k) \/ RetryConflict(k) \/ SubmitFailed(k) \/ SubmitUnclear(k)
           \/ SubmitStored(k) \/ ResultFailed(k) \/ ResultCanceled(k) \/ CountMismatch(k)
  BY <1>3 DEF retrySyncSubmit, RetryConflict, SubmitFailed, SubmitUnclear, SubmitStored, ResultFailed,
              ResultCanceled, CountMismatch, InsertEvent, LeavePending
<1>4. CASE \/ StartImport(k) \/ ImportOutputs(k) \/ ImportFails(k) \/ PersistSuccess(k)
           \/ PersistRefused(k) \/ PollThrows(k)
  BY <1>4 DEF StartImport, ImportOutputs, ImportFails, PersistSuccess, PersistRefused, PollThrows,
              Throw, LeavePending
<1>5. CASE \/ Submit(k) \/ Poll(k) \/ RequestCancel(k)
  <2>1. UNCHANGED <<events, stream, orphans>> /\ worker[k].pc \in {"submit", "polling", "cancel"}
    BY <1>5 DEF Submit, Poll, RequestCancel
  <2>2. \E ans : remote' = [remote EXCEPT ![worker[k].run] = ans]
    BY <1>5 DEF Submit, Poll, RequestCancel
  <2> QED
    BY <2>1, <2>2 DEF Inv
<1>6. CASE RequestCancelFails(k) \/ FinishCancel(k) \/ CatchFailure(k) \/ Crash(k)
  BY <1>6 DEF RequestCancelFails, FinishCancel, CatchFailure, Crash
<1> QED
  BY <1>1, <1>2, <1>3, <1>4, <1>5, <1>6 DEF WorkerStep, WorkerFault

\* A name is handed on or given to a run that exists.
LEMMA NamesPass ==
    ASSUME AsyncInv, [Next]_vars
    PROVE  RunsKnown'
<1>1. ASSUME NEW b \in Attempts, Named(b)'
      PROVE  Named(b) \/ Exists(runs[b])
  <2>0. b # 0 /\ Inv
    BY ConstantsAssumption DEF Attempts, AsyncInv
  <2>1. CASE UNCHANGED vars
    BY <1>1, <2>1 DEF vars, Named
  <2>2. ASSUME NEW k \in Workers, WorkerStep(k) \/ WorkerFault(k)
        PROVE  Named(b) \/ Exists(runs[b])
    <3>1. worker[k].pc \in {"submit", "polling", "cancel"} => Exists(runs[worker[k].run])
      BY DEF AsyncInv, AsyncCore, InHand, Unstarted
    <3>2. \A o \in orphans' : o \in orphans \/ o.msg = worker[k].msg
      BY <2>0, <2>2, QueuesNamed
    <3> QED
      BY <1>1, <2>0, <2>2, <3>1, <3>2, MessageInHand, QueuesNamed DEF Named
  <2>3. CASE UserStep
    <3>1. UNCHANGED <<stream, worker, orphans, remote>> /\ events' \subseteq events \cup {0}
      BY <2>3 DEF UserStep, cancelJob, retryJob, deleteJobWithAssets, deleteUser, InsertEvent, queues
    <3> QED
      BY <1>1, <2>0, <3>1 DEF Named
  <2>4. CASE Maintenance
    <3>1. CASE dispatchOutbox \/ \E a \in Attempts : deleteDoomedObject(a)
      BY <1>1, <3>1 DEF dispatchOutbox, deleteDoomedObject, Named, queues
    <3>2. CASE \E o \in orphans : claimStalePending(o)
      BY <1>1, <3>2 DEF claimStalePending, Named
    <3>3. CASE handleCancellation \/ \E a \in Attempts : dispatchDueProviderRun(a)
      <4>1. /\ UNCHANGED <<stream, worker, orphans, remote>>
            /\ \A c \in events' : c \in events \/ (c \in Attempts /\ Exists(runs[c]))
        BY <3>3 DEF handleCancellation, dispatchDueProviderRun, InsertEvent, outside, IsLatestLive,
                    IsLatest, Exists, isNonTerminalRunState, NonTerminalStates
      <4> QED
        BY <1>1, <4>1 DEF Named
    <3> QED
      BY <2>4, <3>1, <3>2, <3>3 DEF Maintenance
  <2>5. CASE Time
    BY <1>1, <2>5 DEF Time, ExpireLease, ActionFallsDue, Named, outside, queues
  <2> QED
    BY <2>1, <2>2, <2>3, <2>4, <2>5 DEF Next
<1> QED
  BY <1>1, RunsStay DEF AsyncInv, RunsKnown

-----------------------------------------------------------------------------
(* The theorems *)

LEMMA AsyncInit == LetRun /\ Init => AsyncInv
<1> SUFFICES ASSUME LetRun, Init PROVE AsyncInv
  OBVIOUS
<1>1. Inv
  BY InitInv
<1>2. AsyncCore
  BY DEF Init, AsyncCore, OneClaim, Phases, InHand, Follows, OneRun, BeforeRemote, Claims, Claimable,
         Unstarted, Idle, NoRun, Exists
<1>3. RunsKnown
  BY ConstantsAssumption DEF Init, RunsKnown, Named, Idle, Attempts
<1> QED
  BY <1>1, <1>2, <1>3 DEF AsyncInv

LEMMA AsyncStep == LetRun /\ AsyncInv /\ [Next]_vars => AsyncInv'
BY CoreStep, NamesPass, StepInv DEF AsyncInv

LEMMA AsyncInvariant == LetRun => (Spec => []AsyncInv)
<1> SUFFICES ASSUME LetRun PROVE Spec => []AsyncInv
  OBVIOUS
<1>1. Init => AsyncInv
  BY AsyncInit
<1>2. AsyncInv /\ [Next]_vars => AsyncInv'
  BY AsyncStep
<1> QED
  BY <1>1, <1>2, PTL DEF Spec

\* SingleLiveRun for every number of workers, claims, crashes, redeliveries,
\* failures and expired leases: while the owner does not start the job over,
\* an asynchronous job never has two runs in flight (processJob,
\* pollProviderRun, acquireModelCapacity).
THEOREM OneRunInFlight ==
    ASSUME ~Synchronous, "retry" \notin Allowed
    PROVE  Spec => []SingleLiveRun
<1>1. AsyncInv => SingleLiveRun
  BY DEF AsyncInv, AsyncCore, OneRun, SingleLiveRun, Exists, isNonTerminalRunState, NonTerminalStates
<1>2. Spec => []AsyncInv
  BY AsyncInvariant DEF LetRun
<1> QED
  BY <1>1, <1>2, PTL

\* NoBlindResubmit in the same scope: two submissions the provider may have
\* accepted are never made for one job, whatever fails, dies or is delivered
\* twice (submission_unknown, failRunTerminal, processJob's outer catch).
THEOREM OrderedOnce ==
    ASSUME ~Synchronous, "retry" \notin Allowed
    PROVE  Spec => []NoBlindResubmit
<1>1. AsyncInv => NoBlindResubmit
  BY DEF AsyncInv, AsyncCore, OneRun, RunsKnown, Named, NoBlindResubmit, MaybeAccepted
<1>2. Spec => []AsyncInv
  BY AsyncInvariant DEF LetRun
<1> QED
  BY <1>1, <1>2, PTL
-----------------------------------------------------------------------------
(* What becomes of the result, when leases last. *)

\* What the theorems assume besides LetRun: no lease ends under its holder.
LeasesLast == LetRun /\ "expiry" \notin Allowed

Bound(k) == worker[k].pc \notin Unstarted

\* A worker that did not claim the job works under the lease of its run.
Leases == \A k \in Workers : Bound(k) /\ ~worker[k].claimed => runs[worker[k].run].lease = k

\* A worker that follows the remote task knows the row as it is.
Following ==
    \A k \in Workers : Follows(k) =>
        /\ Live(worker[k].run)
        /\ worker[k].rev = runs[worker[k].run].rev
        /\ job.status \in {"running", "canceled"}

\* A remote task that is not over belongs to a job that is not over, unless
\* the user gave it up.
Wanted == job.status = "running" \/ Over \/ job.cancelReq
LiveRemote == \A a \in Attempts : runs[a].remote /\ Live(a) => Wanted

\* Revisions: a run that nobody wrote is live; a worker that has submitted
\* read the first; a poller that found no remote id read one that was live.
Revisions ==
    /\ \A a \in Attempts : Exists(runs[a]) =>
         runs[a].rev >= 1 /\ (runs[a].rev = 1 => Live(a))
    /\ \A k \in Workers : worker[k].pc \in {"submit", "submit_settle"} => worker[k].rev = 1
    /\ \A k \in Workers : worker[k].pc = "poll_settle" /\ worker[k].res = "no_remote" =>
         /\ worker[k].rev <= runs[worker[k].run].rev
         /\ worker[k].rev = runs[worker[k].run].rev => Live(worker[k].run)

\* Somebody wanted the cancellation that a worker carries out, or the run
\* will never have a remote id.
CancelAsked ==
    \A k \in Workers : worker[k].pc \in {"cancel", "canceling"} =>
        job.cancelReq \/ Over \/ (~Claimable /\ ~runs[worker[k].run].remote)

Rows == Leases /\ Following /\ LiveRemote /\ Revisions /\ CancelAsked

\* Objects and assets follow the status of the job.
Media ==
    /\ doomed # {} => job.deleted
    /\ assets # {} => job.status = "succeeded"
    /\ SucceededHasMedia
    /\ \A k \in Workers : worker[k].pc = "persist" => worker[k].run \in stored \/ job.deleted

ResultInv == AsyncInv /\ Rows /\ Media

-----------------------------------------------------------------------------
(* One worker at a time. *)

\* Nobody follows the remote task while another worker has a run in hand.
LEMMA Alone ==
    ASSUME AsyncInv, Leases, NEW k \in Workers, Bound(k), NEW j \in Workers, Follows(j)
    PROVE  j = k
<1>1. /\ Bound(j) /\ ~worker[j].claimed
      /\ worker[j].run \in Attempts /\ Exists(runs[worker[j].run]) /\ runs[worker[j].run].remote
  BY DEF Follows, Bound, Unstarted, AsyncInv, AsyncCore, Phases, InHand
<1>2. worker[k].run \in Attempts /\ Exists(runs[worker[k].run])
  BY DEF Bound, AsyncInv, AsyncCore, InHand
<1>3. worker[j].run = worker[k].run
  BY <1>1, <1>2 DEF AsyncInv, AsyncCore, OneRun
<1>4. ~Claims(k)
  BY <1>1 DEF Claimable, AsyncInv, AsyncCore, BeforeRemote
<1>5. ~worker[k].claimed
  BY <1>4 DEF Claims, Bound, Unstarted
<1> QED
  BY <1>1, <1>3, <1>5 DEF Leases

\* Only one worker imports, and nobody has ended the job of a worker that
\* imports.
LEMMA OneImports ==
    ASSUME AsyncInv, Leases, Following, NEW k \in Workers, worker[k].pc \in {"import", "persist"}
    PROVE  /\ job.status \in {"running", "canceled"}
           /\ \A j \in Workers : worker[j].pc \in {"import", "persist"} => j = k
           /\ worker[k].run \in Attempts
<1> USE DEF AsyncInv, AsyncCore, OneClaim, Claims, Follows
<1>1. \A j \in Workers : worker[j].pc \in {"import", "persist"} =>
        (Claims(j) \/ Follows(j)) /\ Bound(j)
  BY DEF Bound, Unstarted
<1>2. job.status \in {"running", "canceled"}
  BY <1>1 DEF Following
<1>3. \A j \in Workers : worker[j].pc \in {"import", "persist"} => j = k
  BY <1>1, Alone
<1>4. worker[k].run \in Attempts
  BY <1>1 DEF InHand, Bound
<1> QED
  BY <1>2, <1>3, <1>4

\* What a write by worker k leaves of a row: its lease or none, its number
\* and remote id, a revision that grows when it ends.
Written(row, old, k) ==
    /\ row.lease = old.lease \/ (old.lease = k /\ row.lease = NoWorker)
    /\ Exists(row) <=> Exists(old)
    /\ row.remote <=> old.remote
    /\ row.rev \in Nat /\ row.rev >= old.rev
    /\ isNonTerminalRunState(old) => isNonTerminalRunState(row) \/ row.rev > old.rev

LEMMA Writings ==
    ASSUME NEW row \in RunRow, Exists(row), NEW rev, NEW due \in BOOLEAN, NEW k \in Workers
    PROVE  /\ \A state \in NonTerminalStates :
                /\ Written(Moved(row, rev, state, due), row, k)
                /\ Written(Unleased(Moved(row, rev, state, due), k), row, k)
           /\ \A state \in TerminalStates :
                /\ Written(Ended(row, rev, state), row, k)
                /\ Written(Unleased(Ended(row, rev, state), k), row, k)
           /\ Written(Postponed(row, rev), row, k)
           /\ Written(Unleased(Postponed(row, rev), k), row, k)
           /\ Written(Unleased(row, k), row, k)
<1> USE DEF Exists, isNonTerminalRunState, NonTerminalStates, TerminalStates, Written, RunRow
<1>1. \A state \in NonTerminalStates : Written(Moved(row, rev, state, due), row, k)
  BY DEF Moved
<1>2. \A state \in NonTerminalStates : Written(Unleased(Moved(row, rev, state, due), k), row, k)
  BY DEF Moved, Unleased
<1>3. \A state \in TerminalStates : Written(Ended(row, rev, state), row, k)
  BY DEF Ended
<1>4. \A state \in TerminalStates : Written(Unleased(Ended(row, rev, state), k), row, k)
  BY DEF Ended, Unleased
<1>5. Written(Postponed(row, rev), row, k) /\ Written(Unleased(Postponed(row, rev), k), row, k)
  BY DEF Postponed, Unleased
<1>6. Written(Unleased(row, k), row, k)
  BY DEF Unleased
<1> QED
  BY <1>1, <1>2, <1>3, <1>4, <1>5, <1>6

\* A worker lets go of its run and its message.
LEMMA Leaves ==
    ASSUME AsyncInv, AsyncInv', Rows, NEW k \in Workers, Bound(k), Acknowledge(k),
           NEW row, runs' = [runs EXCEPT ![worker[k].run] = row],
           Written(row, runs[worker[k].run], k),
           job.cancelReq => job'.cancelReq, job.deleted => job'.deleted,
           job'.status \in {job.status, "canceled", "running", "failed", "succeeded"},
           row.remote /\ isNonTerminalRunState(row) => Wanted',
           job.status = "canceled" =>
                job'.status = "canceled" \/ (~Claimable' /\ ~row.remote)
    PROVE  Rows'
<1> DEFINE a == worker[k].run
<1>0. /\ a \in Attempts /\ Exists(runs[a])
      /\ runs \in [Attempts -> RunRow] /\ worker \in [Workers -> Worker]
  BY Shapes DEF Bound, AsyncInv, AsyncCore, InHand
<1>1. /\ worker'[k] = Idle
      /\ \A j \in Workers : j # k => worker'[j] = worker[j]
      /\ runs'[a] = row
      /\ \A b \in Attempts : b # a => runs'[b] = runs[b] /\ ~Exists(runs[b])
  BY <1>0 DEF Acknowledge, AsyncInv, AsyncCore, OneRun
<1>2. \A j \in Workers : ~Follows(j)'
  BY <1>1, Alone DEF Follows, Idle, Rows
<1>3. Following'
  BY <1>2 DEF Following
<1>4. \A j \in Workers : Bound(j)' => Bound(j) /\ worker[j].run = a /\ j # k
  BY <1>0, <1>1 DEF Bound, Unstarted, Idle, AsyncInv, AsyncCore, InHand, OneRun
<1>5. Leases'
  BY <1>0, <1>1, <1>4 DEF Leases, Rows, Written, Bound
<1>6. \A b \in Attempts : Exists(runs[b])' => b = a
  BY <1>0, <1>1
<1>7. LiveRemote'
  BY <1>1, <1>6 DEF LiveRemote, Live, Exists, isNonTerminalRunState, NonTerminalStates
<1>8. Revisions'
  <2>1. \A b \in Attempts : Exists(runs[b])' =>
          runs'[b].rev >= 1 /\ (runs'[b].rev = 1 => isNonTerminalRunState(runs'[b]))
    BY <1>0, <1>1, <1>6 DEF Rows, Revisions, Written, Live, RunRow
  <2>2. \A j \in Workers : worker'[j].pc \in {"submit", "submit_settle"} => worker'[j].rev = 1
    BY <1>1 DEF Idle, Rows, Revisions
  <2>3. ASSUME NEW j \in Workers, worker'[j].pc = "poll_settle", worker'[j].res = "no_remote"
        PROVE  /\ worker'[j].rev <= runs'[worker'[j].run].rev
               /\ worker'[j].rev = runs'[worker'[j].run].rev
                    => isNonTerminalRunState(runs'[worker'[j].run])
    <3>1. j # k /\ worker'[j] = worker[j] /\ worker[j].run = a /\ worker[j].rev \in Nat
      BY <1>0, <1>1, <1>4, <2>3 DEF Idle, Bound, Unstarted, Worker
    <3> QED
      BY <1>0, <1>1, <2>3, <3>1, SMTT(30) DEF Rows, Revisions, Written, Live, RunRow
  <2> QED
    BY <2>1, <2>2, <2>3 DEF Revisions, Live
<1>9. CancelAsked'
  <2>1. ASSUME NEW j \in Workers, worker'[j].pc \in {"cancel", "canceling"}
        PROVE  job'.cancelReq \/ Over' \/ (~Claimable' /\ ~runs'[worker'[j].run].remote)
    <3>1. j # k /\ worker'[j] = worker[j] /\ worker[j].run = a
      BY <1>1, <1>4, <2>1 DEF Idle, Bound, Unstarted
    <3>2. ~Claimable => ~Claimable'
      BY <1>1 DEF Claimable, Claims, Idle
    <3> QED
      BY <1>1, <2>1, <3>1, <3>2 DEF Rows, CancelAsked, Over, Written
  <2> QED
    BY <2>1 DEF CancelAsked
<1> QED
  BY <1>3, <1>5, <1>7, <1>8, <1>9 DEF Rows

\* A worker goes on with its run.
LEMMA GoesOn ==
    ASSUME AsyncInv, AsyncInv', Rows, NEW k \in Workers, Bound(k), UNCHANGED job,
           NEW w, worker' = [worker EXCEPT ![k] = w],
           w.run = worker[k].run, w.claimed <=> worker[k].claimed, w.pc \notin Unstarted,
           NEW row, runs' = [runs EXCEPT ![worker[k].run] = row],
           Written(row, runs[worker[k].run], k), row.lease = runs[worker[k].run].lease,
           row.remote /\ isNonTerminalRunState(row) => Wanted,
           Follows(k)' => /\ isNonTerminalRunState(row) /\ w.rev = row.rev
                          /\ job.status \in {"running", "canceled"},
           w.pc = "submit_settle" => worker[k].pc = "submit" /\ w.rev = worker[k].rev,
           w.pc = "canceling" => worker[k].pc = "cancel",
           w.pc \notin {"submit", "cancel"}, ~(w.pc = "poll_settle" /\ w.res = "no_remote")
    PROVE  Rows'
<1> DEFINE a == worker[k].run
<1>0. /\ a \in Attempts /\ Exists(runs[a])
      /\ runs \in [Attempts -> RunRow] /\ worker \in [Workers -> Worker]
  BY Shapes DEF Bound, AsyncInv, AsyncCore, InHand
<1>1. /\ worker'[k] = w
      /\ \A j \in Workers : j # k => worker'[j] = worker[j]
      /\ runs'[a] = row
      /\ \A b \in Attempts : b # a => runs'[b] = runs[b] /\ ~Exists(runs[b])
  BY <1>0 DEF AsyncInv, AsyncCore, OneRun
<1>2. \A j \in Workers : Follows(j)' => j = k
  BY <1>1, Alone DEF Follows, Rows
<1>3. Following'
  BY <1>1, <1>2 DEF Following, Live
<1>4. \A j \in Workers : Bound(j)' => Bound(j) /\ worker[j].run = a
  BY <1>0, <1>1 DEF Bound, AsyncInv, AsyncCore, InHand, OneRun
<1>5. Leases'
  BY <1>0, <1>1, <1>4 DEF Leases, Rows, Written, Bound
<1>6. \A b \in Attempts : Exists(runs[b])' => b = a
  BY <1>0, <1>1
<1>7. LiveRemote'
  BY <1>1, <1>6 DEF LiveRemote, Live, Exists, isNonTerminalRunState, NonTerminalStates, Wanted, Over
<1>8. Revisions'
  <2>1. \A b \in Attempts : Exists(runs[b])' =>
          runs'[b].rev >= 1 /\ (runs'[b].rev = 1 => isNonTerminalRunState(runs'[b]))
    BY <1>0, <1>1, <1>6 DEF Rows, Revisions, Written, Live, RunRow
  <2>2. \A j \in Workers : worker'[j].pc \in {"submit", "submit_settle"} => worker'[j].rev = 1
    BY <1>1 DEF Rows, Revisions
  <2>3. ASSUME NEW j \in Workers, worker'[j].pc = "poll_settle", worker'[j].res = "no_remote"
        PROVE  /\ worker'[j].rev <= runs'[worker'[j].run].rev
               /\ worker'[j].rev = runs'[worker'[j].run].rev
                    => isNonTerminalRunState(runs'[worker'[j].run])
    <3>1. j # k /\ worker'[j] = worker[j] /\ worker[j].run = a /\ worker[j].rev \in Nat
      BY <1>0, <1>1, <1>4, <2>3 DEF Bound, Unstarted, Worker
    <3>2. /\ worker[j].rev <= runs[a].rev
          /\ worker[j].rev = runs[a].rev => isNonTerminalRunState(runs[a])
          /\ runs[a].rev \in Nat
      BY <1>0, <2>3, <3>1 DEF Rows, Revisions, Live, RunRow
    <3> QED
      BY <1>1, <3>1, <3>2 DEF Written
  <2> QED
    BY <2>1, <2>2, <2>3 DEF Revisions, Live
<1>9. CancelAsked'
  <2>1. ASSUME NEW j \in Workers, worker'[j].pc \in {"cancel", "canceling"}
        PROVE  job.cancelReq \/ Over \/ (~Claimable' /\ ~runs'[worker'[j].run].remote)
    <3>1. worker'[j].run = a /\ worker[j].run = a /\ worker[j].pc \in {"cancel", "canceling"}
      BY <1>1, <1>4, <2>1 DEF Bound, Unstarted
    <3>2. ~Claimable => ~Claimable'
      BY <1>0, <1>1 DEF Claimable, Claims, Bound, Unstarted
    <3> QED
      BY <1>1, <2>1, <3>1, <3>2 DEF Rows, CancelAsked, Over, Written
  <2> QED
    BY <2>1 DEF CancelAsked, Over
<1> QED
  BY <1>3, <1>5, <1>7, <1>8, <1>9 DEF Rows

\* Nothing of a row that matters here but its lease, given back by k.
SameFor(row, old, k) ==
    /\ row.lease = old.lease \/ (old.lease = k /\ row.lease = NoWorker)
    /\ row.rev = old.rev /\ (row.remote <=> old.remote)
    /\ Exists(row) <=> Exists(old)
    /\ isNonTerminalRunState(row) <=> isNonTerminalRunState(old)

\* A step that binds nobody to a run.
LEMMA Quiet ==
    ASSUME AsyncInv, AsyncInv', Rows, NEW k,
           \A j \in Workers :
              \/ j # k /\ worker'[j] = worker[j]
              \/ ~Bound(j)' /\ (Claims(j)' => Claimable),
           \A b \in Attempts : SameFor(runs'[b], runs[b], k),
           job.cancelReq => job'.cancelReq, job.deleted => job'.deleted,
           job.status = "canceled" => job'.status = "canceled",
           job'.status \in {job.status, "canceled"} \/ Claimable
    PROVE  Rows'
<1>0. /\ runs \in [Attempts -> RunRow] /\ worker \in [Workers -> Worker]
      /\ \A j \in Workers : Bound(j) => worker[j].run \in Attempts /\ Exists(runs[worker[j].run])
  BY Shapes DEF Bound, AsyncInv, AsyncCore, InHand
<1>1. \A j \in Workers : Bound(j)' => Bound(j) /\ j # k /\ worker'[j] = worker[j]
  BY DEF Bound
<1>2. \A j \in Workers : Follows(j)' => Bound(j)' /\ Follows(j)
  <2>1. \A j \in Workers : Follows(j)' => Bound(j)'
    BY DEF Follows, Bound, Unstarted
  <2> QED
    BY <1>1, <2>1 DEF Follows
<1>3. Leases'
  BY <1>0, <1>1 DEF Leases, Rows, SameFor, Bound
<1>4. \A j \in Workers : Follows(j) => ~Claimable
  BY DEF Follows, Bound, Unstarted, AsyncInv, AsyncCore, InHand, BeforeRemote
<1>5. Following'
  BY <1>0, <1>1, <1>2, <1>4 DEF Following, Rows, SameFor, Live
<1>6. LiveRemote'
  <2>1. Claimable => \A b \in Attempts : Exists(runs[b]) => ~runs[b].remote
    BY DEF AsyncInv, AsyncCore, BeforeRemote
  <2> QED
    BY <2>1 DEF LiveRemote, Rows, SameFor, Live, Wanted, Over, Exists, isNonTerminalRunState,
                NonTerminalStates
<1>7. Revisions'
  BY <1>0, <1>1 DEF Revisions, Rows, SameFor, Live, Bound, Unstarted
<1>8. CancelAsked'
  <2>1. ASSUME NEW j \in Workers, worker'[j].pc \in {"cancel", "canceling"}
        PROVE  job'.cancelReq \/ Over' \/ (~Claimable' /\ ~runs'[worker'[j].run].remote)
    <3>1. Bound(j) /\ worker'[j] = worker[j]
      BY <1>1, <2>1 DEF Bound, Unstarted
    <3>2. ~Claimable => ~Claimable'
      BY DEF Claimable, Claims
    <3> QED
      BY <1>0, <2>1, <3>1, <3>2 DEF Rows, CancelAsked, Over, SameFor
  <2> QED
    BY <2>1 DEF CancelAsked
<1> QED
  BY <1>3, <1>5, <1>6, <1>7, <1>8 DEF Rows

\* A run that is polled or canceled under its lease.
LEMMA TakesLease ==
    ASSUME AsyncInv, AsyncInv', LetRun, Rows, UNCHANGED job, NEW k \in Workers, ~Bound(k),
           NEW a \in Attempts, NEW msg, NEW claimed \in BOOLEAN, PollFrom(k, a, msg, claimed),
           claimed => Claims(k)
    PROVE  Rows'
<1>0. /\ runs \in [Attempts -> RunRow] /\ worker \in [Workers -> Worker] /\ Inv
  BY Shapes DEF AsyncInv
<1>1. Begun(k, a, msg, claimed)
  BY <1>0, PollFromWorker DEF LetRun
<1>2. CASE worker'[k] = Idle
  <2>1. UNCHANGED runs
    BY <1>0, <1>2 DEF PollFrom, Acknowledge
  <2>2. \A j \in Workers : \/ j # k /\ worker'[j] = worker[j]
                           \/ ~Bound(j)' /\ (Claims(j)' => Claimable)
    BY <1>1, <1>2 DEF Begun, Bound, Unstarted, Idle, Claims
  <2>3. \A b \in Attempts : SameFor(runs'[b], runs[b], k)
    BY <2>1 DEF SameFor
  <2> QED
    BY <2>2, <2>3, Quiet
<1>3. CASE worker'[k] # Idle
  <2>1. runs[a].lease = NoWorker /\ runs' = [runs EXCEPT ![a] = Leased(runs[a], k)]
    BY <1>0, <1>3 DEF PollFrom, Acknowledge
  <2>2. /\ \A b \in Attempts : b # a => runs'[b] = runs[b]
        /\ runs'[a].lease = k /\ runs'[a].rev = runs[a].rev
        /\ runs'[a].remote = runs[a].remote /\ runs'[a].state = runs[a].state
    BY <1>0, <2>1 DEF Leased, RunRow
  <2>3. /\ \A j \in Workers : j # k => worker'[j] = worker[j]
        /\ worker'[k].run = a /\ worker'[k].rev = runs[a].rev
        /\ (worker'[k].claimed <=> claimed)
        /\ \/ worker'[k].pc = "poll_settle" /\ worker'[k].res = "job_deleted"
           \/ worker'[k].pc = "cancel" /\ (job.status = "canceled" \/ job.cancelReq)
           \/ /\ ~Over /\ ~job.cancelReq /\ Live(a)
              /\ \/ worker'[k].pc = "poll_settle" /\ worker'[k].res = "no_remote"
                 \/ worker'[k].pc = "polling" /\ runs[a].remote
    BY <1>1, <1>3 DEF Begun, Over
  <2>4. \A j \in Workers : j # k /\ Bound(j) /\ ~worker[j].claimed => worker[j].run # a
    BY <2>1, NoWorkerAssumption DEF Rows, Leases
  <2>5. \A j \in Workers : Bound(j) => worker[j].run \in Attempts
    BY DEF Bound, AsyncInv, AsyncCore, InHand
  <2>6. Leases'
    BY <2>2, <2>3, <2>4, <2>5 DEF Rows, Leases, Bound
  <2>7. Following'
    <3>1. \A j \in Workers : Follows(j) => Bound(j)
      BY DEF Follows, Bound, Unstarted
    <3>2. worker'[k].pc = "polling" => job.status = "running"
      BY <2>3 DEF Rows, LiveRemote, Wanted
    <3> QED
      BY <2>2, <2>3, <2>5, <3>1, <3>2 DEF Rows, Following, Follows, Live, isNonTerminalRunState
  <2>8. LiveRemote'
    BY <2>2 DEF Rows, LiveRemote, Live, isNonTerminalRunState, Wanted, Over
  <2>9. Revisions'
    <3>1. worker'[k].pc \notin {"submit", "submit_settle"}
      BY <2>3
    <3>2. runs[a].rev \in Nat
      BY <1>0 DEF RunRow
    <3> QED
      BY <2>2, <2>3, <2>5, <3>1, <3>2 DEF Rows, Revisions, Live, isNonTerminalRunState, Exists, Bound, Unstarted
  <2>10. CancelAsked'
    <3>1. ~Claimable => ~Claimable'
      BY <2>3 DEF Claimable, Claims
    <3> QED
      BY <2>2, <2>3, <2>5, <3>1 DEF Rows, CancelAsked, Over, Bound, Unstarted
  <2> QED
    BY <2>6, <2>7, <2>8, <2>9, <2>10 DEF Rows
<1> QED
  BY <1>2, <1>3

LEMMA RowsClaimSteps ==
    ASSUME LetRun, AsyncInv, AsyncInv', Rows, NEW k \in Workers,
           \/ ClaimJob(k) \/ CancelAtClaim(k) \/ IgnoreClaim(k) \/ PollMessage(k)
           \/ CancelClaimed(k) \/ ContinueClaimed(k) \/ PreprocessFails(k)
    PROVE  Rows'
<1>0. /\ runs \in [Attempts -> RunRow] /\ worker \in [Workers -> Worker] /\ job \in Job
  BY Shapes DEF AsyncInv
<1>1. UNCHANGED runs => \A b \in Attempts : SameFor(runs'[b], runs[b], k)
  BY DEF SameFor
<1>2. CASE ClaimJob(k) \/ CancelAtClaim(k)
  <2>1. /\ job.status \in {"queued", "retry_wait"} /\ UNCHANGED runs
        /\ \/ UNCHANGED worker /\ worker[k].pc = "idle"
           \/ worker' = [worker EXCEPT ![k] = [Idle EXCEPT !.pc = "preprocess", !.claimed = TRUE]]
        /\ \/ job' = [job EXCEPT !.status = "running", !.attempt = @ + 1]
           \/ job' = [job EXCEPT !.status = "canceled"]
    BY <1>2 DEF ClaimJob, CancelAtClaim, decideJobClaim, Takes
  <2>2. /\ (job.cancelReq => job'.cancelReq) /\ (job.deleted => job'.deleted)
        /\ Claimable
    BY <1>0, <2>1 DEF Job, Claimable
  <2>3. \A j \in Workers : \/ j # k /\ worker'[j] = worker[j]
                           \/ ~Bound(j)' /\ (Claims(j)' => Claimable)
    BY <1>0, <2>1, <2>2 DEF Bound, Unstarted, Idle
  <2> QED
    BY <1>1, <2>1, <2>2, <2>3, Quiet
<1>3. CASE IgnoreClaim(k) \/ PollMessage(k)
  <2>1. /\ worker[k].pc = "idle" /\ UNCHANGED job
        /\ \/ UNCHANGED <<runs, worker>>
           \/ \E a \in Attempts : \E msg : PollFrom(k, a, msg, FALSE)
    BY <1>3 DEF IgnoreClaim, PollMessage, Takes
  <2>2. CASE UNCHANGED <<runs, worker>>
    BY <1>1, <2>1, <2>2, Quiet DEF Bound, Unstarted, Claims
  <2>3. CASE \E a \in Attempts : \E msg : PollFrom(k, a, msg, FALSE)
    BY <2>1, <2>3, TakesLease DEF Bound, Unstarted
  <2> QED
    BY <2>1, <2>2, <2>3
<1>4. CASE CancelClaimed(k)
  <2>1. /\ worker[k].pc = "preprocess" /\ Claims(k) /\ UNCHANGED runs
        /\ job.deleted \/ job.status = "canceled" \/ job.cancelReq
    BY <1>4 DEF CancelClaimed, decideClaimedJob, Claims, AsyncInv, AsyncCore, Phases
  <2>2. CASE /\ Acknowledge(k)
             /\ \/ job.deleted /\ UNCHANGED job
                \/ job' = [job EXCEPT !.status = "canceled"]
    <3>1. worker' = [worker EXCEPT ![k] = Idle]
      BY <2>2 DEF Acknowledge
    <3>2. /\ (job.cancelReq => job'.cancelReq) /\ (job.deleted => job'.deleted)
          /\ job'.status \in {job.status, "canceled"}
      BY <1>0, <2>2 DEF Job
    <3>3. \A j \in Workers : \/ j # k /\ worker'[j] = worker[j]
                             \/ ~Bound(j)' /\ (Claims(j)' => Claimable)
      BY <1>0, <3>1 DEF Bound, Unstarted, Idle, Claims
    <3> QED
      BY <1>1, <2>1, <3>2, <3>3, Quiet
  <2>3. CASE UNCHANGED job /\ \E a \in Attempts :
               worker' = [worker EXCEPT ![k].pc = "cancel", ![k].run = a, ![k].rev = runs[a].rev]
    <3>1. /\ \A j \in Workers : j # k => worker'[j] = worker[j]
          /\ worker'[k].pc = "cancel" /\ worker'[k].claimed
      BY <1>0, <2>1, <2>3 DEF Worker, AsyncInv, AsyncCore, Phases
    <3>2. \A j \in Workers : Follows(j)' => j # k /\ Follows(j)
      BY <3>1 DEF Follows
    <3>3. Leases' /\ Following' /\ LiveRemote'
      BY <2>1, <2>3, <3>1, <3>2, ZenonT(60) DEF Rows, Leases, Following, LiveRemote, Bound, Live, Wanted, Over
    <3>4. Revisions'
      BY <2>1, <2>3, <3>1 DEF Rows, Revisions, Live
    <3>5. CancelAsked'
      BY <2>1, <2>3, <3>1 DEF Rows, CancelAsked, Over, Claimable
    <3> QED
      BY <3>3, <3>4, <3>5 DEF Rows
  <2> QED
    BY <1>4, <2>2, <2>3 DEF CancelClaimed
<1>5. CASE ContinueClaimed(k)
  <2>1. worker[k].pc = "preprocess" /\ Claims(k) /\ UNCHANGED job
    BY <1>5 DEF ContinueClaimed, Claims, AsyncInv, AsyncCore, Phases
  <2>2. CASE \E a \in Attempts : PollFrom(k, a, 0, TRUE)
    BY <2>1, <2>2, TakesLease DEF Bound, Unstarted
  <2>3. CASE UNCHANGED runs /\ \E run : worker' = [worker EXCEPT ![k].pc = "acquire", ![k].run = run]
    <3>1. worker'[k].pc = "acquire" /\ \A j \in Workers : j # k => worker'[j] = worker[j]
      BY <1>0, <2>3 DEF Worker
    <3> QED
      BY <1>1, <2>1, <2>3, <3>1, Quiet DEF Bound, Unstarted, Claims, Claimable
  <2> QED
    BY <1>5, <2>2, <2>3 DEF ContinueClaimed
<1>6. CASE PreprocessFails(k)
  <2>1. worker[k].pc = "preprocess" /\ Claims(k) /\ UNCHANGED <<job, runs>>
    BY <1>6 DEF PreprocessFails, Claims, AsyncInv, AsyncCore, Phases
  <2>2. worker'[k].pc = "catch" /\ \A j \in Workers : j # k => worker'[j] = worker[j]
    BY <1>0, <1>6 DEF PreprocessFails, Worker
  <2> QED
    BY <1>1, <2>1, <2>2, Quiet DEF Bound, Unstarted, Claims, Claimable
<1> QED
  BY <1>2, <1>3, <1>4, <1>5, <1>6

\* A run failed at the revision the worker has in hand.
LEMMA RowsFailRun ==
    ASSUME AsyncInv, AsyncInv', Rows, NEW k \in Workers, Bound(k), NEW rev, failRunTerminal(k, rev),
           Claims(k) \/ (Follows(k) /\ rev = runs[worker[k].run].rev)
    PROVE  Rows'
<1> DEFINE a == worker[k].run
           row == Unleased(Ended(runs[a], rev, "failed"), k)
<1>1. a \in Attempts /\ Exists(runs[a]) /\ runs[a] \in RunRow /\ job \in Job
  BY Shapes DEF Bound, AsyncInv, AsyncCore, InHand
<1>2. Written(row, runs[a], k)
  BY <1>1, Writings DEF TerminalStates
<1>3. runs' = [runs EXCEPT ![a] = row] /\ Acknowledge(k)
  BY DEF failRunTerminal
<1>4. /\ job'.cancelReq = job.cancelReq /\ job'.deleted = job.deleted
      /\ job'.status \in {job.status, "failed"}
      /\ job.status = "canceled" => job'.status = "canceled"
  BY <1>1 DEF failRunTerminal, persistJobFailure, Job
<1>5. row.remote => ~isNonTerminalRunState(row)
  <2>1. CASE Claims(k)
    <3>1. ~runs[a].remote
      BY <1>1, <2>1 DEF Claimable, AsyncInv, AsyncCore, BeforeRemote
    <3> QED
      BY <1>2, <3>1 DEF Written
  <2>2. CASE rev = runs[a].rev
    <3>1. Ended(runs[a], rev, "failed") = [runs[a] EXCEPT !.rev = @ + 1, !.state = "failed", !.reserved = FALSE]
      BY <2>2 DEF Ended
    <3>2. Ended(runs[a], rev, "failed").state = "failed"
      BY <1>1, <3>1 DEF RunRow
    <3>3. row.state = "failed"
      BY <1>1, <3>1, <3>2 DEF Unleased, RunRow
    <3> QED
      BY <3>3 DEF isNonTerminalRunState, NonTerminalStates
  <2> QED
    BY <2>1, <2>2
<1> HIDE DEF row
<1> QED
  BY <1>2, <1>3, <1>4, <1>5, Leaves

\* A run canceled at the revision it has.
LEMMA RowsCancelRun ==
    ASSUME AsyncInv, AsyncInv', Rows, NEW k \in Workers, Bound(k), cancelJobWithRun(k)
    PROVE  Rows'
<1> DEFINE a == worker[k].run
           row == Unleased(Ended(runs[a], runs[a].rev, "canceled"), k)
<1>1. a \in Attempts /\ Exists(runs[a]) /\ runs[a] \in RunRow /\ job \in Job
  BY Shapes DEF Bound, AsyncInv, AsyncCore, InHand
<1>2. Written(row, runs[a], k)
  BY <1>1, Writings DEF TerminalStates
<1>3. runs' = [runs EXCEPT ![a] = row] /\ Acknowledge(k)
  BY DEF cancelJobWithRun
<1>4. /\ job'.cancelReq = job.cancelReq /\ job'.deleted = job.deleted
      /\ job'.status \in {job.status, "canceled"}
  BY <1>1 DEF cancelJobWithRun, CanceledIfActive, Job
<1>5. ~isNonTerminalRunState(row)
  <2>1. row.state = "canceled"
    BY <1>1 DEF Ended, Unleased, RunRow
  <2> QED
    BY <2>1 DEF isNonTerminalRunState, NonTerminalStates
<1> HIDE DEF row
<1> QED
  BY <1>2, <1>3, <1>4, <1>5, Leaves

LEMMA RowsSubmitSteps ==
    ASSUME LetRun, AsyncInv, AsyncInv', Rows, NEW k \in Workers,
           \/ AcquireCapacity(k) \/ DenyCapacity(k) \/ Requeue(k)
           \/ ModelNotFound(k) \/ InputsFail(k) \/ Submit(k) \/ Crash(k)
    PROVE  Rows'
<1>0. /\ runs \in [Attempts -> RunRow] /\ worker \in [Workers -> Worker] /\ job \in Job
  BY Shapes DEF AsyncInv
<1>1. UNCHANGED runs => \A b \in Attempts : SameFor(runs'[b], runs[b], k)
  BY DEF SameFor
<1>2. CASE AcquireCapacity(k)
  <2> DEFINE a == worker[k].run
  <2>1. a \in Attempts /\ worker[k].pc = "acquire" /\ \A b \in Attempts : ~Exists(runs[b])
    BY <1>2, Shapes DEF AcquireCapacity, Unbound, AsyncInv, AsyncCore, InHand
  <2>2. /\ runs' = [runs EXCEPT ![a] = NewRun]
        /\ worker' = [worker EXCEPT ![k].pc = "submit", ![k].rev = NewRun.rev]
        /\ UNCHANGED job
    BY <1>2, <2>1 DEF AcquireCapacity, createProviderRun
  <2>3. /\ worker'[k].pc = "submit" /\ worker'[k].rev = 1 /\ worker'[k].claimed
        /\ \A j \in Workers : j # k => worker'[j] = worker[j] /\ ~Bound(j)
    BY <1>0, <2>1, <2>2 DEF Worker, NewRun, Bound, AsyncInv, AsyncCore, InHand, Phases
  <2>4. \A b \in Attempts : /\ ~runs'[b].remote \/ ~Exists(runs'[b])
                            /\ Exists(runs'[b]) => runs'[b] = NewRun
    BY <1>0, <2>1, <2>2 DEF NewRun
  <2>5. Leases' /\ Following'
    BY <2>3 DEF Leases, Following, Follows, Bound, Unstarted
  <2>6. LiveRemote'
    BY <2>4 DEF LiveRemote, Live, Exists, isNonTerminalRunState, NonTerminalStates
  <2>7. Revisions'
    BY <2>3, <2>4 DEF Revisions, Live, NewRun, isNonTerminalRunState, NonTerminalStates, Bound, Unstarted
  <2>8. CancelAsked'
    BY <2>3 DEF CancelAsked, Bound, Unstarted
  <2> QED
    BY <2>5, <2>6, <2>7, <2>8 DEF Rows
<1>3. CASE DenyCapacity(k) \/ InputsFail(k)
  <2>1. /\ worker[k].pc \in {"acquire", "submit"} /\ Claims(k) /\ UNCHANGED runs
        /\ job' = job \/ (job.status = "running" /\ job' = [job EXCEPT !.status = "queued"])
    BY <1>3 DEF DenyCapacity, InputsFail, Claims, AsyncInv, AsyncCore, Phases
  <2>2. worker'[k].pc \in {"requeue", "catch"} /\ \A j \in Workers : j # k => worker'[j] = worker[j]
    BY <1>0, <1>3 DEF DenyCapacity, InputsFail, Goto, Worker
  <2>3. /\ (job.cancelReq => job'.cancelReq) /\ (job.deleted => job'.deleted)
        /\ job.status = "canceled" => job'.status = "canceled"
    BY <1>0, <2>1 DEF Job
  <2> QED
    BY <1>1, <2>1, <2>2, <2>3, Quiet DEF Bound, Unstarted, Claims, Claimable
<1>4. CASE Requeue(k) \/ ModelNotFound(k) \/ Crash(k)
  <2>1. /\ UNCHANGED runs /\ worker' = [worker EXCEPT ![k] = Idle]
        /\ \/ job' = job
           \/ job.status = "running" /\ Claims(k) /\ job' = [job EXCEPT !.status = "failed"]
    BY <1>4 DEF Requeue, ModelNotFound, Crash, Acknowledge, persistJobFailure, Claims, outside, AsyncInv,
                AsyncCore, Phases
  <2>2. /\ (job.cancelReq => job'.cancelReq) /\ (job.deleted => job'.deleted)
        /\ job.status = "canceled" => job'.status = "canceled"
        /\ job'.status \in {job.status, "canceled"} \/ Claimable
    BY <1>0, <2>1 DEF Job, Claimable
  <2>3. \A j \in Workers : \/ j # k /\ worker'[j] = worker[j]
                           \/ ~Bound(j)' /\ (Claims(j)' => Claimable)
    BY <1>0, <2>1 DEF Bound, Unstarted, Idle, Claims
  <2> QED
    BY <1>1, <2>1, <2>2, <2>3, Quiet
<1>5. CASE Submit(k)
  <2>1. /\ worker[k].pc = "submit" /\ UNCHANGED <<job, runs>>
        /\ \E res, id :
             worker' = [worker EXCEPT ![k].pc = "submit_settle", ![k].res = res, ![k].remote = id]
    BY <1>5 DEF Submit
  <2>2. /\ \A j \in Workers : j # k => worker'[j] = worker[j]
        /\ worker'[k].pc = "submit_settle" /\ worker'[k].rev = worker[k].rev
        /\ worker'[k].claimed /\ worker'[k].run = worker[k].run
    BY <1>0, <2>1 DEF Worker, AsyncInv, AsyncCore, Phases
  <2>3. \A j \in Workers : Follows(j)' => Follows(j) /\ j # k
    BY <2>2 DEF Follows
  <2>4. Leases' /\ Following' /\ LiveRemote'
    BY <2>1, <2>2, <2>3, ZenonT(60) DEF Rows, Leases, Following, LiveRemote, Bound, Live, Wanted, Over
  <2>5. Revisions'
    BY <2>1, <2>2, ZenonT(60) DEF Rows, Revisions, Live
  <2>6. Claimable
    BY <2>1 DEF Claimable, Claims, AsyncInv, AsyncCore, Phases
  <2>7. CancelAsked'
    BY <2>1, <2>2, <2>6 DEF Rows, CancelAsked, Over
  <2> QED
    BY <2>4, <2>5, <2>7 DEF Rows
<1> QED
  BY <1>2, <1>3, <1>4, <1>5

LEMMA RowsSettleSteps ==
    ASSUME LetRun, AsyncInv, AsyncInv', Rows, NEW k \in Workers,
           \/ retrySyncSubmit(k) \/ RetryConflict(k) \/ SubmitFailed(k)
           \/ SubmitUnclear(k) \/ SubmitStored(k) \/ ResultFailed(k)
           \/ ResultCanceled(k) \/ CountMismatch(k) \/ FinishCancel(k) \/ PollFailed(k)
    PROVE  Rows'
<1> DEFINE a == worker[k].run
<1>0. /\ runs \in [Attempts -> RunRow] /\ worker \in [Workers -> Worker] /\ job \in Job
      /\ Bound(k) => a \in Attempts /\ Exists(runs[a]) /\ runs[a] \in RunRow
  BY Shapes DEF Bound, AsyncInv, AsyncCore, InHand
<1>1. CASE retrySyncSubmit(k) \/ RetryConflict(k)
  BY <1>1 DEF retrySyncSubmit, RetryConflict, MayRetrySubmit, LetRun
<1>2. CASE SubmitFailed(k)
  <2>1. Bound(k) /\ Claims(k) /\ failRunTerminal(k, worker[k].rev)
    BY <1>2 DEF SubmitFailed, Settling, Bound, Unstarted, Claims, AsyncInv, AsyncCore, Phases
  <2> QED
    BY <2>1, RowsFailRun
<1>3. CASE SubmitUnclear(k)
  <2> DEFINE row == Moved(runs[a], worker[k].rev, "submission_unknown", FALSE)
  <2>1. /\ Bound(k) /\ Claims(k) /\ Acknowledge(k)
        /\ runs' = [runs EXCEPT ![a] = row]
        /\ job' = [job EXCEPT !.status = "running"]
    BY <1>3 DEF SubmitUnclear, Settling, Bound, Unstarted, Claims, AsyncInv, AsyncCore, Phases
  <2>2. Written(row, runs[a], k) /\ ~row.remote
    <3>1. Written(row, runs[a], k)
      BY <1>0, <2>1, Writings DEF NonTerminalStates
    <3>2. ~runs[a].remote
      BY <1>0, <2>1 DEF Claimable, AsyncInv, AsyncCore, BeforeRemote
    <3> QED
      BY <3>1, <3>2 DEF Written
  <2>3. job'.cancelReq = job.cancelReq /\ job'.deleted = job.deleted /\ job'.status = "running"
    BY <1>0, <2>1 DEF Job
  <2>4. ~Claimable'
    BY <1>0, <2>1, <2>3 DEF Claimable, Claims, Acknowledge, Idle, AsyncInv, AsyncCore, OneClaim
  <2> HIDE DEF row
  <2> QED
    BY <2>1, <2>2, <2>3, <2>4, Leaves
<1>4. CASE SubmitStored(k)
  <2>1. /\ worker[k].pc = "submit_settle" /\ Acknowledge(k) /\ UNCHANGED job /\ Claims(k)
        /\ \E state \in NonTerminalStates :
             runs' = [runs EXCEPT ![a] = Stored(runs[a], worker[k].rev, state, worker[k].remote)]
    BY <1>4 DEF SubmitStored, Settling, NonTerminalStates, Claims, AsyncInv, AsyncCore, Phases
  <2>2. a \in Attempts /\ Exists(runs[a]) /\ runs[a] \in RunRow /\ worker[k].rev \in Nat
    BY <1>0, <2>1 DEF Bound, Unstarted, Worker
  <2>3. PICK row :
           /\ runs' = [runs EXCEPT ![a] = row]
           /\ row.lease = runs[a].lease /\ Exists(row)
           /\ row.rev \in Nat /\ row.rev >= runs[a].rev
           /\ isNonTerminalRunState(row) \/ (~Live(a) /\ row.rev = runs[a].rev)
    <3>1. PICK state \in NonTerminalStates :
            runs' = [runs EXCEPT ![a] = Stored(runs[a], worker[k].rev, state, worker[k].remote)]
      BY <2>1
    <3> DEFINE row == Stored(runs[a], worker[k].rev, state, worker[k].remote)
    <3>2. /\ row.lease = runs[a].lease /\ Exists(row)
          /\ row.rev \in Nat /\ row.rev >= runs[a].rev
          /\ isNonTerminalRunState(row) \/ (~Live(a) /\ row.rev = runs[a].rev)
      BY <2>2 DEF Stored, Exists, isNonTerminalRunState, NonTerminalStates, RunRow, Live
    <3> HIDE DEF row
    <3> QED
      BY <3>1, <3>2 DEF row
  <2>4. /\ worker'[k] = Idle
        /\ \A j \in Workers : j # k => worker'[j] = worker[j]
        /\ runs'[a] = row
        /\ \A b \in Attempts : b # a => runs'[b] = runs[b] /\ ~Exists(runs[b])
    BY <1>0, <2>1, <2>2, <2>3 DEF Acknowledge, AsyncInv, AsyncCore, OneRun
  <2>5. \A j \in Workers : ~Follows(j)'
    BY <2>1, <2>4, Alone DEF Follows, Idle, Rows, Bound, Unstarted
  <2>6. \A j \in Workers : Bound(j)' => Bound(j) /\ worker[j].run = a /\ j # k /\ worker'[j] = worker[j]
    BY <2>2, <2>4 DEF Bound, Unstarted, Idle, AsyncInv, AsyncCore, InHand, OneRun
  <2>7. Leases' /\ Following'
    BY <2>3, <2>4, <2>5, <2>6 DEF Rows, Leases, Following, Bound
  <2>8. LiveRemote'
    BY <2>1 DEF LiveRemote, Wanted, Over, Claims, AsyncInv, AsyncCore, OneClaim
  <2>9. Revisions'
    <3>1. \A b \in Attempts : Exists(runs[b])' => b = a
      BY <2>4
    <3>2. runs[a].rev \in Nat /\ runs[a].rev >= 1 /\ (runs[a].rev = 1 => Live(a))
      BY <2>2 DEF RunRow, Rows, Revisions
    <3>3. ASSUME NEW j \in Workers, worker'[j].pc = "poll_settle", worker'[j].res = "no_remote"
          PROVE  /\ worker'[j].rev <= row.rev
                 /\ worker'[j].rev = row.rev => isNonTerminalRunState(row)
                 /\ worker'[j].run = a
      <4>1. /\ worker'[j] = worker[j] /\ worker[j].run = a /\ worker[j].rev \in Nat
            /\ worker[j].rev <= runs[a].rev /\ (worker[j].rev = runs[a].rev => Live(a))
        BY <1>0, <2>6, <3>3 DEF Bound, Unstarted, Worker, Rows, Revisions
      <4> QED
        BY <2>3, <3>2, <4>1
    <3>4. row.rev >= 1 /\ (row.rev = 1 => isNonTerminalRunState(row))
      BY <2>3, <3>2
    <3>5. \A j \in Workers : worker'[j].pc \in {"submit", "submit_settle"} => worker'[j].rev = 1
      BY <2>4 DEF Idle, Rows, Revisions
    <3> QED
      BY <2>4, <3>1, <3>3, <3>4, <3>5 DEF Revisions, Live
  <2>10. CancelAsked'
    <3>1. Claimable
      BY <2>1 DEF Claimable
    <3> QED
      BY <2>1, <2>6, <3>1 DEF Rows, CancelAsked, Over, Bound, Unstarted
  <2> QED
    BY <2>7, <2>8, <2>9, <2>10 DEF Rows
<1>5. CASE ResultFailed(k) \/ CountMismatch(k) \/ PollFailed(k)
  <2>1. PICK rev : /\ failRunTerminal(k, rev)
                   /\ rev \in {worker[k].rev, runs[a].rev}
    BY <1>5 DEF ResultFailed, CountMismatch, PollFailed
  <2>2. Bound(k) /\ (Claims(k) \/ Follows(k))
    BY <1>5 DEF ResultFailed, CountMismatch, PollFailed, Settled, Settling, Bound, Unstarted, Claims,
         Follows, LetRun, AsyncInv, AsyncCore, Phases
  <2>3. Follows(k) => rev = runs[a].rev
    BY <2>1 DEF Rows, Following
  <2> QED
    BY <2>1, <2>2, <2>3, RowsFailRun
<1>6. CASE ResultCanceled(k) \/ FinishCancel(k)
  <2>1. cancelJobWithRun(k) /\ Bound(k)
    BY <1>6 DEF ResultCanceled, FinishCancel, Settled, Settling, Bound, Unstarted
  <2> QED
    BY <2>1, RowsCancelRun
<1> QED
  BY <1>1, <1>2, <1>3, <1>4, <1>5, <1>6

\* The import and the polls.
LEMMA RowsImportSteps ==
    ASSUME LetRun, AsyncInv, AsyncInv', Rows, NEW k \in Workers,
           \/ StartImport(k) \/ ImportOutputs(k) \/ ImportFails(k)
           \/ PersistSuccess(k) \/ PersistRefused(k) \/ PollThrows(k)
    PROVE  Rows'
<1> DEFINE a == worker[k].run
<1>0. /\ runs \in [Attempts -> RunRow] /\ worker \in [Workers -> Worker] /\ job \in Job
      /\ Bound(k) => a \in Attempts /\ Exists(runs[a]) /\ runs[a] \in RunRow
  BY Shapes DEF Bound, AsyncInv, AsyncCore, InHand
<1>1. CASE StartImport(k)
  <2> DEFINE row == Moved(runs[a], worker[k].rev, "importing", TRUE)
             w == [worker[k] EXCEPT !.pc = "import", !.rev = IF row = runs[a] THEN @ ELSE row.rev]
  <2>1. /\ worker[k].pc \in {"submit_settle", "poll_settle"} /\ worker[k].res = "succeeded"
        /\ runs' = [runs EXCEPT ![a] = row]
        /\ worker' = [worker EXCEPT ![k] = w]
        /\ UNCHANGED job
    BY <1>0, <1>1 DEF StartImport, Settled, Settling
  <2>2. Bound(k) /\ (Claims(k) \/ Follows(k))
    BY <2>1 DEF Bound, Unstarted, Claims, Follows, AsyncInv, AsyncCore, Phases
  <2>3. Written(row, runs[a], k)
    BY <1>0, <2>2, Writings DEF NonTerminalStates
  <2>4. w.run = a /\ w.pc = "import" /\ (w.claimed <=> worker[k].claimed)
    BY <1>0 DEF Worker
  <2>5. row.lease = runs[a].lease
    BY <1>0, <2>2 DEF Moved, RunRow
  <2>6. Follows(k) => /\ isNonTerminalRunState(row) /\ w.rev = row.rev
                      /\ job.status \in {"running", "canceled"}
    <3> SUFFICES ASSUME Follows(k) PROVE /\ isNonTerminalRunState(row) /\ w.rev = row.rev
                                         /\ job.status \in {"running", "canceled"}
      OBVIOUS
    <3>1. worker[k].rev = runs[a].rev /\ Live(a) /\ job.status \in {"running", "canceled"}
      BY DEF Rows, Following
    <3>2. row.state = "importing" /\ row.rev = runs[a].rev + 1
      BY <1>0, <2>2, <3>1 DEF Moved, RunRow
    <3>3. row # runs[a]
      <4>1. runs[a].rev \in Nat
        BY <1>0, <2>2 DEF RunRow
      <4> HIDE DEF row
      <4> QED
        BY <3>2, <4>1
    <3>4. w.rev = row.rev
      BY <1>0, <3>3 DEF Worker
    <3> QED
      BY <3>1, <3>2, <3>4 DEF isNonTerminalRunState, NonTerminalStates
  <2>7. row.remote => Wanted
    <3>1. CASE Claims(k)
      BY <1>0, <2>2, <2>3, <3>1 DEF Written, Claimable, AsyncInv, AsyncCore, BeforeRemote
    <3>2. CASE Follows(k)
      BY <2>6, <3>2 DEF Wanted, Over
    <3> QED
      BY <2>2, <3>1, <3>2
  <2>8. Follows(k)' => Follows(k)
    BY <1>0, <2>1, <2>2, <2>4 DEF Follows, Claims
  <2> HIDE DEF row, w
  <2> QED
    BY <2>1, <2>2, <2>3, <2>4, <2>5, <2>6, <2>7, <2>8, GoesOn DEF Unstarted
<1>2. CASE ImportOutputs(k)
  <2>1. worker[k].pc = "import" /\ Bound(k) /\ UNCHANGED <<job, runs>>
    BY <1>2 DEF ImportOutputs, Bound, Unstarted
  <2>2. PICK res : worker' = [worker EXCEPT ![k] =
                       [worker[k] EXCEPT !.pc = "persist", !.rev = runs[a].rev, !.res = res]]
    BY <1>0, <1>2 DEF ImportOutputs
  <2> DEFINE w == [worker[k] EXCEPT !.pc = "persist", !.rev = runs[a].rev, !.res = res]
  <2>3. /\ w.run = a /\ w.pc = "persist" /\ w.rev = runs[a].rev
        /\ (w.claimed <=> worker[k].claimed)
    BY <1>0 DEF Worker
  <2>4. Written(runs[a], runs[a], k) /\ runs' = [runs EXCEPT ![a] = runs[a]]
    BY <1>0, <2>1 DEF Written, RunRow
  <2>5. Follows(k)' => Live(a) /\ job.status \in {"running", "canceled"}
    BY <1>0, <2>1, <2>2, <2>3 DEF Follows, Rows, Following
  <2>6. runs[a].remote /\ Live(a) => Wanted
    BY <1>0, <2>1 DEF Rows, LiveRemote
  <2> HIDE DEF w
  <2> QED
    BY <2>1, <2>2, <2>3, <2>4, <2>5, <2>6, GoesOn DEF w, Unstarted, Live
<1>3. CASE ImportFails(k) \/ PollThrows(k)
  <2>1. /\ Bound(k) /\ UNCHANGED job
        /\ \E res : Throw(k, res)
    BY <1>3 DEF ImportFails, PollThrows, Settling, Bound, Unstarted
  <2>2. runs' = [runs EXCEPT ![a] = Unleased(runs[a], k)]
    BY <2>1 DEF Throw
  <2>3. \A b \in Attempts : SameFor(runs'[b], runs[b], k)
    BY <1>0, <2>1, <2>2 DEF SameFor, Unleased, RunRow, Exists, isNonTerminalRunState
  <2>4. \A j \in Workers : \/ j # k /\ worker'[j] = worker[j]
                           \/ ~Bound(j)' /\ (Claims(j)' => Claimable)
    <3>1. \A j \in Workers : j # k => worker'[j] = worker[j]
      BY <1>0, <2>1 DEF Throw, LeavePending
    <3>2. \/ worker'[k] = Idle
          \/ worker[k].claimed /\ worker'[k].pc = "catch"
      BY <1>0, <2>1 DEF Throw, LeavePending, Worker
    <3>3. worker[k].claimed => Claimable
      BY <2>1 DEF Claimable, Claims, Bound, Unstarted
    <3> QED
      BY <3>1, <3>2, <3>3 DEF Bound, Unstarted, Idle, Claims
  <2> QED
    BY <2>1, <2>3, <2>4, Quiet
<1>4. CASE PersistSuccess(k)
  <2> DEFINE row == Unleased(Ended(runs[a], worker[k].rev, "succeeded"), k)
  <2>1. /\ worker[k].pc = "persist" /\ Bound(k) /\ job.status = "running"
        /\ job' = [job EXCEPT !.status = "succeeded"]
        /\ runs' = [runs EXCEPT ![a] = row]
        /\ Acknowledge(k)
    BY <1>4 DEF PersistSuccess, Bound, Unstarted
  <2>2. Written(row, runs[a], k)
    BY <1>0, <2>1, Writings DEF TerminalStates
  <2>3. job'.cancelReq = job.cancelReq /\ job'.deleted = job.deleted /\ job'.status = "succeeded"
    BY <1>0, <2>1 DEF Job
  <2>4. row.remote => ~isNonTerminalRunState(row)
    <3>1. CASE worker[k].claimed
      BY <1>0, <2>1, <2>2, <3>1 DEF Written, Claims, Claimable, AsyncInv, AsyncCore, BeforeRemote
    <3>2. CASE ~worker[k].claimed
      <4>1. worker[k].rev = runs[a].rev
        BY <2>1, <3>2 DEF Rows, Following, Follows
      <4>2. row.state = "succeeded"
        BY <1>0, <2>1, <4>1 DEF Ended, Unleased, RunRow
      <4> QED
        BY <4>2 DEF isNonTerminalRunState, NonTerminalStates
    <3> QED
      BY <3>1, <3>2
  <2> HIDE DEF row
  <2> QED
    BY <2>1, <2>2, <2>3, <2>4, Leaves
<1>5. CASE PersistRefused(k)
  <2> DEFINE row == Unleased(runs[a], k)
  <2>1. /\ Bound(k) /\ UNCHANGED job /\ runs' = [runs EXCEPT ![a] = row] /\ Acknowledge(k)
    BY <1>5 DEF PersistRefused, Bound, Unstarted
  <2>2. Written(row, runs[a], k) /\ row.state = runs[a].state
    BY <1>0, <2>1, Writings DEF Unleased, RunRow
  <2>3. row.remote /\ isNonTerminalRunState(row) => Wanted'
    BY <1>0, <2>1, <2>2 DEF Written, Rows, LiveRemote, Live, isNonTerminalRunState, Wanted, Over
  <2> HIDE DEF row
  <2> QED
    BY <2>1, <2>2, <2>3, Leaves
<1> QED
  BY <1>1, <1>2, <1>3, <1>4, <1>5

LEMMA RowsPollSteps ==
    ASSUME LetRun, AsyncInv, AsyncInv', Rows, NEW k \in Workers,
           \/ Poll(k) \/ PollJobDeleted(k) \/ PollUnclear(k) \/ PollStored(k) \/ PollTemporary(k)
           \/ RequestCancel(k) \/ RequestCancelFails(k)
    PROVE  Rows'
<1> DEFINE a == worker[k].run
<1>0. /\ runs \in [Attempts -> RunRow] /\ worker \in [Workers -> Worker] /\ job \in Job
      /\ Bound(k) => a \in Attempts /\ Exists(runs[a]) /\ runs[a] \in RunRow
  BY Shapes DEF Bound, AsyncInv, AsyncCore, InHand
<1>1. CASE Poll(k)
  <2>1. worker[k].pc = "polling" /\ Bound(k) /\ Follows(k) /\ UNCHANGED <<job, runs>>
    BY <1>1 DEF Poll, Bound, Unstarted, Follows
  <2>2. PICK res \in PollResults :
          worker' = [worker EXCEPT ![k] =
                       [worker[k] EXCEPT !.pc = "poll_settle", !.res = res,
                          !.rev = IF res \in {"temporary", "rejected"} THEN @ ELSE runs[a].rev]]
    BY <1>0, <1>1 DEF Poll
  <2> DEFINE w == [worker[k] EXCEPT !.pc = "poll_settle", !.res = res,
                          !.rev = IF res \in {"temporary", "rejected"} THEN @ ELSE runs[a].rev]
  <2>3. Live(a) /\ worker[k].rev = runs[a].rev /\ job.status \in {"running", "canceled"}
    BY <2>1 DEF Rows, Following
  <2>4. /\ w.run = a /\ w.pc = "poll_settle" /\ w.rev = runs[a].rev /\ w.res = res
        /\ (w.claimed <=> worker[k].claimed)
    BY <1>0, <2>3 DEF Worker
  <2>5. Written(runs[a], runs[a], k) /\ runs' = [runs EXCEPT ![a] = runs[a]]
    BY <1>0, <2>1 DEF Written, RunRow
  <2>6. res # "no_remote"
    BY <2>2 DEF PollResults
  <2> HIDE DEF w
  <2> QED
    BY <2>1, <2>2, <2>3, <2>4, <2>5, <2>6, GoesOn DEF w, Unstarted, Live, Wanted, Over
<1>2. CASE PollJobDeleted(k)
  <2> DEFINE row == Unleased(Ended(runs[a], worker[k].rev, "failed"), k)
  <2>1. /\ Bound(k) /\ UNCHANGED job /\ Acknowledge(k) /\ runs' = [runs EXCEPT ![a] = row]
        /\ job.deleted
    BY <1>2 DEF PollJobDeleted, Settling, Bound, Unstarted, AsyncInv, AsyncCore, InHand
  <2>2. Written(row, runs[a], k)
    BY <1>0, <2>1, Writings DEF TerminalStates
  <2> HIDE DEF row
  <2> QED
    BY <2>1, <2>2, Leaves DEF Wanted, Over
<1>3. CASE PollUnclear(k)
  <2> DEFINE row == Unleased(Moved(runs[a], worker[k].rev, "submission_unknown", FALSE), k)
  <2>1. /\ Bound(k) /\ UNCHANGED job /\ Acknowledge(k) /\ runs' = [runs EXCEPT ![a] = row]
        /\ worker[k].pc = "poll_settle" /\ worker[k].res = "no_remote"
    BY <1>3 DEF PollUnclear, Settling, Bound, Unstarted
  <2>2. Written(row, runs[a], k)
    BY <1>0, <2>1, Writings DEF NonTerminalStates
  <2>3. isNonTerminalRunState(row) => Live(a)
    <3>1. worker[k].rev = runs[a].rev => Live(a)
      BY <2>1 DEF Rows, Revisions
    <3>2. worker[k].rev # runs[a].rev => row.state = runs[a].state
      BY <1>0, <2>1 DEF Moved, Unleased, RunRow
    <3> QED
      BY <3>1, <3>2 DEF Live, isNonTerminalRunState
  <2>4. row.remote /\ isNonTerminalRunState(row) => Wanted'
    BY <1>0, <2>1, <2>2, <2>3 DEF Written, Rows, LiveRemote, Wanted, Over
  <2> HIDE DEF row
  <2> QED
    BY <2>1, <2>2, <2>4, Leaves
<1>4. CASE PollStored(k) \/ PollTemporary(k)
  <2>1. /\ Bound(k) /\ UNCHANGED job /\ Acknowledge(k) /\ Follows(k)
    BY <1>4 DEF PollStored, PollTemporary, Settling, Bound, Unstarted, Follows
  <2>2. PICK row : runs' = [runs EXCEPT ![a] = row] /\ Written(row, runs[a], k)
    <3>1. CASE PollStored(k)
      <4> DEFINE row == Unleased(Stored(runs[a], worker[k].rev, worker[k].res, TRUE), k)
      <4>1. worker[k].res \in {"waiting", "submission_unknown"} /\ runs' = [runs EXCEPT ![a] = row]
        BY <3>1 DEF PollStored, Settling
      <4>2. runs[a].remote
        BY <2>1 DEF AsyncInv, AsyncCore, InHand
      <4>3. Written(row, runs[a], k)
        BY <1>0, <2>1, <4>1, <4>2
           DEF Written, Stored, Unleased, Exists, isNonTerminalRunState, NonTerminalStates, RunRow
      <4> HIDE DEF row
      <4> QED
        BY <4>1, <4>3
    <3>2. CASE PollTemporary(k)
      BY <1>0, <2>1, <3>2, Writings DEF PollTemporary
    <3> QED
      BY <1>4, <3>1, <3>2
  <2>3. Wanted
    BY <2>1 DEF Rows, Following, Wanted, Over
  <2> QED
    BY <2>1, <2>2, <2>3, Leaves DEF Wanted, Over
<1>5. CASE RequestCancel(k) \/ RequestCancelFails(k)
  <2> DEFINE w == [worker[k] EXCEPT !.pc = "canceling"]
  <2>1. /\ worker[k].pc = "cancel" /\ Bound(k) /\ UNCHANGED job
        /\ worker' = [worker EXCEPT ![k] = w]
    BY <1>0, <1>5 DEF RequestCancel, RequestCancelFails, Goto, Bound, Unstarted
  <2>2. PICK row : runs' = [runs EXCEPT ![a] = row] /\ Written(row, runs[a], k) /\ row.lease = runs[a].lease
    <3>1. \/ runs' = [runs EXCEPT ![a] = runs[a]]
          \/ runs' = [runs EXCEPT ![a] = Moved(runs[a], worker[k].rev, "canceling", TRUE)]
      BY <1>0, <1>5 DEF RequestCancel, RequestCancelFails
    <3>2. Written(runs[a], runs[a], k)
      BY <1>0, <2>1 DEF Written, RunRow
    <3>3. Written(Moved(runs[a], worker[k].rev, "canceling", TRUE), runs[a], k)
      BY <1>0, <2>1, Writings DEF NonTerminalStates
    <3>4. Moved(runs[a], worker[k].rev, "canceling", TRUE).lease = runs[a].lease
      BY <1>0, <2>1 DEF Moved, RunRow
    <3> QED
      BY <3>1, <3>2, <3>3, <3>4
  <2>3. w.run = a /\ w.pc = "canceling" /\ (w.claimed <=> worker[k].claimed)
    BY <1>0 DEF Worker
  <2>4. row.remote => Wanted
    BY <1>0, <2>1, <2>2 DEF Written, Rows, CancelAsked, Wanted, Over
  <2>5. ~Follows(k)'
    BY <1>0, <2>1, <2>3 DEF Follows
  <2> HIDE DEF w
  <2> QED
    BY <2>1, <2>2, <2>3, <2>4, <2>5, GoesOn DEF Unstarted
<1> QED
  BY <1>1, <1>2, <1>3, <1>4, <1>5

\* Everything else: the outer catch, users, time and maintenance.
LEMMA RowsOtherSteps ==
    ASSUME LeasesLast, AsyncInv, AsyncInv', Rows,
           \/ \E k \in Workers : CatchFailure(k)
           \/ UserStep \/ Maintenance \/ Time
    PROVE  Rows'
<1>0. /\ runs \in [Attempts -> RunRow] /\ worker \in [Workers -> Worker] /\ job \in Job
  BY Shapes DEF AsyncInv
<1>1. \A b \in Attempts : /\ SameFor(runs[b], runs[b], NoWorker)
                          /\ SameFor(MarkedCanceling(runs[b]), runs[b], NoWorker)
  BY <1>0 DEF SameFor, MarkedCanceling, Exists, isNonTerminalRunState, NonTerminalStates, RunRow
<1>2. ASSUME UNCHANGED worker, \A b \in Attempts : SameFor(runs'[b], runs[b], NoWorker),
             job.cancelReq => job'.cancelReq, job.deleted => job'.deleted,
             job'.status \in {job.status, "canceled"}
      PROVE  Rows'
  BY <1>2, NoWorkerAssumption, Quiet
<1>3. CASE \E k \in Workers : CatchFailure(k)
  <2>1. PICK k \in Workers : CatchFailure(k)
    BY <1>3
  <2>2. worker' = [worker EXCEPT ![k] = Idle] /\ Claims(k) /\ worker[k].pc = "catch"
    BY <2>1 DEF CatchFailure, Acknowledge, Claims, AsyncInv, AsyncCore, Phases
  <2>3. \A b \in Attempts : Exists(runs[b]) => ~runs[b].remote
    BY <2>2 DEF Claimable, AsyncInv, AsyncCore, BeforeRemote
  <2>4. ASSUME NEW b \in Attempts
        PROVE  /\ Exists(runs'[b]) <=> Exists(runs[b])
               /\ Exists(runs[b]) => /\ runs'[b].lease = runs[b].lease
                                     /\ ~runs'[b].remote
                                     /\ runs'[b].rev \in Nat
                                     /\ \/ runs'[b] = runs[b]
                                        \/ runs'[b].rev > runs[b].rev
    <3>1. /\ runs[b] \in RunRow
          /\ runs'[b] \in {runs[b], Postponed(runs[b], runs[b].rev), Ended(runs[b], runs[b].rev, "failed")}
          /\ Exists(runs[b]) \/ runs'[b] = runs[b]
      BY <1>0, <2>1 DEF CatchFailure, IsLatest
    <3> DEFINE old == runs[b]
    <3>2. /\ Postponed(old, old.rev).lease = old.lease /\ Ended(old, old.rev, "failed").lease = old.lease
          /\ Postponed(old, old.rev).remote = old.remote
          /\ Ended(old, old.rev, "failed").remote = old.remote
          /\ Postponed(old, old.rev).rev = old.rev + 1
          /\ Ended(old, old.rev, "failed").rev = old.rev + 1
          /\ Exists(Postponed(old, old.rev)) <=> Exists(old)
          /\ Exists(Ended(old, old.rev, "failed"))
          /\ old.rev \in Nat
      BY <3>1 DEF Postponed, Ended, Exists, RunRow
    <3> HIDE DEF old
    <3>3. old.rev + 1 \in Nat /\ old.rev + 1 > old.rev
      BY <3>2
    <3> QED
      BY <2>3, <3>1, <3>2, <3>3 DEF old
  <2>5. /\ job'.cancelReq = job.cancelReq /\ job'.deleted = job.deleted
        /\ job.status = "canceled" => job'.status = "canceled"
    BY <1>0, <2>1 DEF CatchFailure, persistJobFailure, Job
  <2>6. /\ \A j \in Workers : Bound(j)' => /\ j # k /\ Bound(j) /\ worker'[j] = worker[j]
                                           /\ worker[j].run \in Attempts /\ Exists(runs[worker[j].run])
        /\ \A j \in Workers : ~Follows(j)'
    <3>1. \A j \in Workers : j # k => worker'[j] = worker[j]
      BY <1>0, <2>2
    <3>2. worker'[k] = Idle
      BY <1>0, <2>2
    <3>3. \A j \in Workers : Bound(j) => worker[j].run \in Attempts /\ Exists(runs[worker[j].run])
      BY DEF Bound, AsyncInv, AsyncCore, InHand
    <3>4. \A j \in Workers : Follows(j) => Bound(j) /\ runs[worker[j].run].remote
      BY DEF Follows, Bound, Unstarted, AsyncInv, AsyncCore, InHand
    <3> QED
      BY <2>3, <3>1, <3>2, <3>3, <3>4 DEF Bound, Unstarted, Follows, Idle
  <2>7. Leases' /\ Following'
    BY <2>4, <2>6 DEF Rows, Leases, Following, Bound
  <2>8. LiveRemote'
    BY <2>4 DEF LiveRemote, Live, Exists, isNonTerminalRunState, NonTerminalStates
  <2>9. Revisions'
    <3>1. \A b \in Attempts : Exists(runs'[b]) =>
            runs'[b].rev >= 1 /\ (runs'[b].rev = 1 => isNonTerminalRunState(runs'[b]))
      BY <1>0, <2>4 DEF Rows, Revisions, Live, RunRow
    <3>2. \A j \in Workers : worker'[j].pc \in {"submit", "submit_settle"} => worker'[j].rev = 1
      BY <2>6 DEF Rows, Revisions, Bound, Unstarted
    <3>3. ASSUME NEW j \in Workers, worker'[j].pc = "poll_settle", worker'[j].res = "no_remote"
          PROVE  /\ worker'[j].rev <= runs'[worker'[j].run].rev
                 /\ worker'[j].rev = runs'[worker'[j].run].rev
                      => isNonTerminalRunState(runs'[worker'[j].run])
      <4>1. /\ worker'[j] = worker[j] /\ worker[j].run \in Attempts /\ Exists(runs[worker[j].run])
            /\ worker[j].rev \in Nat /\ runs[worker[j].run].rev \in Nat
        BY <1>0, <2>6, <3>3 DEF Bound, Unstarted, Worker, RunRow
      <4>2. /\ worker[j].rev <= runs[worker[j].run].rev
            /\ worker[j].rev = runs[worker[j].run].rev => isNonTerminalRunState(runs[worker[j].run])
        BY <3>3, <4>1 DEF Rows, Revisions, Live
      <4> QED
        BY <2>4, <4>1, <4>2
    <3> QED
      BY <3>1, <3>2, <3>3 DEF Revisions, Live
  <2>10. CancelAsked'
    <3>1. Claimable
      BY <2>2 DEF Claimable
    <3> QED
      BY <2>5, <2>6, <3>1 DEF Rows, CancelAsked, Over, Bound, Unstarted
  <2> QED
    BY <2>7, <2>8, <2>9, <2>10 DEF Rows
<1>4. CASE UserStep
  <2>1. ~retryJob
    BY DEF LeasesLast, LetRun, retryJob, Spend
  <2>2. \A b \in Attempts : SameFor(runs'[b], runs[b], NoWorker)
    BY <1>1, <1>4, <2>1 DEF UserStep, cancelJob, deleteJobWithAssets, deleteUser, MarkRunsCanceling
  <2>3. /\ UNCHANGED worker
        /\ (job.cancelReq => job'.cancelReq) /\ (job.deleted => job'.deleted)
        /\ job'.status \in {job.status, "canceled"}
    BY <1>0, <1>4, <2>1
       DEF UserStep, cancelJob, deleteJobWithAssets, deleteUser, CanceledIfActive, Job
  <2> QED
    BY <1>2, <2>2, <2>3
<1>5. CASE Maintenance
  <2>1. /\ UNCHANGED <<worker, runs>>
        /\ UNCHANGED job \/ job' = [job EXCEPT !.status = "canceled"]
    BY <1>5 DEF Maintenance, dispatchOutbox, handleCancellation, claimStalePending,
                dispatchDueProviderRun, deleteDoomedObject, outside
  <2>2. /\ job'.cancelReq = job.cancelReq /\ job'.deleted = job.deleted
        /\ job'.status \in {job.status, "canceled"}
    BY <1>0, <2>1 DEF Job
  <2> QED
    BY <1>1, <1>2, <2>1, <2>2
<1>6. CASE Time
  <2>1. PICK a \in Attempts : ExpireLease(a) \/ ActionFallsDue(a)
    BY <1>6 DEF Time
  <2>2. CASE ActionFallsDue(a)
    <3>1. UNCHANGED <<worker, job>> /\ runs' = [runs EXCEPT ![a].due = TRUE]
      BY <2>2 DEF ActionFallsDue
    <3>2. \A b \in Attempts : SameFor(runs'[b], runs[b], NoWorker)
      BY <1>0, <3>1 DEF SameFor, RunRow, Exists, isNonTerminalRunState
    <3> QED
      BY <1>2, <3>1, <3>2
  <2>3. CASE ExpireLease(a)
    <3>1. UNCHANGED <<worker, job>> /\ runs' = [runs EXCEPT ![a].lease = NoWorker] /\ Abandoned(a)
      BY <2>3 DEF ExpireLease, LeasesLast, Spend
    <3>2. \A b \in Attempts : /\ b # a => runs'[b] = runs[b]
                              /\ runs'[b].rev = runs[b].rev /\ runs'[b].remote = runs[b].remote
                              /\ runs'[b].state = runs[b].state
      BY <1>0, <3>1 DEF RunRow
    <3>3. \A k \in Workers : Bound(k) => runs[a].lease # k \/ worker[k].run # a
      BY <3>1 DEF Abandoned, Bound, Unstarted
    <3>4. \A k \in Workers : Bound(k) => worker[k].run \in Attempts
      BY DEF Bound, AsyncInv, AsyncCore, InHand
    <3>5. Leases'
      BY <3>1, <3>2, <3>3, <3>4 DEF Rows, Leases, Bound
    <3>6. \A k \in Workers : Follows(k) => Bound(k)
      BY DEF Follows, Bound, Unstarted
    <3>7. Following' /\ LiveRemote' /\ CancelAsked'
      BY <3>1, <3>2, <3>4, <3>6 DEF Rows, Following, LiveRemote, CancelAsked, Follows, Live, Wanted, Over,
           Claimable, Claims, Bound, Unstarted, isNonTerminalRunState
    <3>8. Revisions'
      BY <3>1, <3>2, <3>4 DEF Rows, Revisions, Live, Exists, isNonTerminalRunState, Bound, Unstarted
    <3> QED
      BY <3>5, <3>7, <3>8 DEF Rows
  <2> QED
    BY <2>1, <2>2, <2>3
<1> QED
  BY <1>3, <1>4, <1>5, <1>6

LEMMA RowsStep == LeasesLast /\ AsyncInv /\ Rows /\ [Next]_vars => Rows'
<1> SUFFICES ASSUME LeasesLast, AsyncInv, Rows, [Next]_vars PROVE Rows'
  OBVIOUS
<1>1. AsyncInv' /\ LetRun
  BY AsyncStep DEF LeasesLast
<1>2. CASE UNCHANGED vars
  BY <1>2 DEF vars, Rows, Leases, Following, LiveRemote, Revisions, CancelAsked, Bound, Follows, Live,
       Wanted, Over, Claimable, Claims
<1>3. ASSUME NEW k \in Workers, WorkerStep(k) \/ WorkerFault(k)
      PROVE  Rows'
  BY <1>1, <1>3, RowsClaimSteps, RowsSubmitSteps, RowsSettleSteps, RowsImportSteps, RowsPollSteps,
     RowsOtherSteps DEF WorkerStep, WorkerFault
<1> QED
  BY <1>1, <1>2, <1>3, RowsOtherSteps DEF Next

-----------------------------------------------------------------------------
(* Objects and assets. *)

\* The media of a job and its success are what they were.
SameMedia ==
    /\ UNCHANGED <<stored, assets, doomed>>
    /\ job.status = "succeeded" <=> job'.status = "succeeded"
    /\ job.deleted => job'.deleted
    /\ \A k \in Workers : worker'[k].pc = "persist" => worker'[k] = worker[k]

LEMMA MediaStays ==
    ASSUME Media, SameMedia
    PROVE  Media'
BY DEF Media, SameMedia, SucceededHasMedia

LEMMA MediaClaimSteps ==
    ASSUME LetRun, AsyncInv, NEW k \in Workers,
           \/ ClaimJob(k) \/ CancelAtClaim(k) \/ IgnoreClaim(k) \/ PollMessage(k)
           \/ CancelClaimed(k) \/ ContinueClaimed(k) \/ PreprocessFails(k)
           \/ AcquireCapacity(k) \/ DenyCapacity(k) \/ Requeue(k)
           \/ ModelNotFound(k) \/ InputsFail(k) \/ Submit(k) \/ Crash(k)
    PROVE  SameMedia
<1> USE DEF SameMedia, outside
<1>0. /\ worker \in [Workers -> Worker] /\ job \in Job /\ Inv
  BY Shapes DEF AsyncInv
<1>1. ASSUME NEW a \in Attempts, NEW msg, NEW claimed \in BOOLEAN, PollFrom(k, a, msg, claimed)
      PROVE  \A j \in Workers : worker'[j].pc = "persist" => worker'[j] = worker[j]
  BY <1>0, <1>1, PollFromWorker DEF Begun, Idle, LetRun
<1>2. CASE ClaimJob(k) \/ CancelAtClaim(k)
  BY <1>0, <1>2, ZenonT(60) DEF ClaimJob, CancelAtClaim, decideJobClaim, Idle, Job
<1>3. CASE IgnoreClaim(k) \/ PollMessage(k)
  BY <1>1, <1>3 DEF IgnoreClaim, PollMessage
<1>4. CASE CancelClaimed(k)
  <2>1. /\ worker[k].pc = "preprocess" /\ job.status \in {"running", "canceled"}
        /\ UNCHANGED <<stored, assets, doomed>>
        /\ UNCHANGED job \/ job' = [job EXCEPT !.status = "canceled"]
    BY <1>4 DEF CancelClaimed, AsyncInv, AsyncCore, OneClaim, Phases, Claims
  <2>2. \A j \in Workers : worker'[j].pc = "persist" => worker'[j] = worker[j]
    <3>1. \/ worker' = [worker EXCEPT ![k] = Idle]
          \/ \E a \in Attempts :
               worker' = [worker EXCEPT ![k].pc = "cancel", ![k].run = a, ![k].rev = runs[a].rev]
      BY <1>4 DEF CancelClaimed, Acknowledge
    <3>2. worker'[k].pc \in {"idle", "cancel"} /\ \A j \in Workers : j # k => worker'[j] = worker[j]
      <4>1. worker' = [worker EXCEPT ![k] = Idle] => worker'[k].pc = "idle"
        BY <1>0 DEF Idle
      <4>2. \A a \in Attempts :
              worker' = [worker EXCEPT ![k].pc = "cancel", ![k].run = a, ![k].rev = runs[a].rev]
                => worker'[k].pc = "cancel"
        BY <1>0 DEF Worker
      <4> QED
        BY <1>0, <3>1, <4>1, <4>2
    <3> QED
      BY <3>2
  <2> QED
    BY <1>0, <2>1, <2>2 DEF Job
<1>5. CASE ContinueClaimed(k)
  <2>1. UNCHANGED <<job, stored, assets, doomed>>
    BY <1>5 DEF ContinueClaimed
  <2>2. \A j \in Workers : worker'[j].pc = "persist" => worker'[j] = worker[j]
    BY <1>0, <1>1, <1>5 DEF ContinueClaimed, Worker
  <2> QED
    BY <2>1, <2>2
<1>6. CASE PreprocessFails(k) \/ InputsFail(k) \/ Submit(k) \/ AcquireCapacity(k)
  <2>1. UNCHANGED <<job, stored, assets, doomed>>
    BY <1>6 DEF PreprocessFails, InputsFail, Submit, AcquireCapacity
  <2>2. worker'[k].pc # "persist" /\ \A j \in Workers : j # k => worker'[j] = worker[j]
    <3>1. PreprocessFails(k) \/ InputsFail(k) => worker'[k].pc = "catch"
      BY <1>0 DEF PreprocessFails, InputsFail, Worker
    <3>2. Submit(k) => worker'[k].pc = "submit_settle"
      <4>1. Submit(k) => \E res, id :
              worker' = [worker EXCEPT ![k].pc = "submit_settle", ![k].res = res, ![k].remote = id]
        BY DEF Submit
      <4> QED
        BY <1>0, <4>1, ZenonT(60) DEF Worker
    <3>3. AcquireCapacity(k) => worker'[k].pc = "submit"
      BY <1>0 DEF AcquireCapacity, Worker
    <3>4. \A j \in Workers : j # k => worker'[j] = worker[j]
      BY <1>0, <1>6 DEF PreprocessFails, InputsFail, Submit, AcquireCapacity
    <3> QED
      BY <1>6, <3>1, <3>2, <3>3, <3>4
  <2> QED
    BY <2>1, <2>2
<1>7. CASE DenyCapacity(k)
  <2>1. worker'[k].pc # "persist" /\ \A j \in Workers : j # k => worker'[j] = worker[j]
    BY <1>0, <1>7 DEF DenyCapacity, Goto, Worker
  <2> QED
    BY <1>0, <1>7, <2>1 DEF DenyCapacity, Job
<1>8. CASE Requeue(k) \/ ModelNotFound(k) \/ Crash(k)
  BY <1>0, <1>8 DEF Requeue, ModelNotFound, Crash, Acknowledge, Idle, persistJobFailure, Job
<1> QED
  BY <1>2, <1>3, <1>4, <1>5, <1>6, <1>7, <1>8

LEMMA MediaRunSteps ==
    ASSUME LetRun, AsyncInv, NEW k \in Workers,
           \/ retrySyncSubmit(k) \/ RetryConflict(k) \/ SubmitFailed(k)
           \/ SubmitUnclear(k) \/ SubmitStored(k) \/ ResultFailed(k)
           \/ ResultCanceled(k) \/ CountMismatch(k) \/ FinishCancel(k) \/ PollFailed(k)
           \/ StartImport(k) \/ PollThrows(k) \/ Poll(k) \/ PollJobDeleted(k)
           \/ PollUnclear(k) \/ PollStored(k) \/ PollTemporary(k)
           \/ RequestCancel(k) \/ RequestCancelFails(k) \/ CatchFailure(k)
    PROVE  SameMedia
<1> USE DEF SameMedia, outside
<1>0. /\ worker \in [Workers -> Worker] /\ job \in Job
  BY Shapes DEF AsyncInv
<1>1. CASE \/ SubmitFailed(k) \/ ResultFailed(k) \/ CountMismatch(k) \/ PollFailed(k) \/ CatchFailure(k)
  <2>1. /\ UNCHANGED <<stored, assets, doomed>> /\ Acknowledge(k)
        /\ \E retryable : persistJobFailure(retryable)
    BY <1>1 DEF SubmitFailed, ResultFailed, CountMismatch, PollFailed, CatchFailure, failRunTerminal
  <2> QED
    BY <1>0, <2>1 DEF Acknowledge, Idle, persistJobFailure, Job
<1>2. CASE ResultCanceled(k) \/ FinishCancel(k)
  BY <1>0, <1>2 DEF ResultCanceled, FinishCancel, cancelJobWithRun, CanceledIfActive, ActiveStatuses,
                    Acknowledge, Idle, Job
<1>3. CASE SubmitUnclear(k)
  <2>1. job.status \in {"running", "canceled"}
    BY <1>3 DEF SubmitUnclear, Settling, AsyncInv, AsyncCore, OneClaim, Phases, Claims
  <2> QED
    BY <1>0, <1>3, <2>1 DEF SubmitUnclear, Acknowledge, Idle, Job
<1>4. CASE SubmitStored(k) \/ PollJobDeleted(k) \/ PollUnclear(k) \/ PollStored(k) \/ PollTemporary(k)
  <2>1. UNCHANGED <<job, stored, assets, doomed>> /\ Acknowledge(k)
    BY <1>4 DEF SubmitStored, PollJobDeleted, PollUnclear, PollStored, PollTemporary
  <2> QED
    BY <1>0, <2>1 DEF Acknowledge, Idle
<1>5. CASE retrySyncSubmit(k) \/ RetryConflict(k)
  BY <1>5 DEF retrySyncSubmit, RetryConflict, MayRetrySubmit, LetRun
<1>6. CASE StartImport(k) \/ Poll(k) \/ RequestCancel(k) \/ RequestCancelFails(k)
  <2>1. UNCHANGED <<job, stored, assets, doomed>>
    BY <1>6 DEF StartImport, Poll, RequestCancel, RequestCancelFails
  <2>2. \A j \in Workers : j # k => worker'[j] = worker[j]
    BY <1>0, <1>6 DEF StartImport, Poll, RequestCancel, RequestCancelFails, Goto
  <2>3. worker'[k].pc # "persist"
    <3>1. StartImport(k) => worker'[k].pc = "import"
      BY <1>0 DEF StartImport, Worker
    <3>2. Poll(k) => worker'[k].pc = "poll_settle"
      <4>1. Poll(k) => \E res \in PollResults :
              worker' = [worker EXCEPT ![k].pc = "poll_settle", ![k].res = res,
                            ![k].rev = IF res \in {"temporary", "rejected"}
                                         THEN @ ELSE runs[worker[k].run].rev]
        BY DEF Poll
      <4> QED
        BY <1>0, <4>1, ZenonT(60) DEF Worker
    <3>3. RequestCancel(k) \/ RequestCancelFails(k) => worker'[k].pc = "canceling"
      <4>1. RequestCancel(k) \/ RequestCancelFails(k) => Goto(k, "canceling")
        BY DEF RequestCancel, RequestCancelFails
      <4> QED
        BY <1>0, <4>1 DEF Goto, Worker
    <3> QED
      BY <1>6, <3>1, <3>2, <3>3
  <2> QED
    BY <2>1, <2>2, <2>3
<1>7. CASE PollThrows(k)
  <2>1. UNCHANGED <<job, stored, assets, doomed>> /\ Throw(k, "rejected")
    BY <1>7 DEF PollThrows
  <2>2. worker'[k].pc # "persist" /\ \A j \in Workers : j # k => worker'[j] = worker[j]
    BY <1>0, <2>1 DEF Throw, LeavePending, Idle, Worker
  <2> QED
    BY <2>1, <2>2
<1> QED
  BY <1>1, <1>2, <1>3, <1>4, <1>5, <1>6, <1>7

\* The import: nobody else is at it, and no asset is there yet.
LEMMA MediaImportSteps ==
    ASSUME AsyncInv, Rows, Media, NEW k \in Workers,
           ImportOutputs(k) \/ ImportFails(k) \/ PersistSuccess(k) \/ PersistRefused(k)
    PROVE  Media'
<1> USE DEF Media, SucceededHasMedia
<1> DEFINE a == worker[k].run
<1>0. /\ worker \in [Workers -> Worker] /\ job \in Job
      /\ stored \in SUBSET Attempts /\ assets \in SUBSET Attempts
  BY Shapes DEF AsyncInv, Inv
<1>1. worker[k].pc \in {"import", "persist"}
  BY DEF ImportOutputs, ImportFails, PersistSuccess, PersistRefused
<1>2. /\ job.status \in {"running", "canceled"}
      /\ \A j \in Workers : worker[j].pc \in {"import", "persist"} => j = k
      /\ a \in Attempts
  BY <1>1, OneImports DEF Rows
<1>3. assets = {}
  BY <1>2
<1>4. CASE ImportOutputs(k)
  <2>1. /\ worker'[k].run = a
        /\ \A j \in Workers : j # k => worker'[j] = worker[j]
        /\ stored' = stored \cup {a} /\ UNCHANGED <<job, assets, doomed>>
    BY <1>0, <1>3, <1>4 DEF ImportOutputs, Worker
  <2> QED
    BY <1>2, <1>3, <2>1
<1>5. CASE ImportFails(k)
  <2>1. /\ worker'[k].pc # "persist"
        /\ \A j \in Workers : j # k => worker'[j] = worker[j]
        /\ UNCHANGED <<job, assets, doomed>>
    BY <1>0, <1>5 DEF ImportFails, Throw, LeavePending, Idle, Worker
  <2> QED
    BY <1>2, <1>3, <2>1
<1>6. CASE PersistSuccess(k)
  <2>1. /\ worker' = [worker EXCEPT ![k] = Idle] /\ UNCHANGED <<stored, doomed>>
        /\ assets' = assets \cup {a} /\ job' = [job EXCEPT !.status = "succeeded"]
        /\ worker[k].pc = "persist" /\ ~job.deleted
    BY <1>6 DEF PersistSuccess, Acknowledge
  <2>2. a \in stored /\ doomed = {}
    BY <2>1
  <2>3. \A j \in Workers : worker'[j].pc # "persist"
    BY <1>0, <1>2, <2>1 DEF Idle
  <2>4. job'.status = "succeeded"
    BY <1>0, <2>1 DEF Job
  <2> QED
    BY <1>2, <1>3, <2>1, <2>2, <2>3, <2>4
<1>7. CASE PersistRefused(k)
  <2>1. /\ worker' = [worker EXCEPT ![k] = Idle] /\ UNCHANGED <<job, assets, doomed>>
    BY <1>7 DEF PersistRefused, Acknowledge
  <2>2. \A j \in Workers : worker'[j].pc # "persist"
    BY <1>0, <1>2, <2>1 DEF Idle
  <2> QED
    BY <1>2, <1>3, <2>1, <2>2
<1> QED
  BY <1>4, <1>5, <1>6, <1>7

LEMMA MediaStep == LeasesLast /\ ResultInv /\ [Next]_vars => Media'
<1> SUFFICES ASSUME LeasesLast, ResultInv, [Next]_vars PROVE Media'
  OBVIOUS
<1>0. AsyncInv /\ Rows /\ Media /\ LetRun /\ job \in Job
  BY Shapes DEF ResultInv, LeasesLast, AsyncInv
<1>1. CASE UNCHANGED vars
  BY <1>0, <1>1 DEF vars, Media, SucceededHasMedia
<1>2. ASSUME NEW k \in Workers, WorkerStep(k) \/ WorkerFault(k)
      PROVE  Media'
  BY <1>0, <1>2, MediaClaimSteps, MediaRunSteps, MediaImportSteps, MediaStays DEF WorkerStep, WorkerFault
<1>3. CASE UserStep
  <2>1. ~retryJob
    BY <1>0 DEF LetRun, retryJob, Spend
  <2>2. CASE deleteJobWithAssets
    BY <1>0, <2>2 DEF deleteJobWithAssets, CanceledIfActive, ActiveStatuses, Job, Media, SucceededHasMedia
  <2>3. CASE cancelJob \/ deleteUser
    <3>1. SameMedia
      BY <1>0, <2>3 DEF cancelJob, deleteUser, CanceledIfActive, ActiveStatuses, Job, SameMedia
    <3> QED
      BY <1>0, <3>1, MediaStays
  <2> QED
    BY <1>3, <2>1, <2>2, <2>3 DEF UserStep
<1>4. CASE Maintenance
  <2>1. CASE \E a \in Attempts : deleteDoomedObject(a)
    BY <1>0, <2>1 DEF deleteDoomedObject, Media, SucceededHasMedia
  <2>2. CASE \/ dispatchOutbox \/ handleCancellation \/ \E o \in orphans : claimStalePending(o)
             \/ \E a \in Attempts : dispatchDueProviderRun(a)
    <3>1. SameMedia
      BY <1>0, <2>2 DEF dispatchOutbox, handleCancellation, claimStalePending, dispatchDueProviderRun,
           outside, Job, SameMedia, ActiveStatuses
    <3> QED
      BY <1>0, <3>1, MediaStays
  <2> QED
    BY <1>4, <2>1, <2>2 DEF Maintenance
<1>5. CASE Time
  <2>1. SameMedia
    BY <1>5 DEF Time, ExpireLease, ActionFallsDue, outside, SameMedia
  <2> QED
    BY <1>0, <2>1, MediaStays
<1> QED
  BY <1>1, <1>2, <1>3, <1>4, <1>5 DEF Next

-----------------------------------------------------------------------------
(* The theorems *)

LEMMA ResultInit == LeasesLast /\ Init => ResultInv
<1> SUFFICES ASSUME LeasesLast, Init PROVE ResultInv
  OBVIOUS
<1>1. AsyncInv
  BY AsyncInit DEF LeasesLast
<1>2. Rows
  BY DEF Init, Rows, Leases, Following, LiveRemote, Revisions, CancelAsked, Follows, Bound, Unstarted,
         Idle, NoRun, Exists, Live, isNonTerminalRunState, NonTerminalStates
<1>3. Media
  BY DEF Init, Media, SucceededHasMedia, Idle
<1> QED
  BY <1>1, <1>2, <1>3 DEF ResultInv

LEMMA ResultStep == LeasesLast /\ ResultInv /\ [Next]_vars => ResultInv'
BY AsyncStep, RowsStep, MediaStep DEF ResultInv, LeasesLast

LEMMA ResultInvariant == LeasesLast => (Spec => []ResultInv)
<1> SUFFICES ASSUME LeasesLast PROVE Spec => []ResultInv
  OBVIOUS
<1>1. Init => ResultInv
  BY ResultInit
<1>2. ResultInv /\ [Next]_vars => ResultInv'
  BY ResultStep
<1> QED
  BY <1>1, <1>2, PTL DEF Spec

\* SucceededHasMedia for every number of workers and every mix of crashes,
\* redeliveries, failures, cancellations and deletions, as long as no lease
\* ends under a live holder: a succeeded asynchronous job has the outputs of
\* exactly one run as assets, and their objects are in the bucket
\* (importRunOutputs, persistJobSuccess, deleteJobWithAssets).
THEOREM ResultKept ==
    ASSUME ~Synchronous, "retry" \notin Allowed, "expiry" \notin Allowed
    PROVE  Spec => []SucceededHasMedia
<1>1. ResultInv => SucceededHasMedia
  BY DEF ResultInv, Media
<1>2. Spec => []ResultInv
  BY ResultInvariant DEF LeasesLast, LetRun
<1> QED
  BY <1>1, <1>2, PTL

\* SuccessNotOverruled in the same scope: while a worker holds downloaded
\* outputs ready to be persisted, nobody but the user ends the job.
THEOREM ResultNotOverruled ==
    ASSUME ~Synchronous, "retry" \notin Allowed, "expiry" \notin Allowed
    PROVE  Spec => []SuccessNotOverruled
<1>1. ResultInv => SuccessNotOverruled
  BY OneImports DEF ResultInv, Rows, SuccessNotOverruled
<1>2. Spec => []ResultInv
  BY ResultInvariant DEF LeasesLast, LetRun
<1> QED
  BY <1>1, <1>2, PTL

-----------------------------------------------------------------------------
(* A run that has ended stays ended. *)

\* A write that leaves the state of a row, or does not revive a row that has
\* ended.
Final(row, old) ==
    old.state \in TerminalStates /\ row.state # old.state
        => row.state \in {"canceling", "canceled", "failed"}

\* A run that has ended was written more than once: a worker that submitted
\* it, or that found it without a remote id, has lost its compare-and-swap.
LEMMA WritesFinal ==
    ASSUME NEW row \in RunRow, NEW rev, NEW k, NEW due \in BOOLEAN, NEW id
    PROVE  /\ Final(Unleased(row, k), row) /\ Final(Leased(row, k), row)
           /\ Final(Unleased(Postponed(row, rev), k), row) /\ Final(Postponed(row, rev), row)
           /\ Final(MarkedCanceling(row), row)
           /\ Final(Moved(row, rev, "canceling", TRUE), row)
           /\ \A state \in {"failed", "canceled"} :
                Final(Unleased(Ended(row, rev, state), k), row) /\ Final(Ended(row, rev, state), row)
           /\ \A state : isNonTerminalRunState(row) \/ row.rev # rev =>
                /\ Final(Unleased(Moved(row, rev, state, due), k), row)
                /\ Final(Moved(row, rev, state, due), row)
                /\ Final(Unleased(Stored(row, rev, state, id), k), row)
                /\ Final(Stored(row, rev, state, id), row)
                /\ Final(Unleased(Ended(row, rev, state), k), row)
<1> USE DEF Final, RunRow, TerminalStates, NonTerminalStates, isNonTerminalRunState
<1>1. /\ Final(Unleased(row, k), row) /\ Final(Leased(row, k), row)
      /\ Final(Postponed(row, rev), row) /\ Final(MarkedCanceling(row), row)
      /\ Final(Moved(row, rev, "canceling", TRUE), row)
  BY DEF Unleased, Leased, Postponed, MarkedCanceling, Moved
<1>2. Final(Unleased(Postponed(row, rev), k), row)
  BY DEF Unleased, Postponed
<1>3. \A state \in {"failed", "canceled"} :
        Final(Unleased(Ended(row, rev, state), k), row) /\ Final(Ended(row, rev, state), row)
  BY DEF Unleased, Ended
<1>4. ASSUME NEW state, isNonTerminalRunState(row)
      PROVE  \A r : Final(r, row)
  BY <1>4
<1>5. ASSUME NEW state, row.rev # rev
      PROVE  /\ Final(Unleased(Moved(row, rev, state, due), k), row)
             /\ Final(Moved(row, rev, state, due), row)
             /\ Final(Unleased(Stored(row, rev, state, id), k), row)
             /\ Final(Stored(row, rev, state, id), row)
             /\ Final(Unleased(Ended(row, rev, state), k), row)
  <2>1. Moved(row, rev, state, due) = row /\ Stored(row, rev, state, id) = row /\ Ended(row, rev, state) = row
    BY <1>5 DEF Moved, Stored, Ended
  <2> QED
    BY <1>1, <2>1
<1> HIDE DEF Final
<1> QED
  BY <1>1, <1>2, <1>3, <1>4, <1>5

\* Only one row changes, and it is not revived.
LEMMA OneFinal ==
    ASSUME NEW a, NEW row, runs \in [Attempts -> RunRow], runs' = [runs EXCEPT ![a] = row],
           a \in Attempts => Final(row, runs[a])
    PROVE  \A b \in Attempts : Final(runs'[b], runs[b])
BY DEF Final

LEMMA FinalStep ==
    ASSUME LeasesLast, ResultInv, [Next]_vars
    PROVE  \A b \in Attempts : Final(runs'[b], runs[b])
<1> DEFINE Goal == \A b \in Attempts : Final(runs'[b], runs[b])
<1>0. /\ AsyncInv /\ Rows /\ LetRun /\ runs \in [Attempts -> RunRow]
      /\ worker \in [Workers -> Worker]
  BY Shapes DEF ResultInv, LeasesLast, AsyncInv
<1>1. CASE UNCHANGED runs
  BY <1>1 DEF Final
<1>2. ASSUME NEW k \in Workers, WorkerStep(k) \/ WorkerFault(k)
      PROVE  Goal
  <2> DEFINE a == worker[k].run
  <2>0. Bound(k) => a \in Attempts /\ Exists(runs[a])
    BY <1>0 DEF Bound, AsyncInv, AsyncCore, InHand
  <2>1. CASE \/ ClaimJob(k) \/ CancelAtClaim(k) \/ CancelClaimed(k) \/ PreprocessFails(k)
             \/ DenyCapacity(k) \/ Requeue(k) \/ ModelNotFound(k) \/ InputsFail(k) \/ Submit(k)
             \/ RetryConflict(k) \/ ImportOutputs(k) \/ Poll(k) \/ Crash(k)
    BY <1>1, <2>1 DEF ClaimJob, CancelAtClaim, CancelClaimed, PreprocessFails, DenyCapacity, Requeue,
         ModelNotFound, InputsFail, Submit, RetryConflict, ImportOutputs, Poll, Crash, outside
  <2>2. CASE IgnoreClaim(k) \/ PollMessage(k) \/ ContinueClaimed(k)
    <3>1. UNCHANGED runs \/ \E b \in Attempts : runs' = [runs EXCEPT ![b] = Leased(runs[b], k)]
      BY <2>2 DEF IgnoreClaim, PollMessage, ContinueClaimed, PollFrom
    <3> QED
      BY <1>0, <1>1, <3>1, WritesFinal, OneFinal
  <2>3. CASE AcquireCapacity(k)
    <3>1. runs' = [runs EXCEPT ![a] = createProviderRun(runs[a])]
          /\ worker[k].pc = "acquire"
      BY <2>3 DEF AcquireCapacity
    <3>2. a \in Attempts => ~Exists(runs[a])
      BY <1>0, <3>1 DEF AsyncInv, AsyncCore, InHand
    <3>3. a \in Attempts => Final(createProviderRun(runs[a]), runs[a])
      BY <3>2 DEF Final, Exists, TerminalStates
    <3> QED
      BY <1>0, <3>1, <3>3, OneFinal
  <2>4. CASE \/ SubmitFailed(k) \/ ResultFailed(k) \/ CountMismatch(k) \/ PollFailed(k)
             \/ PollJobDeleted(k) \/ ResultCanceled(k) \/ FinishCancel(k)
    <3>1. \E rev : \E state \in {"failed", "canceled"} :
             runs' = [runs EXCEPT ![a] = Unleased(Ended(runs[a], rev, state), k)]
      BY <2>4 DEF SubmitFailed, ResultFailed, CountMismatch, PollFailed, PollJobDeleted,
           ResultCanceled, FinishCancel, failRunTerminal, cancelJobWithRun
    <3> HIDE DEF a
    <3> QED
      BY <1>0, <3>1, WritesFinal, OneFinal
  <2>5. CASE retrySyncSubmit(k)
    BY <1>0, <2>5 DEF retrySyncSubmit, MayRetrySubmit, LetRun
  <2>6. CASE ImportFails(k) \/ PollThrows(k) \/ PersistRefused(k) \/ PollTemporary(k)
    <3>1. \E rev : \/ runs' = [runs EXCEPT ![a] = Unleased(runs[a], k)]
                   \/ runs' = [runs EXCEPT ![a] = Unleased(Postponed(runs[a], rev), k)]
      BY <2>6 DEF ImportFails, PollThrows, PersistRefused, PollTemporary, Throw
    <3> HIDE DEF a
    <3> QED
      BY <1>0, <3>1, WritesFinal, OneFinal
  <2>7. CASE RequestCancel(k) \/ RequestCancelFails(k)
    <3>1. \/ UNCHANGED runs
          \/ \E rev : runs' = [runs EXCEPT ![a] = Moved(runs[a], rev, "canceling", TRUE)]
      BY <2>7 DEF RequestCancel, RequestCancelFails
    <3> HIDE DEF a
    <3> QED
      BY <1>0, <1>1, <3>1, WritesFinal, OneFinal
  <2>8. CASE CatchFailure(k)
    BY <1>0, <2>8, WritesFinal DEF CatchFailure, Final
  <2>9. ASSUME NEW rev, NEW state, NEW due \in BOOLEAN, NEW id,
               a \in Attempts => isNonTerminalRunState(runs[a]) \/ runs[a].rev # rev,
               \/ runs' = [runs EXCEPT ![a] = Moved(runs[a], rev, state, due)]
               \/ runs' = [runs EXCEPT ![a] = Unleased(Moved(runs[a], rev, state, due), k)]
               \/ runs' = [runs EXCEPT ![a] = Stored(runs[a], rev, state, id)]
               \/ runs' = [runs EXCEPT ![a] = Unleased(Stored(runs[a], rev, state, id), k)]
               \/ runs' = [runs EXCEPT ![a] = Unleased(Ended(runs[a], rev, state), k)]
        PROVE  Goal
    <3> HIDE DEF a, Goal
    <3>1. PICK row : /\ runs' = [runs EXCEPT ![a] = row]
                     /\ a \in Attempts => Final(row, runs[a])
      <4>1. a \in Attempts =>
              /\ Final(Unleased(Moved(runs[a], rev, state, due), k), runs[a])
              /\ Final(Moved(runs[a], rev, state, due), runs[a])
              /\ Final(Unleased(Stored(runs[a], rev, state, id), k), runs[a])
              /\ Final(Stored(runs[a], rev, state, id), runs[a])
              /\ Final(Unleased(Ended(runs[a], rev, state), k), runs[a])
        BY <1>0, <2>9, WritesFinal
      <4> QED
        BY <2>9, <4>1
    <3> QED
      BY <1>0, <3>1, OneFinal DEF Goal
  <2>10. CASE SubmitUnclear(k) \/ SubmitStored(k)
    <3>1. worker[k].pc = "submit_settle"
      BY <2>10 DEF SubmitUnclear, SubmitStored, Settling
    <3>2. PICK state, id :
             \/ runs' = [runs EXCEPT ![a] = Moved(runs[a], worker[k].rev, state, FALSE)]
             \/ runs' = [runs EXCEPT ![a] = Stored(runs[a], worker[k].rev, state, id)]
      BY <2>10 DEF SubmitUnclear, SubmitStored
    <3>3. isNonTerminalRunState(runs[a]) \/ runs[a].rev # worker[k].rev
      BY <1>0, <2>0, <3>1 DEF Rows, Revisions, Bound, Unstarted, Live
    <3> DEFINE rev == worker[k].rev
    <3> HIDE DEF a, rev, Goal
    <3>4. CASE runs' = [runs EXCEPT ![a] = Moved(runs[a], rev, state, FALSE)]
      BY <2>9, <3>3, <3>4 DEF rev
    <3>5. CASE runs' = [runs EXCEPT ![a] = Stored(runs[a], rev, state, id)]
      BY <2>9, <3>3, <3>5 DEF rev
    <3> QED
      BY <3>2, <3>4, <3>5 DEF rev
  <2>11. CASE StartImport(k)
    <3>1. /\ worker[k].pc \in {"submit_settle", "poll_settle"} /\ worker[k].res = "succeeded"
          /\ runs' = [runs EXCEPT ![a] = Moved(runs[a], worker[k].rev, "importing", TRUE)]
      BY <2>11 DEF StartImport, Settled, Settling
    <3>2. isNonTerminalRunState(runs[a]) \/ runs[a].rev # worker[k].rev
      BY <1>0, <2>0, <3>1 DEF Rows, Revisions, Following, Follows, Bound, Unstarted, Live
    <3> HIDE DEF a, Goal
    <3> QED
      BY <2>9, <3>1, <3>2
  <2>12. CASE PollUnclear(k)
    <3>1. /\ worker[k].pc = "poll_settle" /\ worker[k].res = "no_remote"
          /\ runs' = [runs EXCEPT ![a] =
                        Unleased(Moved(runs[a], worker[k].rev, "submission_unknown", FALSE), k)]
      BY <2>12 DEF PollUnclear, Settling
    <3>2. isNonTerminalRunState(runs[a]) \/ runs[a].rev # worker[k].rev
      BY <1>0, <3>1 DEF Rows, Revisions, Live
    <3> HIDE DEF a, Goal
    <3> QED
      BY <2>9, <3>1, <3>2
  <2>13. CASE PollStored(k)
    <3>1. /\ Follows(k)
          /\ runs' = [runs EXCEPT ![a] =
                        Unleased(Stored(runs[a], worker[k].rev, worker[k].res, TRUE), k)]
      BY <2>13 DEF PollStored, Settling, Follows
    <3>2. isNonTerminalRunState(runs[a])
      BY <1>0, <3>1 DEF Rows, Following, Live
    <3> HIDE DEF a, Goal
    <3> QED
      BY <2>9, <3>1, <3>2
  <2>14. CASE PersistSuccess(k)
    <3>1. /\ worker[k].pc = "persist" /\ job.status = "running" /\ ~job.deleted
          /\ runs' = [runs EXCEPT ![a] =
                        Unleased(Ended(runs[a], worker[k].rev, "succeeded"), k)]
      BY <2>14 DEF PersistSuccess
    <3>2. isNonTerminalRunState(runs[a])
      <4>1. CASE worker[k].claimed
        BY <1>0, <2>0, <3>1, <4>1 DEF Claims, Claimable, Over, Live, Bound, Unstarted, AsyncInv, AsyncCore,
             BeforeRemote
      <4>2. CASE ~worker[k].claimed
        BY <1>0, <3>1, <4>2 DEF Rows, Following, Follows, Live
      <4> QED
        BY <4>1, <4>2
    <3> HIDE DEF a, Goal
    <3> QED
      BY <2>9, <3>1, <3>2
  <2> HIDE DEF Goal
  <2> QED
    BY <1>2, <2>1, <2>2, <2>3, <2>4, <2>5, <2>6, <2>7, <2>8, <2>10, <2>11, <2>12, <2>13, <2>14
       DEF WorkerStep, WorkerFault, Goal
<1>3. CASE UserStep
  <2>1. UNCHANGED runs \/ runs' = MarkRunsCanceling
    BY <1>3 DEF UserStep, cancelJob, retryJob, deleteJobWithAssets, deleteUser
  <2> QED
    BY <1>0, <1>1, <2>1, WritesFinal DEF MarkRunsCanceling
<1>4. CASE Maintenance
  BY <1>1, <1>4 DEF Maintenance, dispatchOutbox, handleCancellation, claimStalePending,
                    dispatchDueProviderRun, deleteDoomedObject, outside
<1>5. CASE Time
  <2>1. PICK a \in Attempts : \/ runs' = [runs EXCEPT ![a].lease = NoWorker]
                             \/ runs' = [runs EXCEPT ![a].due = TRUE]
    BY <1>5 DEF Time, ExpireLease, ActionFallsDue
  <2> QED
    BY <1>0, <2>1 DEF Final, RunRow
<1> QED
  BY <1>1, <1>2, <1>3, <1>4, <1>5 DEF Next, vars

\* TerminalRunFinal in the scope of ResultKept: a run that has ended is not
\* brought back to life by a worker that still works on it, nor made a
\* success of (updateProviderRunState's compare-and-swap on state_revision).
THEOREM EndedRunsStay ==
    ASSUME ~Synchronous, "retry" \notin Allowed, "expiry" \notin Allowed
    PROVE  Spec => TerminalRunFinal
<1>1. ResultInv /\ [Next]_vars =>
        [ \A a \in Attempts :
            runs[a].state \in TerminalStates /\ runs'[a].state # runs[a].state
              => runs'[a].state \in {"canceling", "canceled", "failed"} ]_runs
  BY FinalStep DEF Final, LeasesLast, LetRun
<1>2. Spec => []ResultInv
  BY ResultInvariant DEF LeasesLast, LetRun
<1> QED
  BY <1>1, <1>2, PTL DEF Spec, TerminalRunFinal
=============================================================================
