---------------------------- MODULE ModelCapacity ----------------------------
(***************************************************************************)
(* The jobs of one model against its concurrency_limit: acquireModelCapacity *)
(* statement by statement in the transactions of several workers, what a    *)
(* refused job does, the writes that end runs, and an administrator who     *)
(* changes the limit.                                                       *)
(*                                                                          *)
(* A client token names one attempt of one job.  What happens to a job      *)
(* between two acquisitions is GenerationJob's subject; here a worker       *)
(* takes a job from the queue (outbox and stream together, in order) and    *)
(* tries to acquire.                                                        *)
(***************************************************************************)
EXTENDS ProviderRun, Sequences, FiniteSets

CONSTANTS
    Tokens,     \* client tokens of the model's jobs
    NoToken,
    Limits,     \* values of concurrency_limit
    MaxRev      \* bound: a run at this revision is not moved again

ASSUME CapacityAssumption ==
    /\ IsFiniteSet(Tokens)
    /\ NoToken \notin Tokens
    /\ Limits \subseteq Nat \ {0}
    /\ MaxRev \in Nat

VARIABLES
    limit,      \* model_configs.concurrency_limit
    holder,     \* whose transaction holds the model row's FOR UPDATE lock
    runs,       \* provider_runs by client token
    tx,         \* the acquisition each worker is in
    queue,      \* jobs that wait for a worker, oldest first
    failed      \* jobs whose acquisition threw

vars == <<limit, holder, runs, tx, queue, failed>>

Tx == [ pc : {"idle", "claimed", "locked", "counted", "denied"},
        token : Tokens \cup {NoToken}, limit : Limits \cup {0}, count : Nat ]

Idle == [pc |-> "idle", token |-> NoToken, limit |-> 0, count |-> 0]

\* Rows, transactions and the queue have the shapes the code gives them.
TypeOK ==
    /\ limit \in Limits
    /\ holder \in Workers \cup {NoWorker}
    /\ runs \in [Tokens -> RunRow]
    /\ tx \in [Workers -> Tx]
    /\ queue \in Seq(Tokens)
    /\ failed \in SUBSET Tokens

Init ==
    /\ limit \in Limits
    /\ holder = NoWorker
    /\ runs = [t \in Tokens |-> NoRun]
    /\ tx = [w \in Workers |-> Idle]
    /\ queue = <<>>
    /\ failed = {}

\* A run that counts against the limit.
Counts(row) == row.reserved /\ isNonTerminalRunState(row)

Held == {t \in Tokens : Counts(runs[t])}

InFlight(t) ==
    \/ \E i \in DOMAIN queue : queue[i] = t
    \/ \E w \in Workers : tx[w].token = t

-----------------------------------------------------------------------------
(* acquireModelCapacity in the transaction of worker w *)

\* The worker takes the oldest job.
ClaimJob(w) ==
    /\ tx[w].pc = "idle"
    /\ queue # <<>>
    /\ tx' = [tx EXCEPT ![w].pc = "claimed", ![w].token = Head(queue)]
    /\ queue' = Tail(queue)
    /\ UNCHANGED <<limit, holder, runs, failed>>

\* Mutant: the row is read without FOR UPDATE.
ReadModel(w) ==
    /\ tx[w].pc = "claimed"
    /\ holder' = w
    /\ tx' = [tx EXCEPT ![w].pc = "locked", ![w].limit = limit]
    /\ UNCHANGED <<limit, runs, queue, failed>>

\* SELECT concurrency_limit ... FOR UPDATE waits for the lock.
LockModel(w) ==
    /\ tx[w].pc = "claimed"
    /\ holder = NoWorker
    /\ holder' = w
    /\ tx' = [tx EXCEPT ![w].pc = "locked", ![w].limit = limit]
    /\ UNCHANGED <<limit, runs, queue, failed>>

CountRuns(w) ==
    /\ tx[w].pc = "locked"
    /\ tx' = [tx EXCEPT ![w].pc = "counted", ![w].count = Cardinality(Held)]
    /\ UNCHANGED <<limit, holder, runs, queue, failed>>

\* activeCount >= limit: nothing was written; the commit frees the lock.
DenyCapacity(w) ==
    /\ tx[w].pc = "counted"
    /\ tx[w].count >= tx[w].limit
    /\ holder' = NoWorker
    /\ tx' = [tx EXCEPT ![w] = [Idle EXCEPT !.pc = "denied", !.token = tx[w].token]]
    /\ UNCHANGED <<limit, runs, queue, failed>>

\* Mutant: the refused job is only set back to 'queued'.
RequeueWithoutEvent(w) ==
    /\ tx[w].pc = "denied"
    /\ tx' = [tx EXCEPT ![w] = Idle]
    /\ UNCHANGED <<limit, holder, runs, queue, failed>>

\* processJob sets the refused job back to 'queued' and inserts its event.
Requeue(w) ==
    /\ tx[w].pc = "denied"
    /\ queue' = Append(queue, tx[w].token)
    /\ tx' = [tx EXCEPT ![w] = Idle]
    /\ UNCHANGED <<limit, holder, runs, failed>>

\* Below the limit: the run is created, or found by its token, and the commit
\* frees the lock.
Acquire(w) ==
    /\ tx[w].pc = "counted"
    /\ tx[w].count < tx[w].limit
    /\ runs' = [runs EXCEPT ![tx[w].token] = createProviderRun(@)]
    /\ holder' = NoWorker
    /\ tx' = [tx EXCEPT ![w] = Idle]
    /\ UNCHANGED <<limit, queue, failed>>

\* A statement throws or the connection is lost: rolled back.  The outer catch
\* fails the job (a crashed worker leaves it running); nobody tries again.
AcquireThrows(w) ==
    /\ tx[w].pc \in {"locked", "counted"}
    /\ holder' = NoWorker
    /\ failed' = failed \cup {tx[w].token}
    /\ tx' = [tx EXCEPT ![w] = Idle]
    /\ UNCHANGED <<limit, runs, queue>>

-----------------------------------------------------------------------------
(* The rest of the system *)

\* A job is created, or its next attempt or its owner's retry is enqueued.
EnqueueJob(t) ==
    /\ ~InFlight(t)
    /\ ~Exists(runs[t]) \/ runs[t].state \in TerminalStates
    /\ t \notin failed
    /\ queue' = Append(queue, t)
    /\ UNCHANGED <<limit, holder, runs, tx, failed>>

\* A worker, or the API, moves a run to a live state; which one makes no
\* difference to the limit.
RunMoves(t) ==
    /\ Exists(runs[t])
    /\ runs[t].rev < MaxRev
    /\ \E row \in { Moved(runs[t], runs[t].rev, "importing", TRUE),
                   MarkedCanceling(runs[t]) } :
        runs' = [runs EXCEPT ![t] = row]
    /\ UNCHANGED <<limit, holder, tx, queue, failed>>

\* A run ends, in whichever terminal state; the same statement releases its
\* capacity.
RunEnds(t) ==
    /\ isNonTerminalRunState(runs[t])
    /\ runs' = [runs EXCEPT ![t] = Ended(@, @.rev, "succeeded")]
    /\ UNCHANGED <<limit, holder, tx, queue, failed>>

\* An administrator's UPDATE of model_configs waits for the row lock.
upsertModel(n) ==
    /\ holder = NoWorker
    /\ limit' = n
    /\ UNCHANGED <<holder, runs, tx, queue, failed>>

-----------------------------------------------------------------------------
(* Specification *)

WorkerStep(w) ==
    \/ ClaimJob(w) \/ LockModel(w) \/ CountRuns(w)
    \/ DenyCapacity(w) \/ Requeue(w) \/ Acquire(w)

Next ==
    \/ \E w \in Workers : WorkerStep(w) \/ AcquireThrows(w)
    \/ \E t \in Tokens : EnqueueJob(t) \/ RunMoves(t) \/ RunEnds(t)
    \/ \E n \in Limits : upsertModel(n)

Spec == Init /\ [][Next]_vars

\* Workers keep consuming; PostgreSQL serves those who wait for a row lock in
\* turn (strong fairness of LockModel); every run ends.
Fairness ==
    /\ \A w \in Workers : WF_vars(WorkerStep(w)) /\ SF_vars(LockModel(w))
    /\ \A t \in Tokens : WF_vars(RunEnds(t))

FairSpec == Spec /\ Fairness

-----------------------------------------------------------------------------
(* Properties *)

Sem == INSTANCE CapacitySemaphore WITH Holders <- Tokens, held <- Held

\* The lock, the count and the writes of runs together are a counting
\* semaphore: a run starts to count only below the limit in force, whatever
\* other workers, cancellations and administrators do meanwhile.
ImplementsSemaphore == Sem!Spec

\* If every run ends, every job that waits gets its run, unless its acquisition
\* threw: a refusal never loses a job, and nobody waits behind the same lock
\* for ever.
EveryJobServed ==
    \A t \in Tokens : InFlight(t) ~> Exists(runs[t]) \/ t \in failed
=============================================================================
