------------------------------ MODULE CanvasAgent ------------------------------
(***************************************************************************)
(* The agent of one canvas: turns under a lease, the tool calls of a turn,   *)
(* the generations it proposes, and their confirmation.                     *)
(*                                                                          *)
(* A run is one POST /messages with its SSE loop, a confirmation one         *)
(* POST /confirm.  Lease tokens are fresh UUIDs; here the token is the run or *)
(* the confirmation that took the lease, which holds one at a time.  A        *)
(* pending job is named by its turn and the place of its call in the turn.   *)
(***************************************************************************)
EXTENDS Naturals, FiniteSets

CONSTANTS
    Runs,              \* requests to /messages under way
    Confirmations,     \* requests to /confirm under way
    UserMessages,      \* message ids a client sends with text
    EventMessages,     \* message ids a client sends when a job has ended
    MaxCalls,          \* maxToolCallsPerTurn
    MaxJobs,           \* maxJobsPerTurn
    MaxContinuations,  \* maxAutoContinuations
    MaxRevision,       \* bound on the saves of the canvas
    MaxRound,          \* bound on the tool calls of one answer of the model
    MaxFaults,         \* bound on disturbances
    NoTurn, NoToken

ASSUME BudgetAssumption ==
    MaxCalls \in Nat /\ MaxJobs \in Nat /\ MaxContinuations \in Nat /\ MaxRound \in Nat

\* A token belongs to one request, and an id to one kind of message.
ASSUME NamesAssumption ==
    /\ Runs \cap Confirmations = {} /\ NoToken \notin Runs \cup Confirmations
    /\ UserMessages \cap EventMessages = {} /\ NoTurn \notin UserMessages \cup EventMessages

VARIABLES
    canvas,      \* canvas_documents: revision, and whether it is still there
    session,     \* canvas_agent_sessions
    turns,       \* canvas_agent_turns, by message id
    transcript,  \* canvas_agent_messages of each turn
    pending,     \* canvas_agent_pending_jobs
    jobs,        \* pending jobs whose idempotency key has a generation job
    events,      \* canvas_agent_terminal_events: jobs whose end was told to the agent
    run,         \* per run: runAgent
    submit,      \* per run or confirmation: submitPending
    faults       \* disturbances so far

vars == <<canvas, session, turns, transcript, pending, jobs, events, run, submit, faults>>

Messages == UserMessages \cup EventMessages
Submitters == Runs \cup Confirmations
Ids == Messages \X (1 .. MaxCalls)
Final == {"completed", "failed", "canceled", "expired"}
NoJob == <<NoTurn, 0>>

Session == [turn : Messages \cup {NoTurn}, token : Runs \cup {NoToken}, lapsed : BOOLEAN,
            confirm : BOOLEAN, continuations : 0 .. MaxContinuations]
Turn == [status : {"none", "running"} \cup Final, base : 0 .. MaxRevision,
         confirm : BOOLEAN, job : Ids \cup {NoJob}]
NoTurnYet == [status |-> "none", base |-> 0, confirm |-> TRUE, job |-> NoJob]
Transcript == [user : 0 .. 1, calls : 0 .. MaxCalls + MaxRound, final : 0 .. 1]
Pending == [status : {"none", "pending", "submitting", "submitted", "rejected", "expired"},
            base : 0 .. MaxRevision, confirm : BOOLEAN, approved : BOOLEAN,
            token : Submitters \cup {NoToken}, lapsed : BOOLEAN, late : BOOLEAN]
NotProposed == [status |-> "none", base |-> 0, confirm |-> TRUE, approved |-> FALSE,
                token |-> NoToken, lapsed |-> FALSE, late |-> FALSE]
\* calls: made in the turn so far; todo: calls of the round still to be answered; left:
\* proposals to be submitted; ended: a proposal of the round is pending.
Run == [pc : {"idle", "recover", "chat", "execute", "submit", "store", "finish", "release"},
        turn : Messages \cup {NoTurn}, calls : 0 .. MaxCalls + MaxRound, todo : 0 .. MaxRound,
        left : SUBSET Ids, ended : BOOLEAN]
IdleRun == [pc |-> "idle", turn |-> NoTurn, calls |-> 0, todo |-> 0, left |-> {}, ended |-> FALSE]
NoSubmit == [pc |-> "no", id |-> NoJob]
Submit == [pc : {"no", "claimed", "created"}, id : Ids \cup {NoJob}]

\* Every variable has the shape the code gives it.
TypeOK ==
    /\ canvas \in [live : BOOLEAN, revision : 1 .. MaxRevision]
    /\ session \in Session
    /\ turns \in [Messages -> Turn]
    /\ transcript \in [Messages -> Transcript]
    /\ pending \in [Ids -> Pending]
    /\ jobs \subseteq Ids
    /\ events \subseteq Ids
    /\ run \in [Runs -> Run]
    /\ submit \in [Submitters -> Submit]
    /\ faults \in 0 .. MaxFaults

Init ==
    /\ canvas = [live |-> TRUE, revision |-> 1]
    /\ session = [turn |-> NoTurn, token |-> NoToken, lapsed |-> FALSE, confirm |-> TRUE,
                  continuations |-> 0]
    /\ turns = [m \in Messages |-> NoTurnYet]
    /\ transcript = [m \in Messages |-> [user |-> 0, calls |-> 0, final |-> 0]]
    /\ pending = [p \in Ids |-> NotProposed]
    /\ jobs = {}
    /\ events = {}
    /\ run = [r \in Runs |-> IdleRun]
    /\ submit = [s \in Submitters |-> NoSubmit]
    /\ faults = 0

ProposedBy(m) == {p \in Ids : p[1] = m /\ pending[p].status # "none"}
-----------------------------------------------------------------------------
(* PgAgentStore.start: one transaction under the lock on the session row.       *)
\* The slot is free, or its lease has lapsed.
SlotFree == session.turn = NoTurn \/ session.lapsed

\* Mutant: the turn that lost its lease stays running.
ClaimLeavingOthers(m, base, confirm, job) ==
    [turns EXCEPT ![m] = [status |-> "running", base |-> base, confirm |-> confirm, job |-> job]]

\* Turns whose lease lapsed and that nobody retried are expired by the next claim.
claimCanvasAgentTurn(m, base, confirm, job) ==
    [x \in Messages |->
        CASE x = m -> [status |-> "running", base |-> base, confirm |-> confirm, job |-> job]
          [] x # m /\ turns[x].status = "running" -> [turns[x] EXCEPT !.status = "expired"]
          [] OTHER -> turns[x]]

\* A turn retried after its lease lapsed resumes what it persisted, as read here: a job that
\* was being submitted, or that needs no confirmation, is submitted again.
Recovered(m) == {p \in ProposedBy(m) : pending[p].status \in {"pending", "submitting", "submitted"}}
ToSubmit(m, confirm) ==
    {p \in Recovered(m) : \/ pending[p].status = "submitting"
                          \/ pending[p].status = "pending" /\ ~ confirm}

Begin(r, m, confirm, job) ==
    /\ run[r].pc = "idle" /\ canvas.live
    /\ SlotFree
    /\ turns' = claimCanvasAgentTurn(m, canvas.revision, confirm, job)
    /\ transcript' = [transcript EXCEPT ![m].user = 1]
    /\ run' = [run EXCEPT ![r] = [IdleRun EXCEPT
                  !.pc = IF Recovered(m) = {} THEN "chat" ELSE "recover",
                  !.turn = m, !.calls = transcript[m].calls,
                  !.left = ToSubmit(m, confirm)]]
    /\ UNCHANGED <<canvas, pending, jobs, submit>>

Occupied(r, m, confirm) ==
    [session EXCEPT !.turn = m, !.token = r, !.lapsed = FALSE, !.confirm = confirm]

\* Mutant: a turn that is over is started again.
RetriesAnyTurn(m) == turns[m].status # "none" /\ turns[m].base = canvas.revision

\* The digest of a retry covers baseRevision and requireConfirmation, so they are the same.
Retries(m) == turns[m].status = "running" /\ turns[m].base = canvas.revision

beginCanvasAgentTurn(r, m, confirm) ==
    /\ m \in UserMessages
    /\ turns[m].status = "none" \/ (Retries(m) /\ confirm = turns[m].confirm)
    /\ Begin(r, m, confirm, NoJob)
    /\ session' = Occupied(r, m, confirm)
    /\ UNCHANGED events

MayContinue == session.continuations < MaxContinuations

\* The event, its counter and the turn are one transaction; a retry skips the first two.
beginCanvasAgentJobEventTurn(r, m, p) ==
    /\ m \in EventMessages
    /\ turns[m].status = "none"
    /\ pending[p].status = "submitted"
    /\ p \notin events
    /\ MayContinue
    /\ Begin(r, m, session.confirm, p)
    /\ session' = [Occupied(r, m, session.confirm) EXCEPT !.continuations = @ + 1]
    /\ events' = events \cup {p}

RetryJobEventTurn(r, m) ==
    /\ m \in EventMessages
    /\ Retries(m)
    /\ Begin(r, m, session.confirm, turns[m].job)
    /\ session' = Occupied(r, m, session.confirm)
    /\ UNCHANGED events
-----------------------------------------------------------------------------
(* runAgent                                                                     *)
\* Every write of a turn needs its lease: turn, token and clock.
HoldsLease(r) ==
    canvas.live /\ session.turn = run[r].turn /\ session.token = r /\ ~ session.lapsed

Leaves(r, pc) == run' = [run EXCEPT ![r] = [IdleRun EXCEPT !.pc = pc, !.turn = run[r].turn]]

\* The budget is used up, or the model answers without tool calls.
Chat(r) ==
    /\ run[r].pc = "chat"
    /\ Leaves(r, "finish")
    /\ UNCHANGED <<canvas, session, turns, transcript, pending, jobs, events, submit>>

\* The calls are persisted with interrupted results before the first is executed.
recordRound(r, n) ==
    /\ run[r].pc = "chat" /\ run[r].calls < MaxCalls
    /\ \/ /\ HoldsLease(r)
          /\ transcript' = [transcript EXCEPT ![run[r].turn].calls = run[r].calls + n]
          /\ run' = [run EXCEPT ![r].pc = "execute", ![r].todo = n, ![r].ended = FALSE]
       \/ /\ ~ HoldsLease(r)
          /\ Leaves(r, "release")
          /\ UNCHANGED transcript
    /\ UNCHANGED <<canvas, session, turns, pending, jobs, events, submit>>

CallId(r) == <<run[r].turn, run[r].calls + 1>>

\* Over the budget, after a pending call, invalid or a plain edit of the proposed scene:
\* only the result is stored.
ExecuteCall(r) ==
    /\ run[r].pc = "execute"
    /\ run' = [run EXCEPT ![r].pc = "store", ![r].calls = @ + 1]
    /\ UNCHANGED <<canvas, session, turns, transcript, pending, jobs, events, submit>>

MayPropose(r) ==
    /\ HoldsLease(r)
    /\ Cardinality(ProposedBy(run[r].turn)) < MaxJobs
    /\ turns[run[r].turn].base = canvas.revision

\* The pending job is committed before anything is submitted.
ProposeJob(r) ==
    /\ run[r].pc = "execute"
    /\ run[r].calls < MaxCalls /\ ~ run[r].ended
    /\ MayPropose(r)
    /\ pending' = [pending EXCEPT ![CallId(r)] =
                     [NotProposed EXCEPT !.status = "pending", !.base = canvas.revision,
                                         !.confirm = turns[run[r].turn].confirm]]
    /\ \/ /\ turns[run[r].turn].confirm
          /\ run' = [run EXCEPT ![r].calls = @ + 1, ![r].pc = "store", ![r].ended = TRUE]
       \/ /\ ~ turns[run[r].turn].confirm
          /\ run' = [run EXCEPT ![r].calls = @ + 1, ![r].pc = "submit", ![r].left = {CallId(r)}]
    /\ UNCHANGED <<canvas, session, turns, transcript, jobs, events, submit>>

StoreResult(r) ==
    /\ run[r].pc = "store"
    /\ \/ /\ HoldsLease(r)
          /\ IF run[r].todo = 1 /\ run[r].ended
               THEN Leaves(r, "finish")
               ELSE run' = [run EXCEPT ![r].todo = @ - 1,
                                       ![r].pc = IF run[r].todo = 1 THEN "chat" ELSE "execute"]
       \/ ~ HoldsLease(r) /\ Leaves(r, "release")
    /\ UNCHANGED <<canvas, session, turns, transcript, pending, jobs, events, submit>>

RecoveryDone(r) ==
    /\ run[r].pc = "recover" /\ run[r].left = {}
    /\ Leaves(r, "finish")
    /\ UNCHANGED <<canvas, session, turns, transcript, pending, jobs, events, submit>>

FreeSlot == [session EXCEPT !.turn = NoTurn, !.token = NoToken, !.lapsed = FALSE]

\* The last message and the end of the turn are one transaction.
finishCanvasAgentTurn(r) ==
    /\ run[r].pc = "finish"
    /\ \/ /\ HoldsLease(r)
          /\ transcript' = [transcript EXCEPT ![run[r].turn].final = @ + 1]
          /\ turns' = [turns EXCEPT ![run[r].turn].status = "completed"]
          /\ session' = FreeSlot
          /\ run' = [run EXCEPT ![r] = IdleRun]
       \/ ~ HoldsLease(r) /\ Leaves(r, "release") /\ UNCHANGED <<transcript, turns, session>>
    /\ UNCHANGED <<canvas, pending, jobs, events, submit>>

\* Releasing needs turn and token, but not that the lease is still in time.
MayRelease(r) == canvas.live /\ session.turn = run[r].turn /\ session.token = r

releaseCanvasAgentTurn(r) ==
    /\ run[r].pc = "release"
    /\ \/ /\ MayRelease(r)
          /\ session' = FreeSlot
          /\ \E status \in {"failed", "canceled"} :
                turns' = [turns EXCEPT ![run[r].turn].status = status]
       \/ ~ MayRelease(r) /\ UNCHANGED <<session, turns>>
    /\ run' = [run EXCEPT ![r] = IdleRun]
    /\ UNCHANGED <<canvas, transcript, pending, jobs, events, submit>>

\* The client leaves, the deadline passes or the provider fails; a generation that is
\* being created is not interrupted.
Abort(r) ==
    /\ run[r].pc \notin {"idle", "release"}
    /\ submit[r].pc # "created"
    /\ Leaves(r, "release")
    /\ submit' = [submit EXCEPT ![r] = NoSubmit]
    /\ UNCHANGED <<canvas, session, turns, transcript, pending, jobs, events>>
-----------------------------------------------------------------------------
(* submitPending                                                                *)
\* What a run does after submitPending returned, or threw.
Resumed(r, p, done) ==
    [run EXCEPT ![r] = CASE @.pc = "submit" -> [@ EXCEPT !.pc = "store", !.left = {}, !.ended = done]
                         [] @.pc = "recover" /\ done -> [@ EXCEPT !.left = run[r].left \ {p}]
                         [] OTHER -> [IdleRun EXCEPT !.pc = "release", !.turn = run[r].turn]]
Resume(s, p, done) ==
    run' = IF s \in Runs THEN Resumed(s, p, done) ELSE run

Submitted(row) == [row EXCEPT !.status = "submitted", !.token = NoToken, !.lapsed = FALSE]
Claimed(row, s, byUser) ==
    [row EXCEPT !.status = "submitting", !.token = s, !.lapsed = FALSE, !.approved = @ \/ byUser]
Claimable(row) ==
    \/ row.status = "pending" /\ ~ row.late
    \/ row.status = "submitting" /\ row.lapsed

\* claim: the transaction that commits before the generation is created.
ClaimAnswered(p) ==        \* submitted before, or its job is found under its key
    \/ pending[p].status = "submitted" /\ UNCHANGED pending
    \/ /\ p \in jobs /\ pending[p].status = "submitting" /\ pending[p].lapsed
       /\ pending' = [pending EXCEPT ![p] = Submitted(@)]

ClaimTaken(s, p, byUser) ==
    /\ p \notin jobs
    /\ pending[p].base = canvas.revision
    /\ Claimable(pending[p])
    /\ pending' = [pending EXCEPT ![p] = Claimed(@, s, byUser)]
    /\ submit' = [submit EXCEPT ![s] = [pc |-> "claimed", id |-> p]]

\* An outdated or late proposal expires; a claim in somebody else's hands, a model or a
\* source that changed is refused.
ClaimRefused(p) ==
    /\ pending[p].status # "submitted"
    /\ pending' = [pending EXCEPT ![p].status =
                     IF @ = "pending" /\ (pending[p].base # canvas.revision \/ pending[p].late)
                       THEN "expired" ELSE @]

Claim(s, p) ==
    /\ canvas.live
    /\ \/ ClaimAnswered(p) /\ Resume(s, p, TRUE) /\ UNCHANGED submit
       \/ ClaimTaken(s, p, s \in Confirmations) /\ UNCHANGED run
       \/ ClaimRefused(p) /\ Resume(s, p, FALSE) /\ UNCHANGED submit
    /\ UNCHANGED <<canvas, session, turns, transcript, jobs, events>>

ClaimByRun(r, p) ==
    /\ run[r].pc \in {"recover", "submit"} /\ submit[r] = NoSubmit /\ p \in run[r].left
    /\ Claim(r, p)

\* createGenerationJob is idempotent by created_by and key, and may refuse.
CreateGeneration(s) ==
    /\ submit[s].pc = "claimed"
    /\ \/ /\ jobs' = jobs \cup {submit[s].id}
          /\ submit' = [submit EXCEPT ![s].pc = "created"]
          /\ UNCHANGED run
       \/ /\ submit' = [submit EXCEPT ![s] = NoSubmit]
          /\ Resume(s, submit[s].id, FALSE)
          /\ UNCHANGED jobs
    /\ UNCHANGED <<canvas, session, turns, transcript, pending, events>>

\* The job is attached by the holder of the claim, or was by a later one.
completeCanvasAgentPendingJob(s) ==
    /\ submit[s].pc = "created"
    /\ LET p == submit[s].id
           mine == pending[p].status = "submitting" /\ pending[p].token = s /\ ~ pending[p].lapsed
       IN /\ pending' = IF canvas.live /\ mine THEN [pending EXCEPT ![p] = Submitted(@)] ELSE pending
          /\ Resume(s, p, canvas.live /\ (mine \/ pending[p].status = "submitted"))
    /\ submit' = [submit EXCEPT ![s] = NoSubmit]
    /\ UNCHANGED <<canvas, session, turns, transcript, jobs, events>>

\* POST /confirm.  `approved` records that the user said yes.
Approve(c, p) ==
    /\ submit[c] = NoSubmit
    /\ pending[p].status # "none"
    /\ Claim(c, p)

\* Mutant: a generation that is being created can be rejected.
RejectableUnlessSubmitted(p) == pending[p].status \in {"pending", "submitting"}

Rejectable(p) == pending[p].status = "pending"

rejectCanvasAgentPendingJob(p) ==
    /\ canvas.live
    /\ Rejectable(p)
    /\ pending' = [pending EXCEPT ![p].status = IF pending[p].late THEN "expired" ELSE "rejected"]
    /\ UNCHANGED <<canvas, session, turns, transcript, jobs, events, run, submit>>
-----------------------------------------------------------------------------
(* The canvas under the agent (see CanvasDocuments), time and crashes           *)
CanvasSaved ==
    /\ canvas.live /\ canvas.revision < MaxRevision
    /\ canvas' = [canvas EXCEPT !.revision = @ + 1]
    /\ UNCHANGED <<session, turns, transcript, pending, jobs, events, run, submit>>

CanvasDeleted ==
    /\ canvas.live
    /\ canvas' = [canvas EXCEPT !.live = FALSE]
    /\ UNCHANGED <<session, turns, transcript, pending, jobs, events, run, submit>>

LeaseLapses ==
    /\ session.turn # NoTurn /\ ~ session.lapsed
    /\ session' = [session EXCEPT !.lapsed = TRUE]
    /\ UNCHANGED <<canvas, turns, transcript, pending, jobs, events, run, submit>>

ClaimLapses(p) ==
    /\ pending[p].status = "submitting" /\ ~ pending[p].lapsed
    /\ pending' = [pending EXCEPT ![p].lapsed = TRUE]
    /\ UNCHANGED <<canvas, session, turns, transcript, jobs, events, run, submit>>

ProposalGetsLate(p) ==
    /\ pending[p].status = "pending" /\ ~ pending[p].late
    /\ pending' = [pending EXCEPT ![p].late = TRUE]
    /\ UNCHANGED <<canvas, session, turns, transcript, jobs, events, run, submit>>

\* The API process of a request dies between two of its transactions.
Crash(s) ==
    /\ submit[s] # NoSubmit \/ (s \in Runs /\ run[s] # IdleRun)
    /\ submit' = [submit EXCEPT ![s] = NoSubmit]
    /\ run' = IF s \in Runs THEN [run EXCEPT ![s] = IdleRun] ELSE run
    /\ UNCHANGED <<canvas, session, turns, transcript, pending, jobs, events>>

Start(r) ==
    \E m \in Messages :
        \/ \E confirm \in BOOLEAN : beginCanvasAgentTurn(r, m, confirm)
        \/ \E p \in Ids : beginCanvasAgentJobEventTurn(r, m, p)
        \/ RetryJobEventTurn(r, m)

Loop(r) ==
    \/ Chat(r) \/ ExecuteCall(r) \/ ProposeJob(r) \/ StoreResult(r)
    \/ \E n \in 1 .. MaxRound : recordRound(r, n)
    \/ \E p \in Ids : ClaimByRun(r, p)
    \/ RecoveryDone(r) \/ finishCanvasAgentTurn(r) \/ releaseCanvasAgentTurn(r)

\* What the loop and its user do, and what disturbs them.
Step ==
    \/ \E r \in Runs : Start(r) \/ Loop(r)
    \/ \E s \in Submitters : CreateGeneration(s) \/ completeCanvasAgentPendingJob(s)
    \/ \E p \in Ids : \/ \E c \in Confirmations : Approve(c, p)
                      \/ rejectCanvasAgentPendingJob(p)

Disturbance ==
    \/ CanvasSaved \/ CanvasDeleted
    \/ \E r \in Runs : Abort(r)
    \/ \E s \in Submitters : Crash(s)
    \/ LeaseLapses \/ \E p \in Ids : ClaimLapses(p) \/ ProposalGetsLate(p)

Next ==
    \/ Step /\ UNCHANGED faults
    \/ Disturbance /\ faults < MaxFaults /\ faults' = faults + 1

Spec == Init /\ [][Next]_vars
-----------------------------------------------------------------------------
\* canvas-agent.ts, claim and release: two tables agree about who runs.  Whoever dies,
\* takes over or comes late, a running turn is the one that holds the session's slot, and
\* a turn is completed exactly when its last message was written, once.
RunningTurnHoldsSlot == \A m \in Messages : turns[m].status = "running" <=> session.turn = m
OneLastMessage == \A m \in Messages : turns[m].status = "completed" <=> transcript[m].final = 1
TurnsConsistent == RunningTurnHoldsSlot /\ OneLastMessage

\* A turn that has ended is not started, ended or answered again.
TurnsStayOver ==
    [][\A m \in Messages : turns[m].status \in Final =>
          turns'[m].status = turns[m].status /\ transcript'[m] = transcript[m]]_vars

\* submit.ts and store.ts: no generation is ordered for a proposal that was rejected or
\* expired, nor, where confirmation was required, before the user approved it; and every
\* submitted proposal has its generation.
NoJobAfterRefusal == \A p \in jobs : pending[p].status \in {"submitting", "submitted"}
ApprovedWhereRequired == \A p \in jobs : pending[p].confirm => pending[p].approved
SubmittedHasJob == \A p \in Ids : pending[p].status = "submitted" => p \in jobs

\* The end of a job wakes the agent at most once, the session's counter counts these turns,
\* and no turn proposes more jobs than its budget, retries and takeovers included.
ContinuesOnce ==
    /\ \A m1, m2 \in EventMessages :
           turns[m1].job = turns[m2].job /\ turns[m1].status # "none" /\ turns[m2].status # "none"
              => m1 = m2
    /\ Cardinality(events) = session.continuations
    /\ events = {turns[m].job : m \in {x \in EventMessages : turns[x].status # "none"}}
WithinBudgets == ContinuesOnce /\ \A m \in Messages : Cardinality(ProposedBy(m)) <= MaxJobs

\* All of this together: what is ordered was wanted.
JobsWanted == NoJobAfterRefusal /\ ApprovedWhereRequired /\ SubmittedHasJob /\ WithinBudgets
=============================================================================
