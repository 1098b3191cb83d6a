----------------------------- MODULE ProviderRun -----------------------------
(***************************************************************************)
(* One row of provider_runs and the writes the repository offers on it:    *)
(* packages/database/src/repositories/provider-runs.ts.                    *)
(*                                                                         *)
(* Every state write of the worker is a compare-and-swap on                *)
(* state_revision; a write whose expected revision is stale changes        *)
(* nothing and returns null, which the callers ignore.  The operators      *)
(* below are pure: they take a row and return the row after the statement. *)
(*                                                                         *)
(* Abstractions: remote is "remote_id IS NOT NULL"; reserved is            *)
(* "capacity_state = 'reserved'" (the worker never writes 'pending');      *)
(* lease is the holder of an unexpired worker_lease_token; due is          *)
(* "next_action_at IS NULL OR next_action_at <= now()".                    *)
(***************************************************************************)
EXTENDS Naturals

CONSTANTS
    Workers,    \* worker processes (and maintenance ticks) that take leases
    NoWorker    \* no unexpired lease

ASSUME NoWorkerAssumption == NoWorker \notin Workers

NonTerminalStates ==
    {"submitting", "submission_unknown", "waiting", "importing", "canceling"}

TerminalStates == {"succeeded", "failed", "canceled"}

\* "none" stands for a row that has not been inserted.
RunRow ==
    [ state    : NonTerminalStates \cup TerminalStates \cup {"none"},
      rev      : Nat,
      remote   : BOOLEAN,
      reserved : BOOLEAN,
      lease    : Workers \cup {NoWorker},
      due      : BOOLEAN ]

NoRun ==
    [ state |-> "none", rev |-> 0, remote |-> FALSE, reserved |-> FALSE,
      lease |-> NoWorker, due |-> FALSE ]

\* The row acquireModelCapacity inserts: submitting, reserved, no
\* next_action_at (so it is due at once), revision 1.
NewRun ==
    [ state |-> "submitting", rev |-> 1, remote |-> FALSE, reserved |-> TRUE,
      lease |-> NoWorker, due |-> TRUE ]

Exists(row) == row.state # "none"

\* Mutant: every stored run counts as live.
AnyStoredRun(row) == Exists(row)

isNonTerminalRunState(row) == row.state \in NonTerminalStates

\* Mutant: the upsert reserves capacity for a row it found.
ReservedAgain(row) == IF Exists(row) THEN [row EXCEPT !.reserved = TRUE] ELSE NewRun

\* INSERT ... ON CONFLICT (client_token) DO UPDATE SET updated_at: a token
\* that was used before returns the row it found, whatever its state.
createProviderRun(row) == IF Exists(row) THEN row ELSE NewRun

\* updateProviderRunState with an operation_state and a next_action_at.
Moved(row, rev, state, due) ==
    IF row.rev = rev
      THEN [row EXCEPT !.rev = @ + 1, !.state = state, !.due = due]
      ELSE row

\* The same write storing the provider's answer about the remote task.
Stored(row, rev, state, remote) ==
    IF row.rev = rev
      THEN [row EXCEPT !.rev = @ + 1, !.state = state, !.remote = remote,
                       !.due = FALSE]
      ELSE row

\* updateProviderRunState with releaseCapacity (or completed, which implies it).
Ended(row, rev, state) ==
    IF row.rev = rev
      THEN [row EXCEPT !.rev = @ + 1, !.state = state, !.reserved = FALSE]
      ELSE row

\* updateProviderRunState that only pushes next_action_at.
Postponed(row, rev) ==
    IF row.rev = rev THEN [row EXCEPT !.rev = @ + 1, !.due = FALSE] ELSE row

\* Mutant: the lease is never written.
LeasedInMemory(row, k) == row

\* acquireWorkerLease: tokens are fresh UUIDs, so only a free or expired
\* lease can be taken.
Leased(row, k) == [row EXCEPT !.lease = k]

\* releaseWorkerLease: a no-op when the token is no longer k's.
Unleased(row, k) == IF row.lease = k THEN [row EXCEPT !.lease = NoWorker] ELSE row

\* Mutant: the other spelling of the state.
MarkedCancelled(row) ==
    IF row.state \in NonTerminalStates THEN [row EXCEPT !.state = "cancelled"] ELSE row

\* What the API does to the live runs of a job it cancels: a plain UPDATE
\* that leaves state_revision alone.
MarkedCanceling(row) ==
    IF row.state \in NonTerminalStates \ {"canceling"}
      THEN [row EXCEPT !.state = "canceling", !.due = TRUE]
      ELSE row
=============================================================================
