--------------------------- MODULE WorkspaceProofs ---------------------------
(***************************************************************************)
(* What a user works in, for every number of requests, confirmations,      *)
(* messages, calls, faults, files and assets: the agent of a canvas, the   *)
(* library and the images staged for a generation.                         *)
(*                                                                         *)
(* The agent of a canvas serves one request at a time because every write  *)
(* to the canvas, the turn or its transcript asks for the token of the     *)
(* session.  The argument follows that token (Slot): as long as it is a    *)
(* request's, the request's turn is the session's, is running, and its     *)
(* answer is not written yet.  That an order is wanted needs the history   *)
(* of its proposal: the tool calls of a turn are numbered, and only what   *)
(* was proposed under a confirmation has to be approved.                   *)
(*                                                                         *)
(* An image that is staged has at most one task, and the task tells how    *)
(* far the image is (Fitting, OneTask): so nothing is deleted under an     *)
(* image that a request names, and a task that ends leaves its upload to   *)
(* the image.                                                              *)
(***************************************************************************)
EXTENDS CanvasAgent, ReferenceUploads, LibraryView, SettingsConsole, FiniteSetTheorems,
        SequenceTheorems, TLAPS
-----------------------------------------------------------------------------
(* The agent of a canvas. *)
Ordering == {"submitting", "submitted"}
Proposed(p) == pending[p].status # "none"
Wanted(p) == pending[p].confirm => pending[p].approved

SessionRow == [turn : Messages \cup {NoTurn}, token : Runs \cup {NoToken}, lapsed : BOOLEAN,
               confirm : BOOLEAN, continuations : Nat]
TurnRow == [status : {"none", "running"} \cup Final, base : Nat, confirm : BOOLEAN,
            job : Ids \cup {NoJob}]
TranscriptRow == [user : 0 .. 1, calls : Nat, final : 0 .. 1]
PendingRow == [status : {"none", "pending", "submitting", "submitted", "rejected", "expired"},
               base : Nat, confirm : BOOLEAN, approved : BOOLEAN,
               token : Submitters \cup {NoToken}, lapsed : BOOLEAN, late : BOOLEAN]
RunState == [pc : {"idle", "recover", "chat", "execute", "submit", "store", "finish", "release"},
             turn : Messages \cup {NoTurn}, calls : Nat, todo : Nat, left : SUBSET Ids,
             ended : BOOLEAN]
CanvasTypes ==
    /\ canvas \in [live : BOOLEAN, revision : Nat]
    /\ session \in SessionRow
    /\ turns \in [Messages -> TurnRow]
    /\ transcript \in [Messages -> TranscriptRow]
    /\ pending \in [Ids -> PendingRow]
    /\ jobs \subseteq Ids
    /\ run \in [Runs -> RunState]
    /\ submit \in [Submitters -> Submit]

\* The slot of the session: its lease, its turn, and what the turn was started with.
Slot ==
    /\ session.turn = NoTurn <=> session.token = NoToken
    /\ TurnsConsistent
    /\ session.turn \in Messages => session.confirm = turns[session.turn].confirm

\* A request under way has a turn, and waits while it submits.
UnderWay ==
    /\ \A r \in Runs : run[r].pc # "idle" => run[r].turn \in Messages
    /\ \A r \in Runs : submit[r].pc # "no" =>
           run[r].pc \in {"recover", "submit"} /\ submit[r].id \in run[r].left

\* A proposal has the number of a call that its turn has recorded, and the turn's answer to
\* whether the user must confirm.
Numbered ==
    \A p \in Ids : Proposed(p) =>
        /\ p[2] <= transcript[p[1]].calls /\ turns[p[1]].status # "none"
        /\ turns[p[1]].status = "running" => pending[p].confirm = turns[p[1]].confirm

\* The run under the lease knows how many calls its turn has recorded; the next one has no
\* proposal yet.
Leased(r) == run[r].pc # "idle" /\ session.turn = run[r].turn /\ session.token = r
Behind(r) ==
    /\ run[r].todo >= 1
    /\ \A p \in Ids : Proposed(p) /\ p[1] = run[r].turn => p[2] <= run[r].calls
Counts(r) ==
    /\ run[r].pc = "chat" => run[r].calls = transcript[run[r].turn].calls
    /\ run[r].pc = "execute" =>
           Behind(r) /\ run[r].calls + run[r].todo = transcript[run[r].turn].calls
    /\ run[r].pc \in {"store", "submit"} =>
           Behind(r) /\ run[r].calls + run[r].todo = transcript[run[r].turn].calls + 1
Counted == \A r \in Runs : Leased(r) => Counts(r)

\* What is submitted, or about to be, was wanted and is in the hands of a claim.
Orders ==
    /\ \A p \in Ids : pending[p].status \in Ordering => Wanted(p)
    /\ \A r \in Runs : \A p \in run[r].left : Proposed(p) /\ Wanted(p)
    /\ \A s \in Submitters : submit[s].pc # "no" =>
           submit[s].id \in Ids /\ pending[submit[s].id].status \in Ordering
    /\ \A s \in Submitters : submit[s].pc = "created" => submit[s].id \in jobs
    /\ NoJobAfterRefusal /\ SubmittedHasJob

Woken == IsFiniteSet(events) /\ ContinuesOnce
Budgeted == \A m \in Messages : Cardinality(ProposedBy(m)) <= MaxJobs

CanvasInv == CanvasTypes /\ Slot /\ UnderWay /\ Numbered /\ Counted /\ Orders /\ Woken /\ Budgeted

-----------------------------------------------------------------------------
(* Most steps leave the session, the turns and the transcript alone, move one run, *)
(* and advance proposals.                                                             *)
Advances ==
    /\ pending' \in [Ids -> PendingRow]
    /\ \A p \in Ids :
         /\ Proposed(p)' <=> Proposed(p)
         /\ pending'[p].confirm = pending[p].confirm
         /\ pending[p].approved => pending'[p].approved
         /\ pending[p].status \in Ordering => pending'[p].status \in Ordering
         /\ pending'[p].status \in Ordering => Wanted(p)'
         /\ pending'[p].status = "submitted" => pending[p].status = "submitted" \/ p \in jobs

Moves(r) ==
    \/ run'[r] = run[r]
    \/ /\ run'[r].pc # "idle" => run'[r].turn \in Messages
       /\ run'[r].left \subseteq run[r].left
       /\ Leased(r)' => Counts(r)'

Submits(s) ==
    \/ submit'[s] = submit[s]
    \/ submit'[s].pc = "no"
    \/ /\ submit'[s].id \in Ids /\ pending'[submit'[s].id].status \in Ordering
       /\ submit'[s].pc = "created" => submit'[s].id \in jobs'

\* Nothing of the invariant is about how a proposal advances that was wanted.
LEMMA Works ==
    ASSUME CanvasInv, UNCHANGED <<session, turns, transcript, events>>,
           canvas' \in [live : BOOLEAN, revision : Nat], Advances,
           run' \in [Runs -> RunState], \A r \in Runs : Moves(r),
           submit' \in [Submitters -> Submit], \A s \in Submitters : Submits(s),
           \A r \in Runs : submit'[r].pc # "no" =>
              run'[r].pc \in {"recover", "submit"} /\ submit'[r].id \in run'[r].left,
           jobs \subseteq jobs', jobs' \subseteq Ids,
           \A p \in jobs' : p \in jobs \/ pending[p].status \in Ordering
    PROVE  CanvasInv'
<1> USE DEF CanvasInv
<1>1. CanvasTypes'
  BY DEF CanvasTypes, Advances
<1>2. Slot'
  BY DEF Slot, TurnsConsistent, RunningTurnHoldsSlot, OneLastMessage
<1>3. UnderWay'
  BY DEF UnderWay, Moves
<1>4. Numbered'
  BY DEF Numbered, Advances
<1>5. Counted'
  <2> SUFFICES ASSUME NEW r \in Runs, Leased(r)' PROVE Counts(r)'
    BY DEF Counted
  <2>1. CASE run'[r] = run[r]
    <3>1. Leased(r)
      BY <2>1 DEF Leased
    <3>2. Counts(r)
      BY <3>1 DEF Counted
    <3>3. Behind(r) => Behind(r)'
      BY <2>1 DEF Behind, Advances
    <3> QED
      BY <2>1, <3>2, <3>3 DEF Counts
  <2> QED
    BY <2>1 DEF Moves
<1>6. Orders'
  <2>1. \A p \in Ids : Wanted(p) => Wanted(p)'
    BY DEF Wanted, Advances, CanvasTypes
  <2>2. \A r \in Runs : \A p \in run'[r].left : Proposed(p)' /\ Wanted(p)'
    <3> SUFFICES ASSUME NEW r \in Runs, NEW p \in run'[r].left PROVE Proposed(p)' /\ Wanted(p)'
      OBVIOUS
    <3>1. p \in run[r].left /\ p \in Ids
      BY DEF Moves, RunState, CanvasTypes
    <3> QED
      BY <2>1, <3>1 DEF Orders, Advances
  <2>3. \A s \in Submitters : submit'[s].pc # "no" =>
           submit'[s].id \in Ids /\ pending'[submit'[s].id].status \in Ordering
    BY DEF Orders, Submits, Advances
  <2>4. \A s \in Submitters : submit'[s].pc = "created" => submit'[s].id \in jobs'
    BY DEF Orders, Submits
  <2>5. NoJobAfterRefusal'
    BY DEF Orders, NoJobAfterRefusal, Advances, Ordering, CanvasTypes
  <2>6. SubmittedHasJob'
    BY DEF Orders, SubmittedHasJob, Advances
  <2> QED
    BY <2>2, <2>3, <2>4, <2>5, <2>6 DEF Orders, Advances
<1>7. Woken'
  BY DEF Woken, ContinuesOnce
<1>8. Budgeted'
  BY DEF Budgeted, ProposedBy, Advances, Proposed
<1> QED
  BY <1>1, <1>2, <1>3, <1>4, <1>5, <1>6, <1>7, <1>8

\* Proposals that nobody touches advance, and so do those of which only the times run out.
LEMMA Standing ==
    ASSUME CanvasInv, UNCHANGED pending
    PROVE  Advances
BY DEF CanvasInv, CanvasTypes, Orders, Advances, Proposed, Wanted

\* A run that leaves its loop keeps its turn and has nothing left to submit.
LEMMA Left ==
    ASSUME CanvasTypes, NEW r \in Runs, NEW pc \in {"finish", "release"}, Leaves(r, pc),
           run[r].turn \in Messages
    PROVE  /\ run' \in [Runs -> RunState] /\ run'[r].pc = pc /\ \A q \in Runs : Moves(q)
           /\ run'[r].turn = run[r].turn
           /\ \A q \in Runs \ {r} : run'[q] = run[q]
<1> DEFINE x == [IdleRun EXCEPT !.pc = pc, !.turn = run[r].turn]
<1>1. x \in RunState /\ x.pc = pc /\ x.turn = run[r].turn /\ x.left = {}
  BY DEF IdleRun, RunState
<1>2. run' = [run EXCEPT ![r] = x]
  BY DEF Leaves
<1> HIDE DEF x
<1>3. run' \in [Runs -> RunState] /\ run'[r] = x /\ \A q \in Runs \ {r} : run'[q] = run[q]
  BY <1>1, <1>2 DEF CanvasTypes
<1>4. Moves(r)
  BY <1>1, <1>3 DEF Moves, Counts
<1> QED
  BY <1>1, <1>3, <1>4 DEF Moves

\* A run that ends.
LEMMA Rests ==
    ASSUME CanvasTypes, NEW r \in Runs, run' = [run EXCEPT ![r] = IdleRun]
    PROVE  /\ run' \in [Runs -> RunState] /\ run'[r].pc = "idle" /\ \A q \in Runs : Moves(q)
           /\ \A q \in Runs \ {r} : run'[q] = run[q]
<1>1. IdleRun \in RunState /\ IdleRun.pc = "idle" /\ IdleRun.left = {}
  BY DEF IdleRun, RunState
<1>3. run' \in [Runs -> RunState] /\ run'[r] = IdleRun /\ \A q \in Runs \ {r} : run'[q] = run[q]
  BY <1>1 DEF CanvasTypes
<1>4. Moves(r)
  BY <1>1, <1>3 DEF Moves, Leased
<1> QED
  BY <1>1, <1>3, <1>4 DEF Moves

\* A run that waited for its submission goes on behind the calls it has recorded.
LEMMA Resuming ==
    ASSUME CanvasInv, UNCHANGED <<session, turns, transcript>>, Advances,
           NEW s \in Submitters, NEW p, NEW done \in BOOLEAN, Resume(s, p, done),
           s \in Runs => run[s].pc \in {"recover", "submit"}
    PROVE  /\ run' \in [Runs -> RunState] /\ \A q \in Runs : Moves(q)
           /\ \A q \in Runs \ {s} : run'[q] = run[q]
<1>1. CASE s \notin Runs
  BY <1>1 DEF Resume, Moves, CanvasInv, CanvasTypes
<1>2. CASE s \in Runs
  <2>0. run[s] \in RunState /\ run[s].turn \in Messages
    BY <1>2 DEF CanvasInv, CanvasTypes, UnderWay
  <2>1. CASE run[s].pc = "submit"
    <3> DEFINE x == [run[s] EXCEPT !.pc = "store", !.left = {}, !.ended = done]
    <3>1. /\ x \in RunState /\ x.pc = "store" /\ x.left = {} /\ x.turn = run[s].turn
          /\ x.calls = run[s].calls /\ x.todo = run[s].todo
      BY <2>0 DEF RunState
    <3>2. run' = [run EXCEPT ![s] = x]
      BY <1>2, <2>1 DEF Resume, Resumed
    <3> HIDE DEF x
    <3>3. run' \in [Runs -> RunState] /\ run'[s] = x /\ \A q \in Runs \ {s} : run'[q] = run[q]
      BY <1>2, <3>1, <3>2 DEF CanvasInv, CanvasTypes
    <3>4. Leased(s)' => Leased(s) /\ Counts(s)
      BY <1>2, <2>1, <3>1, <3>3 DEF Leased, CanvasInv, Counted
    <3>5. Behind(s) => Behind(s)'
      BY <3>1, <3>3 DEF Behind, Advances
    <3>6. Moves(s)
      BY <2>0, <2>1, <3>1, <3>3, <3>4, <3>5 DEF Moves, Counts
    <3> QED
      BY <3>3, <3>6 DEF Moves
  <2>2. CASE run[s].pc = "recover" /\ done
    <3> DEFINE x == [run[s] EXCEPT !.left = run[s].left \ {p}]
    <3>1. x \in RunState /\ x.pc = "recover" /\ x.left \subseteq run[s].left /\ x.turn = run[s].turn
      BY <2>0, <2>2 DEF RunState
    <3>2. run' = [run EXCEPT ![s] = x]
      BY <1>2, <2>2 DEF Resume, Resumed
    <3> HIDE DEF x
    <3>3. run' \in [Runs -> RunState] /\ run'[s] = x /\ \A q \in Runs \ {s} : run'[q] = run[q]
      BY <1>2, <3>1, <3>2 DEF CanvasInv, CanvasTypes
    <3>4. Moves(s)
      BY <2>0, <3>1, <3>3 DEF Moves, Counts
    <3> QED
      BY <3>3, <3>4 DEF Moves
  <2>3. CASE run[s].pc = "recover" /\ ~ done
    <3>1. Leaves(s, "release")
      BY <1>2, <2>3 DEF Resume, Resumed, Leaves
    <3> QED
      BY <1>2, <2>0, <3>1, Left DEF CanvasInv
  <2> QED
    BY <1>2, <2>1, <2>2, <2>3
<1> QED
  BY <1>1, <1>2

\* A claim, by a run for one of its own proposals or by the user for any.
LEMMA Claiming ==
    ASSUME CanvasInv, NEW s \in Submitters, NEW p \in Ids, Claim(s, p), submit[s] = NoSubmit,
           \/ s \in Runs /\ run[s].pc \in {"recover", "submit"} /\ p \in run[s].left
           \/ s \in Confirmations /\ Proposed(p)
    PROVE  CanvasInv'
<1>0. /\ UNCHANGED <<canvas, session, turns, transcript, jobs, events>> /\ CanvasTypes
      /\ pending[p] \in PendingRow /\ Proposed(p)
      /\ s \in Runs => s \notin Confirmations /\ Wanted(p)
  BY NamesAssumption DEF Claim, CanvasInv, CanvasTypes, Orders
<1>1. CASE ClaimAnswered(p) /\ Resume(s, p, TRUE) /\ UNCHANGED submit
  <2>1. Advances
    <3>1. CASE UNCHANGED pending
      BY <3>1, Standing
    <3>2. CASE /\ p \in jobs /\ pending[p].status = "submitting"
               /\ pending' = [pending EXCEPT ![p] = Submitted(@)]
      <4> DEFINE x == Submitted(pending[p])
      <4>1. /\ x \in PendingRow /\ x.status = "submitted" /\ x.confirm = pending[p].confirm
            /\ x.approved = pending[p].approved
        BY <1>0 DEF Submitted, PendingRow
      <4>2. pending' = [pending EXCEPT ![p] = x]
        BY <3>2
      <4> HIDE DEF x
      <4> QED
        BY <1>0, <3>2, <4>1, <4>2 DEF Advances, CanvasInv, CanvasTypes, Orders, Proposed, Wanted, Ordering
    <3> QED
      BY <1>1, <3>1, <3>2 DEF ClaimAnswered
  <2>2. /\ run' \in [Runs -> RunState] /\ \A q \in Runs : Moves(q)
        /\ \A q \in Runs \ {s} : run'[q] = run[q]
    BY <1>0, <1>1, <2>1, Resuming
  <2>3. \A r \in Runs : submit'[r].pc # "no" =>
           run'[r].pc \in {"recover", "submit"} /\ submit'[r].id \in run'[r].left
    BY <1>1, <2>2 DEF CanvasInv, UnderWay, NoSubmit
  <2>4. canvas' \in [live : BOOLEAN, revision : Nat] /\ submit' \in [Submitters -> Submit]
        /\ (\A x \in Submitters : Submits(x)) /\ jobs' \subseteq Ids
    BY <1>0, <1>1 DEF CanvasTypes, Submits
  <2> QED
    BY <1>0, <2>1, <2>2, <2>3, <2>4, Works
<1>2. CASE ClaimTaken(s, p, s \in Confirmations) /\ UNCHANGED run
  <2> DEFINE x == Claimed(pending[p], s, s \in Confirmations)
  <2>1. /\ x \in PendingRow /\ x.status = "submitting" /\ x.confirm = pending[p].confirm
        /\ x.approved = (pending[p].approved \/ s \in Confirmations)
    BY <1>0 DEF Claimed, PendingRow
  <2>2. /\ pending' = [pending EXCEPT ![p] = x] /\ p \notin jobs
        /\ pending[p].status \in {"pending", "submitting"}
    <3>1. pending' = [pending EXCEPT ![p] = x]
      BY <1>2 DEF ClaimTaken
    <3>2. p \notin jobs /\ pending[p].status \in {"pending", "submitting"}
      BY <1>2 DEF ClaimTaken, Claimable
    <3> QED
      BY <3>1, <3>2
  <2> HIDE DEF x
  <2>3. Advances
    BY <1>0, <2>1, <2>2 DEF Advances, CanvasInv, CanvasTypes, Orders, Proposed, Wanted, Ordering
  <2>4. /\ submit' = [submit EXCEPT ![s] = [pc |-> "claimed", id |-> p]]
        /\ [pc |-> "claimed", id |-> p] \in Submit
    BY <1>2 DEF ClaimTaken, Submit
  <2>5. submit' \in [Submitters -> Submit] /\ \A y \in Submitters : Submits(y)
    BY <1>0, <2>1, <2>2, <2>4 DEF Submits, CanvasTypes, Ordering
  <2>6. \A r \in Runs : submit'[r].pc # "no" =>
           run'[r].pc \in {"recover", "submit"} /\ submit'[r].id \in run'[r].left
    <3>1. /\ \A r \in Runs : r # s => submit'[r] = submit[r]
          /\ submit'[s].id = p /\ p \in Ids
      BY <2>4, <1>0 DEF CanvasTypes, Submitters
    <3> QED
      BY <1>0, <1>2, <3>1, NamesAssumption DEF CanvasInv, UnderWay
  <2>7. /\ canvas' \in [live : BOOLEAN, revision : Nat] /\ run' \in [Runs -> RunState]
        /\ (\A r \in Runs : Moves(r)) /\ jobs' \subseteq Ids
    BY <1>0, <1>2 DEF CanvasTypes, Moves
  <2> QED
    BY <1>0, <2>3, <2>5, <2>6, <2>7, Works
<1>3. CASE ClaimRefused(p) /\ Resume(s, p, FALSE) /\ UNCHANGED submit
  <2>1. Advances
    <3> DEFINE st == IF pending[p].status = "pending" /\ (pending[p].base # canvas.revision \/ pending[p].late)
                       THEN "expired" ELSE pending[p].status
               x == [pending[p] EXCEPT !.status = st]
    <3>1. st = pending[p].status \/ (pending[p].status = "pending" /\ st = "expired")
      OBVIOUS
    <3>2. pending' = [pending EXCEPT ![p] = x]
      BY <1>3 DEF ClaimRefused
    <3> HIDE DEF st
    <3>3. /\ x \in PendingRow /\ x.status = st /\ x.confirm = pending[p].confirm
          /\ x.approved = pending[p].approved
      BY <1>0, <3>1 DEF PendingRow
    <3> HIDE DEF x
    <3> QED
      BY <1>0, <3>1, <3>2, <3>3 DEF Advances, CanvasInv, CanvasTypes, Orders, Proposed, Wanted, Ordering
  <2>2. /\ run' \in [Runs -> RunState] /\ \A q \in Runs : Moves(q)
        /\ \A q \in Runs \ {s} : run'[q] = run[q]
    BY <1>0, <1>3, <2>1, Resuming
  <2>3. \A r \in Runs : submit'[r].pc # "no" =>
           run'[r].pc \in {"recover", "submit"} /\ submit'[r].id \in run'[r].left
    BY <1>3, <2>2 DEF CanvasInv, UnderWay, NoSubmit
  <2>4. canvas' \in [live : BOOLEAN, revision : Nat] /\ submit' \in [Submitters -> Submit]
        /\ (\A x \in Submitters : Submits(x)) /\ jobs' \subseteq Ids
    BY <1>0, <1>3 DEF CanvasTypes, Submits
  <2> QED
    BY <1>0, <2>1, <2>2, <2>3, <2>4, Works
<1> QED
  BY <1>1, <1>2, <1>3 DEF Claim

\* A run that moves by itself: nothing is submitted, and no proposal is touched.
LEMMA Alone ==
    ASSUME CanvasInv, UNCHANGED <<canvas, session, turns, transcript, pending, jobs, events, submit>>,
           run' \in [Runs -> RunState], \A r \in Runs : Moves(r),
           \A r \in Runs : submit[r].pc # "no" =>
              run'[r].pc \in {"recover", "submit"} /\ submit[r].id \in run'[r].left
    PROVE  CanvasInv'
<1>1. Advances
  BY Standing
<1>2. /\ canvas' \in [live : BOOLEAN, revision : Nat] /\ jobs' \subseteq Ids
      /\ submit' \in [Submitters -> Submit] /\ \A s \in Submitters : Submits(s)
  BY DEF CanvasInv, CanvasTypes, Submits
<1> QED
  BY <1>1, <1>2, Works

LEMMA Looping ==
    ASSUME CanvasInv, NEW r \in Runs,
           Chat(r) \/ ExecuteCall(r) \/ StoreResult(r) \/ RecoveryDone(r)
    PROVE  CanvasInv'
<1>0. /\ UNCHANGED <<canvas, session, turns, transcript, pending, jobs, events, submit>>
      /\ CanvasTypes /\ run[r] \in RunState /\ run[r].pc # "idle" /\ run[r].turn \in Messages
      /\ \A q \in Runs : submit[q].pc # "no" =>
           run[q].pc \in {"recover", "submit"} /\ submit[q].id \in run[q].left
  BY DEF Chat, ExecuteCall, StoreResult, RecoveryDone, CanvasInv, CanvasTypes, UnderWay
<1>1. ASSUME NEW pc \in {"finish", "release"}, Leaves(r, pc), submit[r].pc = "no"
      PROVE  CanvasInv'
  <2>1. /\ run' \in [Runs -> RunState] /\ (\A q \in Runs : Moves(q))
        /\ \A q \in Runs \ {r} : run'[q] = run[q]
    BY <1>0, <1>1, Left
  <2> QED
    BY <1>0, <1>1, <2>1, Alone
<1>2. CASE Chat(r)
  <2>1. submit[r].pc = "no"
    BY <1>0, <1>2 DEF Chat
  <2> QED
    BY <1>1, <1>2, <2>1 DEF Chat
<1>3. CASE ExecuteCall(r)
  <2> DEFINE x == [run[r] EXCEPT !.pc = "store", !.calls = @ + 1]
  <2>1. /\ x \in RunState /\ x.pc = "store" /\ x.left = run[r].left /\ x.turn = run[r].turn
        /\ x.calls = run[r].calls + 1 /\ x.todo = run[r].todo
    <3>1. run[r] \in RunState
      BY <1>0
    <3>2. run[r].calls + 1 \in Nat
      BY <3>1 DEF RunState
    <3> QED
      BY <3>1, <3>2 DEF RunState
  <2>2. run' = [run EXCEPT ![r] = x] /\ run[r].pc = "execute" /\ submit[r].pc = "no"
    BY <1>0, <1>3 DEF ExecuteCall
  <2> HIDE DEF x
  <2>3. run' \in [Runs -> RunState] /\ run'[r] = x /\ \A q \in Runs \ {r} : run'[q] = run[q]
    BY <1>0, <2>1, <2>2 DEF CanvasTypes
  <2>4. Leased(r)' => Leased(r) /\ Counts(r)
    BY <1>0, <2>1, <2>3 DEF Leased, CanvasInv, Counted
  <2>5. Behind(r) => Behind(r)'
    BY <1>0, <2>1, <2>3 DEF Behind, RunState, Proposed, Ids
  <2>6. transcript[run[r].turn].calls \in Nat /\ run[r].calls \in Nat /\ run[r].todo \in Nat
    BY <1>0 DEF CanvasTypes, TranscriptRow, RunState
  <2>7. Leased(r)' => Counts(r)'
    BY <1>0, <2>1, <2>2, <2>3, <2>4, <2>5, <2>6 DEF Counts
  <2>8. \A q \in Runs : Moves(q)
    BY <1>0, <2>1, <2>3, <2>7 DEF Moves
  <2> QED
    BY <1>0, <2>2, <2>3, <2>8, Alone
<1>4. CASE StoreResult(r)
  <2>0. run[r].pc = "store" /\ submit[r].pc = "no"
    BY <1>0, <1>4 DEF StoreResult
  <2>1. CASE Leaves(r, "finish") \/ Leaves(r, "release")
    BY <1>1, <2>0, <2>1
  <2>2. CASE run' = [run EXCEPT ![r].todo = @ - 1,
                                ![r].pc = IF run[r].todo = 1 THEN "chat" ELSE "execute"]
             /\ HoldsLease(r)
    <3>1. Leased(r) /\ Counts(r)
      BY <1>0, <2>2 DEF HoldsLease, Leased, CanvasInv, Counted
    <3>2. /\ run[r].todo \in Nat \ {0} /\ run[r].calls \in Nat /\ transcript[run[r].turn].calls \in Nat
          /\ Behind(r) /\ run[r].calls + run[r].todo = transcript[run[r].turn].calls + 1
      BY <1>0, <2>0, <3>1 DEF Counts, Behind, CanvasTypes, RunState, TranscriptRow
    <3> DEFINE pc == IF run[r].todo = 1 THEN "chat" ELSE "execute"
               x == [run[r] EXCEPT !.todo = @ - 1, !.pc = pc]
    <3>3. pc \in {"chat", "execute"} /\ (pc = "chat" <=> run[r].todo = 1)
      OBVIOUS
    <3>4. run' = [run EXCEPT ![r] = x]
      BY <1>0, <2>2 DEF CanvasTypes
    <3> HIDE DEF pc
    <3>5. /\ x \in RunState /\ x.pc = pc /\ x.left = run[r].left /\ x.turn = run[r].turn
          /\ x.calls = run[r].calls /\ x.todo = run[r].todo - 1
      <4>1. run[r] \in RunState
        BY <1>0
      <4>2. run[r].todo - 1 \in Nat
        BY <3>2
      <4> QED
        BY <3>3, <4>1, <4>2 DEF RunState
    <3> HIDE DEF x
    <3>6. run' \in [Runs -> RunState] /\ run'[r] = x /\ \A q \in Runs \ {r} : run'[q] = run[q]
      BY <1>0, <3>4, <3>5 DEF CanvasTypes
    <3>7. pc = "execute" => Behind(r)'
      BY <1>0, <3>2, <3>3, <3>5, <3>6 DEF Behind, Proposed
    <3>8. Counts(r)'
      BY <1>0, <3>2, <3>3, <3>5, <3>6, <3>7 DEF Counts
    <3>9. \A q \in Runs : Moves(q)
      BY <1>0, <3>5, <3>6, <3>8 DEF Moves
    <3> QED
      BY <1>0, <2>0, <3>6, <3>9, Alone
  <2> QED
    BY <1>4, <2>1, <2>2 DEF StoreResult
<1>5. CASE RecoveryDone(r)
  <2>1. submit[r].pc = "no"
    BY <1>0, <1>5 DEF RecoveryDone
  <2> QED
    BY <1>1, <1>5, <2>1 DEF RecoveryDone
<1> QED
  BY <1>2, <1>3, <1>4, <1>5

\* A request stops submitting.
LEMMA Stopped ==
    ASSUME CanvasTypes, NEW s \in Submitters, submit' = [submit EXCEPT ![s] = NoSubmit]
    PROVE  /\ submit' \in [Submitters -> Submit] /\ submit'[s].pc = "no"
           /\ (\A x \in Submitters : Submits(x))
           /\ \A x \in Submitters \ {s} : submit'[x] = submit[x]
<1>1. NoSubmit \in Submit /\ NoSubmit.pc = "no"
  BY DEF NoSubmit, Submit
<1> QED
  BY <1>1 DEF CanvasTypes, Submits

LEMMA Leaving ==
    ASSUME CanvasInv, NEW s \in Submitters, (s \in Runs /\ Abort(s)) \/ Crash(s)
    PROVE  CanvasInv'
<1>0. /\ UNCHANGED <<canvas, session, turns, transcript, pending, jobs, events>>
      /\ submit' = [submit EXCEPT ![s] = NoSubmit]
      /\ CanvasTypes /\ UnderWay
  BY DEF Abort, Crash, CanvasInv
<1>1. /\ submit' \in [Submitters -> Submit] /\ submit'[s].pc = "no"
      /\ (\A x \in Submitters : Submits(x))
      /\ \A x \in Submitters \ {s} : submit'[x] = submit[x]
  BY <1>0, Stopped
<1>2. /\ run' \in [Runs -> RunState] /\ (\A q \in Runs : Moves(q))
      /\ \A q \in Runs \ {s} : run'[q] = run[q]
  <2>1. CASE s \in Runs /\ Abort(s)
    <3>1. run[s].turn \in Messages
      BY <1>0, <2>1 DEF UnderWay, Abort
    <3> QED
      BY <1>0, <2>1, <3>1, Left DEF Abort
  <2>2. CASE Crash(s) /\ s \in Runs
    <3>1. run' = [run EXCEPT ![s] = IdleRun]
      BY <2>2 DEF Crash
    <3> QED
      BY <1>0, <2>2, <3>1, Rests
  <2>3. CASE Crash(s) /\ s \notin Runs
    BY <1>0, <2>3 DEF Crash, CanvasTypes, Moves
  <2> QED
    BY <2>1, <2>2, <2>3
<1>3. \A r \in Runs : submit'[r].pc # "no" =>
         run'[r].pc \in {"recover", "submit"} /\ submit'[r].id \in run'[r].left
  BY <1>0, <1>1, <1>2 DEF UnderWay, Submitters
<1>4. canvas' \in [live : BOOLEAN, revision : Nat] /\ jobs' \subseteq Ids
  BY <1>0 DEF CanvasTypes
<1> QED
  BY <1>0, <1>1, <1>2, <1>3, <1>4, Standing, Works

LEMMA Creating ==
    ASSUME CanvasInv, NEW s \in Submitters, CreateGeneration(s)
    PROVE  CanvasInv'
<1>0. /\ UNCHANGED <<canvas, session, turns, transcript, pending, events>>
      /\ CanvasTypes /\ UnderWay /\ submit[s].pc = "claimed" /\ submit[s].id \in Ids
      /\ pending[submit[s].id].status \in Ordering
      /\ s \in Runs => run[s].pc \in {"recover", "submit"}
  BY DEF CreateGeneration, CanvasInv, UnderWay, Orders
<1>1. Advances /\ canvas' \in [live : BOOLEAN, revision : Nat]
  BY <1>0, Standing DEF CanvasTypes
<1>2. CASE /\ jobs' = jobs \cup {submit[s].id}
           /\ submit' = [submit EXCEPT ![s].pc = "created"]
           /\ UNCHANGED run
  <2>1. /\ submit' \in [Submitters -> Submit] /\ submit'[s].id = submit[s].id
        /\ \A x \in Submitters \ {s} : submit'[x] = submit[x]
    BY <1>0, <1>2 DEF CanvasTypes, Submit
  <2>2. \A x \in Submitters : Submits(x)
    BY <1>0, <1>2, <2>1 DEF Submits
  <2>3. \A r \in Runs : submit'[r].pc # "no" =>
           run'[r].pc \in {"recover", "submit"} /\ submit'[r].id \in run'[r].left
    BY <1>0, <1>2, <2>1 DEF UnderWay, Submitters
  <2>4. /\ run' \in [Runs -> RunState] /\ (\A r \in Runs : Moves(r))
        /\ jobs \subseteq jobs' /\ jobs' \subseteq Ids
        /\ \A p \in jobs' : p \in jobs \/ pending[p].status \in Ordering
    BY <1>0, <1>2 DEF CanvasTypes, Moves
  <2> QED
    BY <1>0, <1>1, <2>1, <2>2, <2>3, <2>4, Works
<1>3. CASE /\ submit' = [submit EXCEPT ![s] = NoSubmit]
           /\ Resume(s, submit[s].id, FALSE) /\ UNCHANGED jobs
  <2>1. /\ submit' \in [Submitters -> Submit] /\ submit'[s].pc = "no"
        /\ (\A x \in Submitters : Submits(x))
        /\ \A x \in Submitters \ {s} : submit'[x] = submit[x]
    BY <1>0, <1>3, Stopped
  <2>2. /\ run' \in [Runs -> RunState] /\ (\A q \in Runs : Moves(q))
        /\ \A q \in Runs \ {s} : run'[q] = run[q]
    BY <1>0, <1>1, <1>3, Resuming
  <2>3. \A r \in Runs : submit'[r].pc # "no" =>
           run'[r].pc \in {"recover", "submit"} /\ submit'[r].id \in run'[r].left
    BY <1>0, <2>1, <2>2 DEF UnderWay, Submitters
  <2>4. jobs' \subseteq Ids
    BY <1>0, <1>3 DEF CanvasTypes
  <2> QED
    BY <1>0, <1>1, <1>3, <2>1, <2>2, <2>3, <2>4, Works
<1> QED
  BY <1>2, <1>3 DEF CreateGeneration

LEMMA Completing ==
    ASSUME CanvasInv, NEW s \in Submitters, completeCanvasAgentPendingJob(s)
    PROVE  CanvasInv'
<1> DEFINE p == submit[s].id
           mine == pending[p].status = "submitting" /\ pending[p].token = s /\ ~ pending[p].lapsed
           done == canvas.live /\ (mine \/ pending[p].status = "submitted")
<1>0. /\ UNCHANGED <<canvas, session, turns, transcript, jobs, events>>
      /\ CanvasTypes /\ UnderWay /\ p \in Ids /\ p \in jobs
      /\ s \in Runs => run[s].pc \in {"recover", "submit"}
      /\ submit' = [submit EXCEPT ![s] = NoSubmit]
      /\ pending[p] \in PendingRow
  BY DEF completeCanvasAgentPendingJob, CanvasInv, CanvasTypes, UnderWay, Orders
<1>1. /\ pending' = IF canvas.live /\ mine THEN [pending EXCEPT ![p] = Submitted(@)] ELSE pending
      /\ Resume(s, p, done)
  BY DEF completeCanvasAgentPendingJob
<1>2. Advances
  <2>1. CASE canvas.live /\ mine
    <3> DEFINE x == Submitted(pending[p])
    <3>1. /\ x \in PendingRow /\ x.status = "submitted" /\ x.confirm = pending[p].confirm
          /\ x.approved = pending[p].approved
      BY <1>0 DEF Submitted, PendingRow
    <3>2. pending' = [pending EXCEPT ![p] = x] /\ pending[p].status = "submitting"
      BY <1>1, <2>1
    <3> HIDE DEF x, p
    <3> QED
      BY <1>0, <3>1, <3>2 DEF Advances, CanvasInv, CanvasTypes, Orders, Proposed, Wanted, Ordering
  <2>2. CASE ~ (canvas.live /\ mine)
    BY <1>1, <2>2, Standing
  <2> QED
    BY <2>1, <2>2
<1>3. done \in BOOLEAN
  OBVIOUS
<1> HIDE DEF p, done
<1>4. /\ run' \in [Runs -> RunState] /\ (\A q \in Runs : Moves(q))
      /\ \A q \in Runs \ {s} : run'[q] = run[q]
  BY <1>0, <1>1, <1>2, <1>3, Resuming
<1>5. /\ submit' \in [Submitters -> Submit] /\ submit'[s].pc = "no"
      /\ (\A x \in Submitters : Submits(x))
      /\ \A x \in Submitters \ {s} : submit'[x] = submit[x]
  BY <1>0, Stopped
<1>6. \A r \in Runs : submit'[r].pc # "no" =>
         run'[r].pc \in {"recover", "submit"} /\ submit'[r].id \in run'[r].left
  BY <1>0, <1>4, <1>5 DEF UnderWay, Submitters
<1>7. canvas' \in [live : BOOLEAN, revision : Nat] /\ jobs' \subseteq Ids
  BY <1>0 DEF CanvasTypes
<1> QED
  BY <1>0, <1>2, <1>4, <1>5, <1>6, <1>7, Works

\* The user's refusal, and a proposal or a claim whose time runs out.
LEMMA Waning ==
    ASSUME CanvasInv, NEW p \in Ids,
           rejectCanvasAgentPendingJob(p) \/ ClaimLapses(p) \/ ProposalGetsLate(p)
    PROVE  CanvasInv'
<1>0. /\ UNCHANGED <<canvas, session, turns, transcript, jobs, events, run, submit>>
      /\ CanvasTypes /\ UnderWay /\ pending[p] \in PendingRow
  BY DEF rejectCanvasAgentPendingJob, ClaimLapses, ProposalGetsLate, CanvasInv, CanvasTypes
<1>1. ASSUME NEW x \in PendingRow, pending' = [pending EXCEPT ![p] = x], x.confirm = pending[p].confirm,
             x.approved = pending[p].approved,
             \/ x.status = pending[p].status
             \/ pending[p].status = "pending" /\ x.status \in {"expired", "rejected"}
      PROVE  Advances
  BY <1>0, <1>1 DEF Advances, CanvasInv, CanvasTypes, Orders, Proposed, Wanted, Ordering
<1>2. Advances
  <2>1. CASE rejectCanvasAgentPendingJob(p)
    <3> DEFINE st == IF pending[p].late THEN "expired" ELSE "rejected"
               x == [pending[p] EXCEPT !.status = st]
    <3>1. st \in {"expired", "rejected"}
      OBVIOUS
    <3>2. pending' = [pending EXCEPT ![p] = x] /\ pending[p].status = "pending"
      BY <2>1 DEF rejectCanvasAgentPendingJob, Rejectable
    <3> HIDE DEF st
    <3>3. /\ x \in PendingRow /\ x.status = st /\ x.confirm = pending[p].confirm
          /\ x.approved = pending[p].approved
      BY <1>0, <3>1 DEF PendingRow
    <3> HIDE DEF x
    <3> QED
      BY <1>1, <3>1, <3>2, <3>3
  <2>2. CASE ClaimLapses(p) \/ ProposalGetsLate(p)
    <3>1. PICK x \in {[pending[p] EXCEPT !.lapsed = TRUE], [pending[p] EXCEPT !.late = TRUE]} :
             pending' = [pending EXCEPT ![p] = x]
      BY <2>2 DEF ClaimLapses, ProposalGetsLate
    <3>2. /\ x \in PendingRow /\ x.status = pending[p].status /\ x.confirm = pending[p].confirm
          /\ x.approved = pending[p].approved
      BY <1>0, <3>1 DEF PendingRow
    <3> QED
      BY <1>1, <3>1, <3>2
  <2> QED
    BY <2>1, <2>2
<1>3. /\ canvas' \in [live : BOOLEAN, revision : Nat] /\ jobs' \subseteq Ids
      /\ run' \in [Runs -> RunState] /\ (\A r \in Runs : Moves(r))
      /\ submit' \in [Submitters -> Submit] /\ (\A s \in Submitters : Submits(s))
  BY <1>0 DEF CanvasTypes, Moves, Submits
<1>4. \A r \in Runs : submit'[r].pc # "no" =>
         run'[r].pc \in {"recover", "submit"} /\ submit'[r].id \in run'[r].left
  BY <1>0 DEF UnderWay
<1> QED
  BY <1>0, <1>2, <1>3, <1>4, Works

\* The canvas under the agent, and the clock.
LEMMA Around ==
    ASSUME CanvasInv, CanvasSaved \/ CanvasDeleted \/ LeaseLapses \/ UNCHANGED vars
    PROVE  CanvasInv'
<1>0. /\ UNCHANGED <<turns, transcript, pending, jobs, events, run, submit>>
      /\ CanvasTypes /\ Slot /\ UnderWay /\ Numbered /\ Counted /\ Orders /\ Woken /\ Budgeted
  BY DEF CanvasSaved, CanvasDeleted, LeaseLapses, vars, CanvasInv
<1>1. /\ canvas' \in [live : BOOLEAN, revision : Nat] /\ session' \in SessionRow
      /\ session'.turn = session.turn /\ session'.token = session.token
      /\ session'.confirm = session.confirm /\ session'.continuations = session.continuations
  <2>1. CASE CanvasSaved \/ CanvasDeleted
    <3>1. canvas \in [live : BOOLEAN, revision : Nat] /\ session \in SessionRow /\ UNCHANGED session
      BY <1>0, <2>1 DEF CanvasSaved, CanvasDeleted, CanvasTypes
    <3>2. \/ canvas' = [canvas EXCEPT !.revision = @ + 1]
          \/ canvas' = [canvas EXCEPT !.live = FALSE]
      BY <2>1 DEF CanvasSaved, CanvasDeleted
    <3>3. canvas.revision + 1 \in Nat
      BY <3>1
    <3>4. canvas' \in [live : BOOLEAN, revision : Nat]
      BY <3>1, <3>2, <3>3
    <3> QED
      BY <3>1, <3>4
  <2>3. CASE UNCHANGED vars
    BY <1>0, <2>3 DEF vars, CanvasTypes
  <2>2. CASE LeaseLapses
    BY <1>0, <2>2 DEF LeaseLapses, CanvasTypes, SessionRow
  <2> QED
    BY <2>1, <2>2, <2>3
<1>2. CanvasTypes'
  BY <1>0, <1>1 DEF CanvasTypes
<1>3. Slot'
  BY <1>0, <1>1 DEF Slot, TurnsConsistent, RunningTurnHoldsSlot, OneLastMessage
<1>4. UnderWay' /\ Numbered'
  BY <1>0 DEF UnderWay, Numbered, Proposed
<1>5. Counted'
  BY <1>0, <1>1 DEF Counted, Leased, Counts, Behind, Proposed
<1>6. Orders'
  BY <1>0 DEF Orders, Proposed, Wanted, NoJobAfterRefusal, SubmittedHasJob
<1>7. Woken'
  BY <1>0, <1>1 DEF Woken, ContinuesOnce
<1>8. Budgeted'
  BY <1>0 DEF Budgeted, ProposedBy
<1> QED
  BY <1>2, <1>3, <1>4, <1>5, <1>6, <1>7, <1>8 DEF CanvasInv
-----------------------------------------------------------------------------
(* The end of a turn. *)
\* Who has the lease works on the turn that runs.
LEMMA Holding ==
    ASSUME CanvasInv, NEW r \in Runs, session.turn = run[r].turn, session.token = r
    PROVE  /\ run[r].turn \in Messages /\ turns[run[r].turn].status = "running"
           /\ transcript[run[r].turn].final = 0
<1>1. session.turn \in Messages
  BY NamesAssumption DEF CanvasInv, CanvasTypes, SessionRow, Slot, Messages
<1> QED
  BY <1>1 DEF CanvasInv, CanvasTypes, TranscriptRow, Slot, TurnsConsistent, RunningTurnHoldsSlot, OneLastMessage

LEMMA Ending ==
    ASSUME CanvasInv, NEW r \in Runs, NEW m \in Messages, session.turn = m, session.token = r,
           session' = FreeSlot, run' = [run EXCEPT ![r] = IdleRun], submit[r].pc = "no",
           UNCHANGED <<canvas, pending, jobs, events, submit>>,
           NEW st \in Final, turns' = [turns EXCEPT ![m].status = st],
           transcript' \in [Messages -> TranscriptRow],
           \A x \in Messages : transcript'[x].calls = transcript[x].calls,
           \A x \in Messages \ {m} : transcript'[x] = transcript[x],
           transcript'[m].final = 1 <=> st = "completed"
    PROVE  CanvasInv'
<1>0. /\ CanvasTypes /\ Slot /\ UnderWay /\ Numbered /\ Counted /\ Orders /\ Woken /\ Budgeted
  BY DEF CanvasInv
<1>1. /\ session' \in SessionRow /\ session'.turn = NoTurn /\ session'.token = NoToken
      /\ session'.continuations = session.continuations
  BY <1>0 DEF FreeSlot, CanvasTypes, SessionRow
<1>2. /\ turns' \in [Messages -> TurnRow] /\ turns'[m].status = st /\ turns'[m].job = turns[m].job
      /\ \A x \in Messages \ {m} : turns'[x] = turns[x]
  <2> DEFINE x == [turns[m] EXCEPT !.status = st]
  <2>1. turns[m] \in TurnRow
    BY <1>0 DEF CanvasTypes
  <2>2. x \in TurnRow /\ x.status = st /\ x.job = turns[m].job
    BY <2>1 DEF TurnRow
  <2>3. turns' = [turns EXCEPT ![m] = x]
    OBVIOUS
  <2> HIDE DEF x
  <2> QED
    BY <1>0, <2>2, <2>3 DEF CanvasTypes
<1>3. /\ run' \in [Runs -> RunState] /\ run'[r].pc = "idle" /\ (\A q \in Runs : Moves(q))
      /\ \A q \in Runs \ {r} : run'[q] = run[q]
  BY <1>0, Rests
<1>4. run'[r].left = {}
  BY <1>0 DEF CanvasTypes, IdleRun
<1>5. st \notin {"none", "running"} /\ turns[m].status = "running"
  BY <1>0 DEF Final, Slot, TurnsConsistent, RunningTurnHoldsSlot
<1>6. NoTurn \notin Messages /\ NoToken \notin Runs
  BY NamesAssumption DEF Messages
<1>7. CanvasTypes'
  BY <1>0, <1>1, <1>2, <1>3 DEF CanvasTypes
<1>8. Slot'
  BY <1>0, <1>1, <1>2, <1>5, <1>6 DEF Slot, TurnsConsistent, RunningTurnHoldsSlot, OneLastMessage
<1>9. UnderWay'
  BY <1>0, <1>3 DEF UnderWay
<1>10. Numbered'
  <2> SUFFICES ASSUME NEW p \in Ids, Proposed(p)'
      PROVE  /\ p[2] <= transcript'[p[1]].calls /\ turns'[p[1]].status # "none"
             /\ turns'[p[1]].status = "running" => pending'[p].confirm = turns'[p[1]].confirm
    BY DEF Numbered
  <2>1. Proposed(p) /\ p[1] \in Messages
    BY DEF Proposed, Ids
  <2> QED
    BY <1>0, <1>2, <1>5, <2>1 DEF Numbered
<1>11. Counted'
  BY <1>1, <1>6 DEF Counted, Leased
<1>12. Orders'
  BY <1>0, <1>3, <1>4 DEF Orders, Proposed, Wanted, NoJobAfterRefusal, SubmittedHasJob
<1>13. Woken'
  <2>1. \A x \in Messages : turns'[x].job = turns[x].job /\ (turns'[x].status # "none" <=> turns[x].status # "none")
    BY <1>2, <1>5
  <2>2. {x \in EventMessages : turns'[x].status # "none"} = {x \in EventMessages : turns[x].status # "none"}
    BY <2>1 DEF Messages
  <2>3. {turns'[x].job : x \in {y \in EventMessages : turns'[y].status # "none"}}
          = {turns[x].job : x \in {y \in EventMessages : turns[y].status # "none"}}
    BY <2>1, <2>2 DEF Messages
  <2> QED
    BY <1>0, <1>1, <2>1, <2>3 DEF Woken, ContinuesOnce, Messages
<1>14. Budgeted'
  BY <1>0 DEF Budgeted, ProposedBy
<1> QED
  BY <1>7, <1>8, <1>9, <1>10, <1>11, <1>12, <1>13, <1>14 DEF CanvasInv

LEMMA Finishing ==
    ASSUME CanvasInv, NEW r \in Runs, finishCanvasAgentTurn(r) \/ releaseCanvasAgentTurn(r)
    PROVE  CanvasInv'
<1>0. /\ UNCHANGED <<canvas, pending, jobs, events, submit>> /\ run[r].pc \in {"finish", "release"}
      /\ CanvasTypes /\ submit[r].pc = "no" /\ run[r].turn \in Messages
      /\ \A q \in Runs : submit[q].pc # "no" =>
            run[q].pc \in {"recover", "submit"} /\ submit[q].id \in run[q].left
  BY DEF finishCanvasAgentTurn, releaseCanvasAgentTurn, CanvasInv, UnderWay
<1>1. CASE /\ HoldsLease(r)
           /\ transcript' = [transcript EXCEPT ![run[r].turn].final = @ + 1]
           /\ turns' = [turns EXCEPT ![run[r].turn].status = "completed"]
           /\ session' = FreeSlot
           /\ run' = [run EXCEPT ![r] = IdleRun]
  <2> DEFINE m == run[r].turn
             x == [transcript[m] EXCEPT !.final = @ + 1]
  <2>1. session.turn = m /\ session.token = r
    BY <1>1 DEF HoldsLease
  <2>2. transcript[m].final = 0 /\ transcript[m] \in TranscriptRow
    BY <1>0, <2>1, Holding DEF CanvasTypes
  <2>3. transcript' = [transcript EXCEPT ![m] = x]
    BY <1>1
  <2>4. x \in TranscriptRow /\ x.final = 1 /\ x.calls = transcript[m].calls
    BY <2>2 DEF TranscriptRow
  <2> HIDE DEF x
  <2>5. /\ transcript' \in [Messages -> TranscriptRow] /\ transcript'[m].final = 1
        /\ \A y \in Messages : transcript'[y].calls = transcript[y].calls
        /\ \A y \in Messages \ {m} : transcript'[y] = transcript[y]
    BY <1>0, <2>3, <2>4 DEF CanvasTypes
  <2>6. "completed" \in Final
    BY DEF Final
  <2>7. /\ session' = FreeSlot /\ run' = [run EXCEPT ![r] = IdleRun] /\ m \in Messages
        /\ turns' = [turns EXCEPT ![m].status = "completed"]
    BY <1>0, <1>1
  <2> HIDE DEF m
  <2> QED
    BY <1>0, <2>1, <2>5, <2>6, <2>7, Ending
<1>2. CASE /\ MayRelease(r) /\ session' = FreeSlot /\ UNCHANGED transcript
           /\ \E status \in {"failed", "canceled"} : turns' = [turns EXCEPT ![run[r].turn].status = status]
           /\ run' = [run EXCEPT ![r] = IdleRun]
  <2> DEFINE m == run[r].turn
  <2>1. session.turn = m /\ session.token = r
    BY <1>2 DEF MayRelease
  <2>2. PICK status \in {"failed", "canceled"} : turns' = [turns EXCEPT ![m].status = status]
    BY <1>2
  <2>3. transcript[m].final = 0
    BY <1>0, <2>1, Holding
  <2>4. /\ transcript' \in [Messages -> TranscriptRow]
        /\ \A y \in Messages : transcript'[y].calls = transcript[y].calls
        /\ \A y \in Messages \ {m} : transcript'[y] = transcript[y]
    BY <1>0, <1>2 DEF CanvasTypes
  <2>5. status \in Final /\ (transcript'[m].final = 1 <=> status = "completed")
    BY <1>2, <2>3 DEF Final
  <2>6. session' = FreeSlot /\ run' = [run EXCEPT ![r] = IdleRun] /\ m \in Messages
    BY <1>0, <1>2
  <2> HIDE DEF m
  <2> QED
    BY <1>0, <2>1, <2>2, <2>4, <2>5, <2>6, Ending
<1>3. CASE Leaves(r, "release") /\ UNCHANGED <<session, turns, transcript>>
  <2>1. /\ run' \in [Runs -> RunState] /\ (\A q \in Runs : Moves(q))
        /\ \A q \in Runs \ {r} : run'[q] = run[q]
    BY <1>0, <1>3, Left
  <2> QED
    BY <1>0, <1>3, <2>1, Alone
<1>4. CASE run' = [run EXCEPT ![r] = IdleRun] /\ UNCHANGED <<session, turns, transcript>>
  <2>1. /\ run' \in [Runs -> RunState] /\ (\A q \in Runs : Moves(q))
        /\ \A q \in Runs \ {r} : run'[q] = run[q]
    BY <1>0, <1>4, Rests
  <2> QED
    BY <1>0, <1>4, <2>1, Alone
<1> QED
  BY <1>1, <1>2, <1>3, <1>4 DEF finishCanvasAgentTurn, releaseCanvasAgentTurn

-----------------------------------------------------------------------------
(* The calls of a turn and what they propose. *)
LEMMA Recording ==
    ASSUME CanvasInv, NEW r \in Runs, NEW n \in 1 .. MaxRound, recordRound(r, n)
    PROVE  CanvasInv'
<1>0. /\ UNCHANGED <<canvas, session, turns, pending, jobs, events, submit>> /\ run[r].pc = "chat"
      /\ CanvasTypes /\ submit[r].pc = "no" /\ run[r].turn \in Messages /\ run[r] \in RunState
      /\ n \in Nat /\ n >= 1
      /\ \A q \in Runs : submit[q].pc # "no" =>
            run[q].pc \in {"recover", "submit"} /\ submit[q].id \in run[q].left
  BY BudgetAssumption DEF recordRound, CanvasInv, CanvasTypes, UnderWay
<1>1. CASE Leaves(r, "release") /\ UNCHANGED transcript
  <2>1. /\ run' \in [Runs -> RunState] /\ (\A q \in Runs : Moves(q))
        /\ \A q \in Runs \ {r} : run'[q] = run[q]
    BY <1>0, <1>1, Left
  <2> QED
    BY <1>0, <1>1, <2>1, Alone
<1>2. CASE /\ HoldsLease(r)
           /\ transcript' = [transcript EXCEPT ![run[r].turn].calls = run[r].calls + n]
           /\ run' = [run EXCEPT ![r].pc = "execute", ![r].todo = n, ![r].ended = FALSE]
  <2> DEFINE m == run[r].turn
             t == [transcript[m] EXCEPT !.calls = run[r].calls + n]
             x == [run[r] EXCEPT !.pc = "execute", !.todo = n, !.ended = FALSE]
  <2>1. /\ session.turn = m /\ session.token = r /\ m \in Messages /\ Leased(r)
        /\ run[r].calls = transcript[m].calls /\ run[r].calls \in Nat
    BY <1>0, <1>2 DEF HoldsLease, Leased, CanvasInv, Counted, Counts, RunState
  <2>2. transcript' = [transcript EXCEPT ![m] = t] /\ run' = [run EXCEPT ![r] = x]
    BY <1>2
  <2>3. t \in TranscriptRow /\ t.calls = run[r].calls + n /\ t.final = transcript[m].final
    <3>1. transcript[m] \in TranscriptRow /\ run[r].calls + n \in Nat
      BY <1>0, <2>1 DEF CanvasTypes
    <3> QED
      BY <3>1 DEF TranscriptRow
  <2>4. /\ x \in RunState /\ x.pc = "execute" /\ x.turn = m /\ x.calls = run[r].calls
        /\ x.todo = n /\ x.left = run[r].left
    BY <1>0 DEF RunState
  <2> HIDE DEF t, x, m
  <2>5. /\ transcript' \in [Messages -> TranscriptRow] /\ transcript'[m] = t
        /\ \A y \in Messages \ {m} : transcript'[y] = transcript[y]
    BY <1>0, <2>1, <2>2, <2>3 DEF CanvasTypes
  <2>6. /\ run' \in [Runs -> RunState] /\ run'[r] = x /\ \A q \in Runs \ {r} : run'[q] = run[q]
    BY <1>0, <2>2, <2>4 DEF CanvasTypes
  <2>7. /\ Slot /\ UnderWay /\ Numbered /\ Counted /\ Orders /\ Woken /\ Budgeted
    BY DEF CanvasInv
  <2>8. CanvasTypes'
    BY <1>0, <2>5, <2>6 DEF CanvasTypes
  <2>9. Slot'
    BY <1>0, <2>1, <2>3, <2>5, <2>7 DEF Slot, TurnsConsistent, RunningTurnHoldsSlot, OneLastMessage
  <2>10. UnderWay'
    BY <1>0, <2>1, <2>4, <2>6, <2>7 DEF UnderWay
  <2>11. \A p \in Ids : p[1] \in Messages /\ p[2] \in Nat /\ transcript[p[1]].calls <= transcript'[p[1]].calls
                        /\ transcript[p[1]].calls \in Nat
    <3> SUFFICES ASSUME NEW p \in Ids
        PROVE /\ p[1] \in Messages /\ p[2] \in Nat /\ transcript[p[1]].calls <= transcript'[p[1]].calls
              /\ transcript[p[1]].calls \in Nat
      OBVIOUS
    <3>1. p[1] \in Messages /\ p[2] \in Nat
      BY BudgetAssumption DEF Ids
    <3>2. transcript[p[1]].calls \in Nat
      BY <1>0, <3>1 DEF CanvasTypes, TranscriptRow
    <3> QED
      BY <1>0, <2>1, <2>3, <2>5, <3>1, <3>2
  <2>12. Numbered'
    <3> SUFFICES ASSUME NEW p \in Ids, Proposed(p)'
        PROVE  /\ p[2] <= transcript'[p[1]].calls /\ turns'[p[1]].status # "none"
               /\ turns'[p[1]].status = "running" => pending'[p].confirm = turns'[p[1]].confirm
      BY DEF Numbered
    <3>1. Proposed(p) /\ transcript'[p[1]].calls \in Nat
      BY <1>0, <2>8, <2>11 DEF Proposed, CanvasTypes, TranscriptRow
    <3> QED
      BY <1>0, <2>7, <2>11, <3>1 DEF Numbered
  <2>13. Counted'
    <3> SUFFICES ASSUME NEW q \in Runs, Leased(q)' PROVE Counts(q)'
      BY DEF Counted
    <3>1. q = r
      BY <1>0, <2>1 DEF Leased
    <3>2. \A p \in Ids : Proposed(p)' /\ p[1] = m => p[2] <= run[r].calls
      BY <1>0, <2>1, <2>7 DEF Numbered, Proposed
    <3>3. Behind(r)'
      BY <1>0, <2>4, <2>6, <3>2 DEF Behind
    <3> QED
      BY <2>1, <2>3, <2>4, <2>5, <2>6, <3>1, <3>3 DEF Counts
  <2>14. Orders'
    BY <1>0, <2>4, <2>6, <2>7 DEF Orders, Proposed, Wanted, NoJobAfterRefusal, SubmittedHasJob
  <2>15. Woken' /\ Budgeted'
    BY <1>0, <2>7 DEF Woken, ContinuesOnce, Budgeted, ProposedBy
  <2> QED
    BY <2>8, <2>9, <2>10, <2>12, <2>13, <2>14, <2>15 DEF CanvasInv
<1> QED
  BY <1>1, <1>2 DEF recordRound

\* The proposals of a turn are as many as its budget allows.
LEMMA FewProposals ==
    ASSUME NEW m \in Messages
    PROVE  IsFiniteSet(ProposedBy(m))
<1>1. IsFiniteSet(1 .. MaxCalls) /\ IsFiniteSet({m})
  <2>1. 1 \in Int /\ MaxCalls \in Int
    BY BudgetAssumption
  <2>2. IsFiniteSet(1 .. MaxCalls)
    BY <2>1, FS_Interval
  <2> QED
    BY <2>2, FS_Singleton
<1>2. IsFiniteSet({m} \X (1 .. MaxCalls))
  BY <1>1, FS_Product
<1>3. ProposedBy(m) \subseteq {m} \X (1 .. MaxCalls)
  BY DEF ProposedBy, Ids
<1> QED
  BY <1>2, <1>3, FS_Subset

LEMMA Proposing ==
    ASSUME CanvasInv, NEW r \in Runs, ProposeJob(r)
    PROVE  CanvasInv'
<1> DEFINE m == run[r].turn
           c == CallId(r)
           row == [NotProposed EXCEPT !.status = "pending", !.base = canvas.revision,
                                      !.confirm = turns[m].confirm]
<1>0. /\ UNCHANGED <<canvas, session, turns, transcript, jobs, events, submit>>
      /\ run[r].pc = "execute" /\ run[r].calls < MaxCalls
      /\ CanvasTypes /\ submit[r].pc = "no" /\ m \in Messages /\ run[r] \in RunState
      /\ session.turn = m /\ session.token = r /\ Cardinality(ProposedBy(m)) < MaxJobs
      /\ turns[m] \in TurnRow /\ canvas.revision \in Nat
      /\ pending' = [pending EXCEPT ![c] = row]
  BY DEF ProposeJob, MayPropose, HoldsLease, CanvasInv, CanvasTypes, UnderWay
<1>1. /\ Slot /\ UnderWay /\ Numbered /\ Counted /\ Orders /\ Woken /\ Budgeted
  BY DEF CanvasInv
<1>2. /\ Leased(r) /\ Behind(r) /\ run[r].calls \in Nat /\ run[r].todo \in Nat
      /\ run[r].calls + run[r].todo = transcript[m].calls /\ transcript[m].calls \in Nat
  BY <1>0, <1>1 DEF Leased, Counted, Counts, RunState, CanvasTypes, TranscriptRow
<1>3. /\ c \in Ids /\ c[1] = m /\ c[2] = run[r].calls + 1 /\ c[2] <= transcript[m].calls
  BY <1>0, <1>2, BudgetAssumption DEF CallId, Ids, Behind
<1>4. ~ Proposed(c) /\ turns[m].status = "running"
  BY <1>0, <1>1, <1>2, <1>3 DEF Behind, Slot, TurnsConsistent, RunningTurnHoldsSlot
<1>5. /\ row \in PendingRow /\ row.status = "pending" /\ row.confirm = turns[m].confirm
  BY <1>0 DEF NotProposed, PendingRow, TurnRow
<1> HIDE DEF row
<1>6. /\ pending' \in [Ids -> PendingRow] /\ pending'[c] = row
      /\ \A p \in Ids \ {c} : pending'[p] = pending[p]
  BY <1>0, <1>3, <1>5 DEF CanvasTypes
<1>7. PICK x \in RunState :
        /\ run' = [run EXCEPT ![r] = x]
        /\ x.turn = m /\ x.calls = run[r].calls + 1 /\ x.todo = run[r].todo
        /\ x.pc \in {"store", "submit"}
        /\ x.left = run[r].left \/ (x.left = {c} /\ ~ turns[m].confirm)
  <2>0. run[r].calls + 1 \in Nat
    BY <1>2
  <2>1. CASE turns[m].confirm
    <3> DEFINE x == [run[r] EXCEPT !.calls = @ + 1, !.pc = "store", !.ended = TRUE]
    <3>1. run' = [run EXCEPT ![r] = x]
      BY <2>1 DEF ProposeJob
    <3>2. /\ x \in RunState /\ x.turn = m /\ x.calls = run[r].calls + 1 /\ x.todo = run[r].todo
          /\ x.pc = "store" /\ x.left = run[r].left
      <4>1. run[r] \in RunState
        BY <1>0
      <4> QED
        BY <2>0, <4>1 DEF RunState
    <3> QED
      BY <3>1, <3>2
  <2>2. CASE ~ turns[m].confirm
    <3> DEFINE x == [run[r] EXCEPT !.calls = @ + 1, !.pc = "submit", !.left = {c}]
    <3>1. run' = [run EXCEPT ![r] = x]
      BY <2>2 DEF ProposeJob
    <3>2. /\ x \in RunState /\ x.turn = m /\ x.calls = run[r].calls + 1 /\ x.todo = run[r].todo
          /\ x.pc = "submit" /\ x.left = {c}
      <4>1. run[r] \in RunState /\ {c} \in SUBSET Ids
        BY <1>0, <1>3
      <4> HIDE DEF c
      <4> QED
        BY <2>0, <4>1 DEF RunState
    <3> QED
      BY <2>2, <3>1, <3>2
  <2> QED
    BY <2>1, <2>2
<1> HIDE DEF c, m
<1>8. run' \in [Runs -> RunState] /\ run'[r] = x /\ \A q \in Runs \ {r} : run'[q] = run[q]
  BY <1>0, <1>7 DEF CanvasTypes
<1>9. CanvasTypes'
  BY <1>0, <1>6, <1>8 DEF CanvasTypes
<1>10. Slot'
  BY <1>0, <1>1 DEF Slot, TurnsConsistent, RunningTurnHoldsSlot, OneLastMessage
<1>11. UnderWay'
  BY <1>0, <1>1, <1>7, <1>8 DEF UnderWay
<1>12. \A p \in Ids : Proposed(p)' <=> Proposed(p) \/ p = c
  BY <1>3, <1>5, <1>6 DEF Proposed
<1>13. Numbered'
  <2> SUFFICES ASSUME NEW p \in Ids, Proposed(p)'
      PROVE  /\ p[2] <= transcript'[p[1]].calls /\ turns'[p[1]].status # "none"
             /\ turns'[p[1]].status = "running" => pending'[p].confirm = turns'[p[1]].confirm
    BY DEF Numbered
  <2>1. CASE p = c
    BY <1>0, <1>3, <1>4, <1>5, <1>6, <2>1
  <2>2. CASE p # c
    BY <1>0, <1>1, <1>6, <1>12, <2>2 DEF Numbered
  <2> QED
    BY <2>1, <2>2
<1>14. Counted'
  <2> SUFFICES ASSUME NEW q \in Runs, Leased(q)' PROVE Counts(q)'
    BY DEF Counted
  <2>1. q = r
    BY <1>0 DEF Leased
  <2>2. \A p \in Ids : p[2] \in Nat
    BY BudgetAssumption DEF Ids
  <2>3. \A p \in Ids : Proposed(p) /\ p[1] = m => p[2] <= run[r].calls
    BY <1>2 DEF Behind, m
  <2>4. \A p \in Ids : Proposed(p)' /\ p[1] = m => p[2] <= run[r].calls + 1
    BY <1>2, <1>3, <1>12, <2>2, <2>3
  <2>5. run[r].todo >= 1
    BY <1>2 DEF Behind
  <2>6. Behind(r)'
    BY <1>7, <1>8, <2>4, <2>5 DEF Behind
  <2> QED
    BY <1>0, <1>2, <1>7, <1>8, <2>1, <2>6 DEF Counts
<1>15. Orders'
  <2>1. pending[c].status = "none" /\ c \notin jobs
    BY <1>1, <1>3, <1>4 DEF Proposed, Orders, NoJobAfterRefusal
  <2>2. \A p \in Ids : pending'[p].status \in Ordering => Wanted(p)'
    BY <1>1, <1>5, <1>6 DEF Orders, Wanted, Ordering
  <2>3. \A q \in Runs : \A p \in run'[q].left : Proposed(p)' /\ Wanted(p)'
    <3> SUFFICES ASSUME NEW q \in Runs, NEW p \in run'[q].left PROVE Proposed(p)' /\ Wanted(p)'
      OBVIOUS
    <3>1. CASE p \in run[q].left
      <4>1. p \in Ids /\ Proposed(p) /\ Wanted(p)
        BY <1>0, <1>1, <3>1 DEF Orders, CanvasTypes, RunState
      <4> QED
        BY <1>4, <1>6, <4>1 DEF Proposed, Wanted
    <3>2. CASE p \notin run[q].left
      <4>1. p = c /\ ~ turns[m].confirm
        BY <1>7, <1>8, <3>2
      <4> QED
        BY <1>5, <1>6, <4>1 DEF Proposed, Wanted
    <3> QED
      BY <3>1, <3>2
  <2>4. \A s \in Submitters : submit'[s].pc # "no" =>
           submit'[s].id \in Ids /\ pending'[submit'[s].id].status \in Ordering
    BY <1>0, <1>1, <1>6, <2>1 DEF Orders, Ordering
  <2>5. NoJobAfterRefusal'
    BY <1>0, <1>1, <1>6, <2>1 DEF CanvasTypes, Orders, NoJobAfterRefusal
  <2>6. SubmittedHasJob'
    BY <1>0, <1>1, <1>5, <1>6 DEF Orders, SubmittedHasJob
  <2> QED
    BY <1>0, <1>1, <2>2, <2>3, <2>4, <2>5, <2>6 DEF Orders
<1>16. Woken'
  BY <1>0, <1>1 DEF Woken, ContinuesOnce
<1>17. Budgeted'
  <2> DEFINE before(y) == {p \in Ids : p[1] = y /\ pending[p].status # "none"}
             after(y) == {p \in Ids : p[1] = y /\ pending'[p].status # "none"}
  <2>1. after(m) = before(m) \cup {c} /\ c \notin before(m)
    BY <1>3, <1>4, <1>12 DEF Proposed
  <2>2. \A y \in Messages \ {m} : after(y) = before(y)
    BY <1>3, <1>12 DEF Proposed
  <2>3. IsFiniteSet(before(m)) /\ Cardinality(before(m)) < MaxJobs
    BY <1>0, FewProposals DEF ProposedBy
  <2>4. \A y \in Messages : Cardinality(before(y)) <= MaxJobs
    BY <1>1 DEF Budgeted, ProposedBy
  <2>5. \A y \in Messages : Cardinality(after(y)) <= MaxJobs
    <3> HIDE DEF before, after
    <3>1. Cardinality(after(m)) = Cardinality(before(m)) + 1 /\ Cardinality(before(m)) \in Nat
      BY <2>1, <2>3, FS_AddElement, FS_CardinalityType
    <3> QED
      BY <2>2, <2>3, <2>4, <3>1, BudgetAssumption
  <2> QED
    BY <2>5 DEF Budgeted, ProposedBy
<1> QED
  BY <1>9, <1>10, <1>11, <1>13, <1>14, <1>15, <1>16, <1>17 DEF CanvasInv

-----------------------------------------------------------------------------
(* The start of a turn. *)
\* The turn is the only one that runs; nothing else is said of the others.
LEMMA OneRuns ==
    ASSUME CanvasInv, NEW r \in Runs, NEW m \in Messages, NEW confirm \in BOOLEAN,
           NEW job \in Ids \cup {NoJob}, Begin(r, m, confirm, job)
    PROVE  /\ turns' \in [Messages -> TurnRow] /\ turns'[m].status = "running"
           /\ turns'[m].confirm = confirm /\ turns'[m].job = job
           /\ \A x \in Messages \ {m} :
                 /\ turns'[x].job = turns[x].job /\ turns'[x].confirm = turns[x].confirm
                 /\ turns'[x].status # "running"
                 /\ \/ turns'[x].status = turns[x].status
                    \/ turns[x].status = "running" /\ turns'[x].status = "expired"
<1> DEFINE mine == [status |-> "running", base |-> canvas.revision, confirm |-> confirm, job |-> job]
           other(x) == IF turns[x].status = "running" THEN [turns[x] EXCEPT !.status = "expired"] ELSE turns[x]
<1>1. turns' = [x \in Messages |-> IF x = m THEN mine ELSE other(x)]
  BY DEF Begin, claimCanvasAgentTurn
<1>2. mine \in TurnRow /\ mine.status = "running" /\ mine.confirm = confirm /\ mine.job = job
  BY DEF CanvasInv, CanvasTypes, TurnRow
<1>3. ASSUME NEW x \in Messages
      PROVE  /\ other(x) \in TurnRow
             /\ other(x).job = turns[x].job /\ other(x).confirm = turns[x].confirm
             /\ other(x).status # "running"
             /\ \/ other(x).status = turns[x].status
                \/ turns[x].status = "running" /\ other(x).status = "expired"
  <2>1. turns[x] \in TurnRow
    BY DEF CanvasInv, CanvasTypes
  <2> QED
    BY <2>1 DEF TurnRow, Final
<1> HIDE DEF mine, other
<1> QED
  BY <1>1, <1>2, <1>3

LEMMA Beginning ==
    ASSUME CanvasInv, NEW r \in Runs, NEW m \in Messages, NEW confirm \in BOOLEAN,
           NEW job \in Ids \cup {NoJob}, Begin(r, m, confirm, job),
           \/ turns[m].status = "none"
           \/ turns[m].status = "running" /\ confirm = turns[m].confirm,
           session' \in SessionRow, session'.turn = m, session'.token = r, session'.confirm = confirm,
           Woken'
    PROVE  CanvasInv'
<1>0. /\ CanvasTypes /\ Slot /\ UnderWay /\ Numbered /\ Counted /\ Orders /\ Woken /\ Budgeted
      /\ UNCHANGED <<canvas, pending, jobs, submit>> /\ run[r].pc = "idle"
      /\ transcript' = [transcript EXCEPT ![m].user = 1]
  BY DEF CanvasInv, Begin
<1>1. /\ turns' \in [Messages -> TurnRow] /\ turns'[m].status = "running"
      /\ turns'[m].confirm = confirm
      /\ \A x \in Messages \ {m} :
            /\ turns'[x].confirm = turns[x].confirm /\ turns'[x].status # "running"
            /\ \/ turns'[x].status = turns[x].status
               \/ turns[x].status = "running" /\ turns'[x].status = "expired"
  BY OneRuns
<1>2. /\ transcript' \in [Messages -> TranscriptRow]
      /\ \A x \in Messages : /\ transcript'[x].calls = transcript[x].calls
                             /\ transcript'[x].final = transcript[x].final
  <2> DEFINE t == [transcript[m] EXCEPT !.user = 1]
  <2>1. transcript[m] \in TranscriptRow
    BY <1>0 DEF CanvasTypes
  <2>2. t \in TranscriptRow /\ t.calls = transcript[m].calls /\ t.final = transcript[m].final
    BY <2>1 DEF TranscriptRow
  <2>3. transcript' = [transcript EXCEPT ![m] = t]
    BY <1>0
  <2> HIDE DEF t
  <2> QED
    BY <1>0, <2>2, <2>3 DEF CanvasTypes
<1>3. PICK x \in RunState :
        /\ run' = [run EXCEPT ![r] = x]
        /\ x.pc \in {"chat", "recover"} /\ x.turn = m /\ x.calls = transcript[m].calls
        /\ x.left = ToSubmit(m, confirm)
  <2> DEFINE pc == IF Recovered(m) = {} THEN "chat" ELSE "recover"
             calls == transcript[m].calls
             left == ToSubmit(m, confirm)
             x == [IdleRun EXCEPT !.pc = pc, !.turn = m, !.calls = calls, !.left = left]
  <2>1. pc \in {"chat", "recover"} /\ calls \in Nat
    BY <1>0 DEF CanvasTypes, TranscriptRow
  <2>2. left \subseteq Ids
    BY DEF ToSubmit, Recovered, ProposedBy
  <2>3. run' = [run EXCEPT ![r] = x]
    BY DEF Begin
  <2> HIDE DEF pc, calls, left
  <2>4. x \in RunState /\ x.pc = pc /\ x.turn = m /\ x.calls = calls /\ x.left = left
    BY <2>1, <2>2 DEF IdleRun, RunState
  <2> HIDE DEF x
  <2> QED
    BY <2>1, <2>3, <2>4 DEF left, calls
<1>4. run' \in [Runs -> RunState] /\ run'[r] = x /\ \A q \in Runs \ {r} : run'[q] = run[q]
  BY <1>0, <1>3 DEF CanvasTypes
<1>5. NoTurn \notin Messages /\ NoToken \notin Runs
  BY NamesAssumption DEF Messages
<1>6. CanvasTypes'
  BY <1>0, <1>1, <1>2, <1>4 DEF CanvasTypes
<1>7. Slot'
  BY <1>0, <1>1, <1>2, <1>5 DEF Slot, TurnsConsistent, RunningTurnHoldsSlot, OneLastMessage
<1>8. UnderWay'
  BY <1>0, <1>3, <1>4 DEF UnderWay
<1>9. Numbered'
  <2> SUFFICES ASSUME NEW p \in Ids, Proposed(p)'
      PROVE  /\ p[2] <= transcript'[p[1]].calls /\ turns'[p[1]].status # "none"
             /\ turns'[p[1]].status = "running" => pending'[p].confirm = turns'[p[1]].confirm
    BY DEF Numbered
  <2>1. Proposed(p) /\ p[1] \in Messages
    BY <1>0 DEF Proposed, Ids
  <2> QED
    BY <1>0, <1>1, <1>2, <2>1 DEF Numbered
<1>10. Counted'
  BY <1>2, <1>3, <1>4, <1>5 DEF Counted, Leased, Counts
<1>11. \A p \in ToSubmit(m, confirm) : Proposed(p) /\ Wanted(p)
  <2> SUFFICES ASSUME NEW p \in ToSubmit(m, confirm) PROVE Proposed(p) /\ Wanted(p)
    OBVIOUS
  <2>1. /\ p \in Ids /\ p[1] = m /\ Proposed(p)
        /\ pending[p].status = "submitting" \/ ~ confirm
    BY DEF ToSubmit, Recovered, ProposedBy, Proposed
  <2>2. pending[p].status = "submitting" => Wanted(p)
    BY <1>0, <2>1 DEF Orders, Ordering
  <2>3. ~ confirm => Wanted(p)
    BY <1>0, <2>1 DEF Numbered, Wanted
  <2> QED
    BY <2>1, <2>2, <2>3
<1>12. Orders'
  <2>1. \A q \in Runs : \A p \in run'[q].left : Proposed(p)' /\ Wanted(p)'
    BY <1>0, <1>3, <1>4, <1>11 DEF Orders, Proposed, Wanted
  <2> QED
    BY <1>0, <2>1 DEF Orders, Wanted, NoJobAfterRefusal, SubmittedHasJob
<1>13. Budgeted'
  BY <1>0 DEF Budgeted, ProposedBy
<1> QED
  BY <1>6, <1>7, <1>8, <1>9, <1>10, <1>12, <1>13 DEF CanvasInv

LEMMA Starting ==
    ASSUME CanvasInv, NEW r \in Runs, Start(r)
    PROVE  CanvasInv'
<1>0. /\ CanvasTypes /\ Slot /\ Woken /\ session \in SessionRow
      /\ \A x \in EventMessages : x \in Messages /\ x \notin UserMessages
  BY NamesAssumption DEF CanvasInv, CanvasTypes, Messages
<1>2. ASSUME NEW m \in Messages, NEW confirm \in BOOLEAN
      PROVE  /\ Occupied(r, m, confirm) \in SessionRow /\ Occupied(r, m, confirm).turn = m
             /\ Occupied(r, m, confirm).token = r /\ Occupied(r, m, confirm).confirm = confirm
             /\ Occupied(r, m, confirm).continuations = session.continuations
  BY <1>0 DEF Occupied, SessionRow
<1>3. ASSUME NEW m \in Messages, NEW confirm \in BOOLEAN, beginCanvasAgentTurn(r, m, confirm)
      PROVE  CanvasInv'
  <2>1. /\ m \in UserMessages /\ Begin(r, m, confirm, NoJob) /\ session' = Occupied(r, m, confirm)
        /\ UNCHANGED events
        /\ turns[m].status = "none" \/ (turns[m].status = "running" /\ confirm = turns[m].confirm)
    BY <1>3 DEF beginCanvasAgentTurn, Retries
  <2>2. \A x \in Messages \ {m} :
          /\ turns'[x].job = turns[x].job
          /\ \/ turns'[x].status = turns[x].status
             \/ turns[x].status = "running" /\ turns'[x].status = "expired"
    BY <2>1, OneRuns
  <2>3. \A x \in EventMessages : /\ turns'[x].job = turns[x].job
                                 /\ turns'[x].status # "none" <=> turns[x].status # "none"
    BY <1>0, <2>1, <2>2
  <2>4. {turns'[x].job : x \in {y \in EventMessages : turns'[y].status # "none"}}
          = {turns[x].job : x \in {y \in EventMessages : turns[y].status # "none"}}
    BY <2>3
  <2>5. Woken'
    BY <1>0, <1>2, <2>1, <2>3, <2>4 DEF Woken, ContinuesOnce
  <2> QED
    BY <1>2, <2>1, <2>5, Beginning
<1>4. ASSUME NEW m \in Messages, NEW p \in Ids, beginCanvasAgentJobEventTurn(r, m, p)
      PROVE  CanvasInv'
  <2>1. /\ m \in EventMessages /\ Begin(r, m, session.confirm, p) /\ turns[m].status = "none"
        /\ session' = [Occupied(r, m, session.confirm) EXCEPT !.continuations = @ + 1]
        /\ events' = events \cup {p} /\ p \notin events /\ session.confirm \in BOOLEAN
    BY <1>0, <1>4 DEF beginCanvasAgentJobEventTurn, SessionRow
  <2>2. /\ turns'[m].job = p /\ turns'[m].status = "running"
        /\ \A x \in Messages \ {m} :
             /\ turns'[x].job = turns[x].job
             /\ \/ turns'[x].status = turns[x].status
                \/ turns[x].status = "running" /\ turns'[x].status = "expired"
    BY <2>1, OneRuns
  <2>3. /\ session' \in SessionRow /\ session'.turn = m /\ session'.token = r
        /\ session'.confirm = session.confirm /\ session'.continuations = session.continuations + 1
    <3> DEFINE o == Occupied(r, m, session.confirm)
    <3>1. /\ o \in SessionRow /\ o.turn = m /\ o.token = r /\ o.confirm = session.confirm
          /\ o.continuations = session.continuations
      BY <1>2, <2>1
    <3>2. session' = [o EXCEPT !.continuations = @ + 1]
      BY <2>1
    <3> HIDE DEF o
    <3>3. o.continuations + 1 \in Nat
      BY <3>1 DEF SessionRow
    <3> QED
      BY <3>1, <3>2, <3>3 DEF SessionRow
  <2> DEFINE told == {y \in EventMessages : turns[y].status # "none"}
             after == {y \in EventMessages : turns'[y].status # "none"}
  <2>4. after = told \cup {m} /\ m \notin told
    BY <1>0, <2>1, <2>2
  <2>5. \A x \in told : turns'[x].job = turns[x].job /\ turns[x].job \in events
    BY <1>0, <2>1, <2>2 DEF Woken, ContinuesOnce
  <2>6. events = {turns[x].job : x \in told}
    BY <1>0 DEF Woken, ContinuesOnce
  <2>7. events' = {turns'[x].job : x \in after}
    <3> HIDE DEF told, after
    <3> QED
      BY <2>1, <2>2, <2>4, <2>5, <2>6
  <2>8. IsFiniteSet(events') /\ Cardinality(events') = Cardinality(events) + 1
    BY <1>0, <2>1, FS_AddElement DEF Woken
  <2>9. \A m1, m2 \in after : turns'[m1].job = turns'[m2].job => m1 = m2
    <3>1. \A m1, m2 \in told : turns[m1].job = turns[m2].job => m1 = m2
      BY <1>0 DEF Woken, ContinuesOnce
    <3> HIDE DEF told, after
    <3> QED
      BY <2>1, <2>2, <2>4, <2>5, <3>1
  <2>10. Woken'
    BY <1>0, <2>3, <2>7, <2>8, <2>9 DEF Woken, ContinuesOnce
  <2> QED
    BY <2>1, <2>3, <2>10, <1>0, Beginning
<1>5. ASSUME NEW m \in Messages, RetryJobEventTurn(r, m)
      PROVE  CanvasInv'
  <2>1. /\ m \in EventMessages /\ Begin(r, m, session.confirm, turns[m].job)
        /\ session' = Occupied(r, m, session.confirm) /\ UNCHANGED events
        /\ turns[m].status = "running" /\ session.confirm \in BOOLEAN /\ turns[m].job \in Ids \cup {NoJob}
    BY <1>0, <1>5 DEF RetryJobEventTurn, Retries, SessionRow, CanvasTypes, TurnRow
  <2>2. session.confirm = turns[m].confirm
    BY <1>0, <2>1 DEF Slot, TurnsConsistent, RunningTurnHoldsSlot
  <2>3. /\ turns'[m].job = turns[m].job /\ turns'[m].status = "running"
        /\ \A x \in Messages \ {m} :
             /\ turns'[x].job = turns[x].job
             /\ \/ turns'[x].status = turns[x].status
                \/ turns[x].status = "running" /\ turns'[x].status = "expired"
    BY <2>1, OneRuns
  <2>4. \A x \in EventMessages : /\ turns'[x].job = turns[x].job
                                 /\ turns'[x].status # "none" <=> turns[x].status # "none"
    BY <1>0, <2>1, <2>3
  <2>5. {turns'[x].job : x \in {y \in EventMessages : turns'[y].status # "none"}}
          = {turns[x].job : x \in {y \in EventMessages : turns[y].status # "none"}}
    BY <2>4
  <2>6. Woken'
    BY <1>0, <1>2, <2>1, <2>4, <2>5 DEF Woken, ContinuesOnce
  <2> QED
    BY <1>2, <2>1, <2>2, <2>6, Beginning
<1> QED
  BY <1>3, <1>4, <1>5 DEF Start

-----------------------------------------------------------------------------
LEMMA CanvasStarts == Init => CanvasInv
<1> SUFFICES ASSUME Init PROVE CanvasInv
  OBVIOUS
<1> USE DEF Init
<1>1. NoTurnYet \in TurnRow /\ NotProposed \in PendingRow /\ NoSubmit \in Submit /\ IdleRun \in RunState
  BY DEF NoTurnYet, TurnRow, NotProposed, PendingRow, NoSubmit, Submit, IdleRun, RunState
<1>2. CanvasTypes
  BY <1>1 DEF CanvasTypes, SessionRow, TranscriptRow
<1>3. Slot
  <2>1. session.turn = NoTurn /\ session.token = NoToken /\ NoTurn \notin Messages
    BY NamesAssumption DEF Messages
  <2>2. \A m \in Messages : turns[m].status = "none" /\ transcript[m].final = 0
    BY DEF NoTurnYet
  <2>3. RunningTurnHoldsSlot
    BY <2>1, <2>2 DEF RunningTurnHoldsSlot
  <2>4. OneLastMessage
    BY <2>2 DEF OneLastMessage
  <2> HIDE DEF Init
  <2> QED
    BY <2>1, <2>3, <2>4 DEF Slot, TurnsConsistent
<1>4. UnderWay /\ Counted
  BY DEF UnderWay, Counted, Leased, IdleRun, NoSubmit, Submitters
<1>5. Numbered
  BY DEF Numbered, Proposed, NotProposed
<1>6. Orders
  BY DEF Orders, NotProposed, NoSubmit, IdleRun, Ordering, NoJobAfterRefusal, SubmittedHasJob, Submitters
<1>7. Woken
  <2>1. {x \in EventMessages : turns[x].status # "none"} = {}
    BY DEF NoTurnYet, Messages
  <2>2. {turns[m].job : m \in {x \in EventMessages : turns[x].status # "none"}} = {}
    BY <2>1
  <2> QED
    BY <2>1, <2>2, FS_EmptySet DEF Woken, ContinuesOnce
<1>8. Budgeted
  <2> SUFFICES ASSUME NEW m \in Messages PROVE Cardinality(ProposedBy(m)) <= MaxJobs
    BY DEF Budgeted
  <2>1. ProposedBy(m) = {}
    BY DEF ProposedBy, NotProposed
  <2> QED
    BY <2>1, FS_EmptySet, BudgetAssumption
<1> QED
  BY <1>2, <1>3, <1>4, <1>5, <1>6, <1>7, <1>8 DEF CanvasInv

LEMMA CanvasGoesOn == CanvasInv /\ [Next]_vars => CanvasInv'
<1> SUFFICES ASSUME CanvasInv, [Next]_vars PROVE CanvasInv'
  OBVIOUS
<1>1. ASSUME NEW r \in Runs, Start(r) PROVE CanvasInv'
  BY <1>1, Starting
<1>2. ASSUME NEW r \in Runs, Loop(r) PROVE CanvasInv'
  <2>1. CASE Chat(r) \/ ExecuteCall(r) \/ StoreResult(r) \/ RecoveryDone(r)
    BY <2>1, Looping
  <2>2. CASE ProposeJob(r)
    BY <2>2, Proposing
  <2>3. CASE \E n \in 1 .. MaxRound : recordRound(r, n)
    BY <2>3, Recording
  <2>4. ASSUME NEW p \in Ids, ClaimByRun(r, p) PROVE CanvasInv'
    <3>1. r \in Submitters /\ Claim(r, p) /\ submit[r] = NoSubmit /\ p \in run[r].left
          /\ run[r].pc \in {"recover", "submit"}
      BY <2>4 DEF ClaimByRun, Submitters
    <3> QED
      BY <3>1, Claiming
  <2>5. CASE finishCanvasAgentTurn(r) \/ releaseCanvasAgentTurn(r)
    BY <2>5, Finishing
  <2> QED
    BY <1>2, <2>1, <2>2, <2>3, <2>4, <2>5 DEF Loop
<1>3. ASSUME NEW s \in Submitters, CreateGeneration(s) \/ completeCanvasAgentPendingJob(s) PROVE CanvasInv'
  BY <1>3, Creating, Completing
<1>4. ASSUME NEW p \in Ids, NEW c \in Confirmations, Approve(c, p) PROVE CanvasInv'
  <2>1. c \in Submitters /\ Claim(c, p) /\ submit[c] = NoSubmit /\ Proposed(p)
    BY <1>4 DEF Approve, Submitters, Proposed
  <2> QED
    BY <2>1, Claiming
<1>5. ASSUME NEW p \in Ids, rejectCanvasAgentPendingJob(p) \/ ClaimLapses(p) \/ ProposalGetsLate(p)
      PROVE  CanvasInv'
  BY <1>5, Waning
<1>6. CASE CanvasSaved \/ CanvasDeleted \/ LeaseLapses \/ UNCHANGED vars
  BY <1>6, Around
<1>7. ASSUME NEW r \in Runs, Abort(r) PROVE CanvasInv'
  <2>1. r \in Submitters
    BY DEF Submitters
  <2> QED
    BY <1>7, <2>1, Leaving
<1>8. ASSUME NEW s \in Submitters, Crash(s) PROVE CanvasInv'
  BY <1>8, Leaving
<1> QED
  BY <1>1, <1>2, <1>3, <1>4, <1>5, <1>6, <1>7, <1>8 DEF Next, Step, Disturbance

\* Whoever dies, takes over or comes late, the running turn is the one in the session's slot,
\* and a turn is completed exactly when its last message is written.
THEOREM TurnsStayConsistent == Spec => []TurnsConsistent
<1>1. CanvasInv => TurnsConsistent
  BY DEF CanvasInv, Slot
<1> QED
  BY <1>1, CanvasStarts, CanvasGoesOn, PTL DEF Spec

\* What is ordered was wanted: proposed within the budget, not refused, approved where the
\* user must, and for the end of a job the agent was woken once.
THEOREM JobsStayWanted == Spec => []JobsWanted
<1>1. CanvasInv => JobsWanted
  <2> SUFFICES ASSUME CanvasInv PROVE JobsWanted
    OBVIOUS
  <2>1. NoJobAfterRefusal /\ SubmittedHasJob
    BY DEF CanvasInv, Orders
  <2>2. ApprovedWhereRequired
    BY DEF CanvasInv, CanvasTypes, Orders, NoJobAfterRefusal, ApprovedWhereRequired, Wanted, Ordering
  <2>3. WithinBudgets
    BY DEF CanvasInv, Woken, Budgeted, WithinBudgets
  <2> QED
    BY <2>1, <2>2, <2>3 DEF JobsWanted
<1> QED
  BY <1>1, CanvasStarts, CanvasGoesOn, PTL DEF Spec

\* A turn that has ended is not started, ended or answered again.
THEOREM EndedTurnsStay == Spec => TurnsStayOver
<1> DEFINE Stay == \A m \in Messages : turns[m].status \in Final =>
                       turns'[m].status = turns[m].status /\ transcript'[m] = transcript[m]
<1>1. CanvasInv /\ [Next]_vars => [Stay]_vars
  <2> SUFFICES ASSUME CanvasInv, Next PROVE Stay
    BY DEF vars
  <2>1. CanvasTypes /\ "none" \notin Final /\ "running" \notin Final
    BY DEF CanvasInv, Final
  <2>2. CASE UNCHANGED <<turns, transcript>>
    BY <2>2
  <2>3. ASSUME NEW r \in Runs, Start(r) PROVE Stay
    <3>1. PICK m \in Messages, confirm \in BOOLEAN, job \in Ids \cup {NoJob} :
             Begin(r, m, confirm, job) /\ turns[m].status \in {"none", "running"}
      BY <2>1, <2>3 DEF Start, beginCanvasAgentTurn, beginCanvasAgentJobEventTurn, RetryJobEventTurn,
                        Retries, CanvasTypes, SessionRow, TurnRow
    <3>2. \A x \in Messages \ {m} : \/ turns'[x].status = turns[x].status
                                    \/ turns[x].status = "running"
      BY <3>1, OneRuns
    <3>3. \A x \in Messages \ {m} : transcript'[x] = transcript[x]
      BY <2>1, <3>1 DEF Begin, CanvasTypes
    <3> QED
      BY <2>1, <3>1, <3>2, <3>3
  <2>4. ASSUME NEW r \in Runs, session.turn = run[r].turn, session.token = r,
               \A x \in Messages \ {run[r].turn} : turns'[x] = turns[x] /\ transcript'[x] = transcript[x]
        PROVE  Stay
    BY <2>1, <2>4, Holding
  <2>5. ASSUME NEW r \in Runs, Loop(r) PROVE Stay
    <3>1. CASE \E n \in 1 .. MaxRound : recordRound(r, n)
      <4>1. \/ UNCHANGED <<turns, transcript>>
            \/ /\ session.turn = run[r].turn /\ session.token = r
               /\ \A x \in Messages \ {run[r].turn} : turns'[x] = turns[x] /\ transcript'[x] = transcript[x]
        BY <2>1, <3>1 DEF recordRound, HoldsLease, CanvasTypes
      <4> QED
        BY <2>2, <2>4, <4>1
    <3>2. CASE finishCanvasAgentTurn(r) \/ releaseCanvasAgentTurn(r)
      <4>1. \/ UNCHANGED <<turns, transcript>>
            \/ /\ session.turn = run[r].turn /\ session.token = r
               /\ \A x \in Messages \ {run[r].turn} : turns'[x] = turns[x] /\ transcript'[x] = transcript[x]
        BY <2>1, <3>2 DEF finishCanvasAgentTurn, releaseCanvasAgentTurn, HoldsLease, MayRelease, CanvasTypes
      <4> QED
        BY <2>2, <2>4, <4>1
    <3>3. CASE UNCHANGED <<turns, transcript>>
      BY <2>2, <3>3
    <3> QED
      BY <2>5, <3>1, <3>2, <3>3 DEF Loop, Chat, ExecuteCall, ProposeJob, StoreResult, RecoveryDone,
                                    ClaimByRun, Claim
  <2> QED
    BY <2>2, <2>3, <2>5 DEF Next, Step, Disturbance, CreateGeneration, completeCanvasAgentPendingJob, Approve,
          Claim, rejectCanvasAgentPendingJob, CanvasSaved, CanvasDeleted, Abort, Crash, LeaseLapses,
          ClaimLapses, ProposalGetsLate
<1> QED
  BY <1>1, CanvasStarts, CanvasGoesOn, PTL DEF Spec, TurnsStayOver
-----------------------------------------------------------------------------
(* The library. *)
\* Pages of one key, whoever fetched them.
Listed(items, key) ==
    /\ items \in Seq(LibraryAssets)
    /\ \A a \in ToSet(items) : Matches(a, key)
    /\ Descending(items)

PageRow == [items : Seq(LibraryAssets), count : Nat, more : BOOLEAN]
FetchRow == [got : PageRow, left : Nat, next : BOOLEAN]
Filtered == filter \in [typed : Queries, applied : Queries, kind : KindTabs]
Loads ==
    /\ loaded \in [QueryKeys -> PageRow]
    /\ \A key \in QueryKeys : Listed(loaded[key].items, key)
Fetches ==
    /\ fetching \in [QueryKeys -> FetchRow]
    /\ \A key \in QueryKeys : Listed(fetching[key].got.items, key)
Chosen == \A a \in selected : Matches(a, Key)
LibraryInv == made \subseteq LibraryAssets /\ Filtered /\ Loads /\ Fetches /\ Chosen

LEMMA Assets == LibraryAssets \subseteq Nat \ {0} /\ <<>> \in Seq(LibraryAssets) /\ \A key : Listed(<<>>, key)
<1>1. LibraryAssets = 1 .. Len(Gallery) /\ Len(Gallery) \in Nat
  <2>1. PICK S : Gallery \in Seq(S)
    BY LibraryAssumption
  <2> QED
    BY <2>1 DEF LibraryAssets
<1>2. <<>> \in Seq(LibraryAssets) /\ DOMAIN <<>> = {} /\ ToSet(<<>>) = {}
  BY DEF ToSet
<1>3. \A key : Listed(<<>>, key)
  BY <1>2 DEF Listed, Descending
<1> QED
  BY <1>1, <1>2, <1>3

\* A page that follows what was got makes a longer list of the same kind.
LEMMA Follows ==
    ASSUME NEW key \in QueryKeys, NEW got, Listed(got, key),
           NEW page \in listLibrary(key, IF got = <<>> THEN 0 ELSE Last(got)),
           made \subseteq LibraryAssets
    PROVE  Listed(got \o page.items, key) /\ page.more \in BOOLEAN
<1> DEFINE cursor == IF got = <<>> THEN 0 ELSE Last(got)
           rows == {a \in Alive : Matches(a, key) /\ (cursor = 0 \/ a < cursor)}
           s == page.items
<1>1. rows \subseteq LibraryAssets /\ \A a \in rows : Matches(a, key) /\ (cursor = 0 \/ a < cursor)
  BY DEF Alive
<1>0. PICK items : /\ page = [items |-> items, more |-> rows # ToSet(items)]
                   /\ items \in UNION {[1 .. n -> rows] : n \in 0 .. PageSize}
                   /\ Descending(items)
  BY DEF listLibrary
<1>2. PICK n \in 0 .. PageSize : s \in [1 .. n -> rows]
  BY <1>0
<1>3. Descending(s) /\ page.more \in BOOLEAN
  BY <1>0
<1>4. n \in Nat /\ s \in Seq(rows) /\ Len(s) = n /\ s \in Seq(LibraryAssets)
  <2> HIDE DEF s, rows
  <2>0. PageSize \in Nat
    BY LibraryAssumption
  <2>1. n \in Nat
    BY <1>2, <2>0
  <2>2. s \in [1 .. n -> LibraryAssets]
    BY <1>1, <1>2
  <2> QED
    BY <1>2, <2>1, <2>2, SeqDef
<1>5. got \in Seq(LibraryAssets) /\ Len(got) \in Nat /\ Descending(got) /\ \A i \in DOMAIN got : Matches(got[i], key)
  BY DEF Listed, ToSet
<1>6. got # <<>> => cursor = got[Len(got)] /\ cursor # 0 /\ Len(got) > 0
  BY <1>5, Assets DEF Last
<1> HIDE DEF s, rows, cursor
<1> DEFINE both == got \o s
<1>7. /\ both \in Seq(LibraryAssets) /\ Len(both) = Len(got) + n
      /\ \A i \in 1 .. Len(got) : both[i] = got[i]
      /\ \A i \in Len(got) + 1 .. Len(got) + n : both[i] = s[i - Len(got)]
  BY <1>4, <1>5
<1> HIDE DEF both
<1>8. \A i \in DOMAIN both : Matches(both[i], key)
  <2> SUFFICES ASSUME NEW i \in 1 .. Len(got) + n PROVE Matches(both[i], key)
    BY <1>7
  <2>1. CASE i \in 1 .. Len(got)
    BY <1>5, <1>7, <2>1
  <2>2. CASE i \in Len(got) + 1 .. Len(got) + n
    <3>1. i - Len(got) \in 1 .. n
      BY <1>4, <1>5, <2>2
    <3> QED
      BY <1>1, <1>2, <1>7, <2>2, <3>1
  <2> QED
    BY <1>4, <1>5, <2>1, <2>2
<1>9. Descending(both)
  <2> SUFFICES ASSUME NEW i \in 2 .. Len(got) + n PROVE both[i] < both[i - 1]
    BY <1>4, <1>5, <1>7 DEF Descending
  <2>1. CASE i \in 1 .. Len(got)
    <3>1. i - 1 \in 1 .. Len(got) /\ i \in DOMAIN got /\ i > 1
      BY <1>5, <2>1
    <3> QED
      BY <1>5, <1>7, <2>1, <3>1 DEF Descending
  <2>2. CASE i = Len(got) + 1
    <3>1. got # <<>> /\ i - 1 = Len(got) /\ Len(got) \in 1 .. Len(got) /\ n >= 1 /\ 1 \in 1 .. n
      BY <1>4, <1>5, <2>2
    <3>2. both[i] = s[1] /\ s[1] \in rows
      BY <1>2, <1>4, <1>5, <1>7, <2>2, <3>1
    <3>3. both[i - 1] = cursor
      BY <1>6, <1>7, <3>1
    <3> QED
      BY <1>1, <1>6, <3>1, <3>2, <3>3
  <2>3. CASE i \in Len(got) + 2 .. Len(got) + n
    <3>1. /\ i - Len(got) \in 2 .. n /\ i - 1 \in Len(got) + 1 .. Len(got) + n
          /\ (i - 1) - Len(got) = (i - Len(got)) - 1 /\ i \in Len(got) + 1 .. Len(got) + n
      BY <1>4, <1>5, <2>3
    <3>2. \A j \in 2 .. n : s[j] < s[j - 1]
      BY <1>2, <1>3, <1>4 DEF Descending
    <3> QED
      BY <1>7, <3>1, <3>2
  <2> QED
    BY <1>4, <1>5, <2>1, <2>2, <2>3
<1> QED
  BY <1>3, <1>7, <1>8, <1>9 DEF Listed, both, s, ToSet

LEMMA LibraryStarts == LibraryInit => LibraryInv
<1> SUFFICES ASSUME LibraryInit PROVE LibraryInv
  OBVIOUS
<1>1. NoPages \in PageRow /\ NoPages.items = <<>>
  BY Assets DEF NoPages, PageRow
<1>2. \A k \in QueryKeys :
        loaded[k] = NoPages /\ fetching[k].got = NoPages /\ fetching[k] \in FetchRow
  BY <1>1 DEF LibraryInit, NoPageFetch, FetchRow
<1>3. Filtered
  BY LibraryAssumption DEF LibraryInit, Queries, Filtered
<1>4. Loads
  BY <1>1, <1>2, Assets DEF LibraryInit, Loads
<1>5. fetching \in [QueryKeys -> FetchRow]
  BY <1>2 DEF LibraryInit
<1>6. Fetches
  BY <1>1, <1>2, <1>5, Assets DEF Fetches
<1> QED
  BY <1>3, <1>4, <1>6 DEF LibraryInv, LibraryInit, Chosen

\* The fetches that the page starts or ends.
Fetchable(key, f) == f \in FetchRow /\ Listed(f.got.items, key)
LEMMA NewFetches ==
    ASSUME LibraryInv, NEW key \in QueryKeys
    PROVE  Fetchable(key, NoPageFetch) /\ Fetchable(key, WholeFetch(key)) /\ Fetchable(key, Refetched(key))
<1>1. NoPages \in PageRow /\ NoPages.items = <<>> /\ loaded[key].count \in Nat
  BY Assets DEF NoPages, PageRow, LibraryInv, Loads
<1>2. Fetchable(key, NoPageFetch)
  BY <1>1, Assets DEF Fetchable, NoPageFetch, FetchRow
<1>3. Fetchable(key, WholeFetch(key))
  BY <1>1, Assets DEF Fetchable, WholeFetch, FetchRow
<1>4. Fetchable(key, fetching[key])
  BY DEF Fetchable, LibraryInv, Fetches
<1> QED
  BY <1>2, <1>3, <1>4 DEF Refetched

LEMMA FetchReplaced ==
    ASSUME LibraryInv, NEW key \in QueryKeys, NEW f, Fetchable(key, f), fetching' = [fetching EXCEPT ![key] = f]
    PROVE  Fetches'
BY DEF LibraryInv, Fetches, Fetchable

LEMMA LoadReplaced ==
    ASSUME LibraryInv, NEW key \in QueryKeys, NEW p \in PageRow, Listed(p.items, key),
           loaded' = [loaded EXCEPT ![key] = p]
    PROVE  Loads'
BY DEF LibraryInv, Loads

LEMMA KeyTyped == ASSUME NEW f \in [typed : Queries, applied : Queries, kind : KindTabs] PROVE KeyOf(f) \in QueryKeys
BY DEF KeyOf, QueryKeys

\* A page of a fetch arrives.
LEMMA PageArrives ==
    ASSUME LibraryInv, NEW key \in QueryKeys, FetchPage(key)
    PROVE  LibraryInv'
<1> DEFINE f == fetching[key]
           cursor == IF f.got.items = <<>> THEN 0 ELSE Last(f.got.items)
           page0(page) == [items |-> f.got.items \o page.items, count |-> f.got.count + 1, more |-> page.more]
<1>1. f \in FetchRow /\ f.got \in PageRow /\ f.got.count + 1 \in Nat /\ Listed(f.got.items, key) /\ f.left \in Nat
  BY DEF LibraryInv, Fetches, FetchRow, PageRow
<1>2. PICK page \in listLibrary(key, cursor) :
        IF f.left = 1 \/ ~page.more
          THEN /\ loaded' = [loaded EXCEPT ![key] = page0(page)]
               /\ fetching' = [fetching EXCEPT ![key] = NoPageFetch]
          ELSE /\ fetching' = [fetching EXCEPT ![key] = [f EXCEPT !.got = page0(page), !.left = @ - 1]]
               /\ UNCHANGED loaded
  BY DEF FetchPage
<1> DEFINE got == page0(page)
<1>3. Listed(f.got.items \o page.items, key) /\ page.more \in BOOLEAN
  BY <1>1, Follows DEF LibraryInv
<1>4. got \in PageRow /\ Listed(got.items, key)
  BY <1>1, <1>3 DEF PageRow, Listed
<1>5. UNCHANGED <<made, filter, selected>> /\ f.left > 0
  BY DEF FetchPage, Busy
<1> HIDE DEF got
<1>6. Loads' /\ Fetches'
  <2>1. CASE f.left = 1 \/ ~page.more
    <3>1. /\ loaded' = [loaded EXCEPT ![key] = got]
          /\ fetching' = [fetching EXCEPT ![key] = NoPageFetch]
      BY <1>2, <2>1 DEF got
    <3> QED
      BY <1>4, <3>1, NewFetches, FetchReplaced, LoadReplaced
  <2>2. CASE ~ (f.left = 1 \/ ~page.more)
    <3> DEFINE g == [f EXCEPT !.got = got, !.left = @ - 1]
    <3>1. fetching' = [fetching EXCEPT ![key] = g] /\ UNCHANGED loaded
      BY <1>2, <2>2 DEF got
    <3>2. g \in FetchRow /\ g.got = got
      <4>1. f.left - 1 \in Nat
        BY <1>1, <1>5
      <4> HIDE DEF f
      <4> QED
        BY <1>1, <1>4, <4>1 DEF FetchRow
    <3> HIDE DEF g
    <3>3. Fetches'
      BY <1>4, <3>1, <3>2, FetchReplaced DEF Fetchable
    <3> QED
      BY <3>1, <3>3 DEF LibraryInv, Loads
  <2> QED
    BY <2>1, <2>2
<1> QED
  BY <1>5, <1>6 DEF LibraryInv, Filtered, Chosen, Key

LEMMA LibraryGoesOn == LibraryInv /\ [LibraryNext]_libraryVars => LibraryInv'
<1> SUFFICES ASSUME LibraryInv, [LibraryNext]_libraryVars PROVE LibraryInv'
  OBVIOUS
<1>0. /\ made \subseteq LibraryAssets /\ Filtered /\ Loads /\ Fetches /\ Chosen /\ Key \in QueryKeys
      /\ \A k \in QueryKeys : \A a \in AssetsOf(loaded[k]) : Matches(a, k)
  BY KeyTyped DEF LibraryInv, Filtered, Key, Loads, Listed, AssetsOf
<1>1. ASSUME made' \subseteq LibraryAssets, UNCHANGED <<filter, loaded>>,
             UNCHANGED fetching \/ Fetches', selected' \subseteq selected \cup VisibleAssets
      PROVE  LibraryInv'
  <2>1. Filtered' /\ Loads' /\ Key' = Key
    BY <1>0, <1>1 DEF Filtered, Loads, Key
  <2>2. Fetches'
    BY <1>0, <1>1 DEF Fetches
  <2>3. Chosen'
    BY <1>0, <1>1, <2>1 DEF Chosen, VisibleAssets
  <2> QED
    BY <1>1, <2>1, <2>2, <2>3 DEF LibraryInv
<1>2. ASSUME NEW key \in QueryKeys, fetching' = [fetching EXCEPT ![key] = Refetched(key)] PROVE Fetches'
  BY <1>2, NewFetches, FetchReplaced
<1>3. ASSUME NEW key \in QueryKeys, Observe(key) PROVE Fetches'
  BY <1>0, <1>3, NewFetches, FetchReplaced DEF Observe, Fetches
<1>4. CASE JobStores \/ UNCHANGED libraryVars
  BY <1>0, <1>1, <1>4 DEF JobStores, libraryVars
<1>5. CASE fetchNextPage
  <2> DEFINE f == [got |-> loaded[Key], left |-> 1, next |-> TRUE]
  <2>1. Fetchable(Key, f)
    BY <1>0 DEF Fetchable, FetchRow, Loads
  <2>2. fetching' = [fetching EXCEPT ![Key] = f]
    BY <1>5 DEF fetchNextPage
  <2> HIDE DEF f
  <2>3. Fetches'
    BY <1>0, <2>1, <2>2, FetchReplaced
  <2> QED
    BY <1>0, <1>1, <1>5, <2>3 DEF fetchNextPage
<1>6. CASE RefetchLibrary
  BY <1>0, <1>1, <1>2, <1>6 DEF RefetchLibrary
<1>7. ASSUME NEW key \in QueryKeys, FetchFails(key) PROVE LibraryInv'
  BY <1>0, <1>1, <1>7, NewFetches, FetchReplaced DEF FetchFails
<1>8. ASSUME NEW key \in QueryKeys, CacheCollected(key) PROVE LibraryInv'
  <2>1. NoPages \in PageRow /\ NoPages.items = <<>>
    BY Assets DEF NoPages, PageRow
  <2>2. Loads'
    BY <1>8, <2>1, Assets, LoadReplaced DEF CacheCollected
  <2> QED
    BY <1>0, <1>8, <2>2 DEF CacheCollected, LibraryInv, Filtered, Fetches, Chosen, Key
<1>9. ASSUME NEW f \in [typed : Queries, applied : Queries, kind : KindTabs], SetFilter(f) PROVE LibraryInv'
  <2>1. /\ filter' = f /\ selected' = SelectionAfter(f) /\ UNCHANGED <<made, loaded>> /\ Key' = KeyOf(f)
        /\ IF KeyOf(f) = Key THEN UNCHANGED fetching ELSE Observe(KeyOf(f))
    BY <1>9 DEF SetFilter, Key
  <2>2. Fetches'
    BY <1>0, <1>3, <2>1, KeyTyped DEF Fetches
  <2>3. Chosen'
    BY <1>0, <2>1 DEF Chosen, SelectionAfter
  <2> QED
    BY <1>0, <2>1, <2>2, <2>3 DEF LibraryInv, Filtered, Loads
<1>10. CASE setSearchQuery \/ setFilterKind \/ Debounced \/ clearQuery \/ clearFilters
  <2>1. filter \in [typed : Queries, applied : Queries, kind : KindTabs] /\ "" \in Queries /\ "all" \in KindTabs
    BY <1>0, LibraryAssumption DEF Filtered, Queries
  <2>2. ASSUME NEW q \in Queries
        PROVE  /\ [filter EXCEPT !.typed = q] \in [typed : Queries, applied : Queries, kind : KindTabs]
               /\ [filter EXCEPT !.applied = filter.typed] \in [typed : Queries, applied : Queries, kind : KindTabs]
               /\ [filter EXCEPT !.typed = q, !.applied = q] \in [typed : Queries, applied : Queries, kind : KindTabs]
    BY <2>1
  <2>3. ASSUME NEW kind \in KindTabs
        PROVE  [filter EXCEPT !.kind = kind] \in [typed : Queries, applied : Queries, kind : KindTabs]
    BY <2>1
  <2>4. CASE setSearchQuery
    BY <1>9, <2>2, <2>4 DEF setSearchQuery
  <2>5. CASE setFilterKind
    BY <1>9, <2>3, <2>5 DEF setFilterKind
  <2>6. CASE Debounced
    BY <1>9, <2>1, <2>2, <2>6 DEF Debounced
  <2>7. CASE clearQuery
    BY <1>9, <2>1, <2>2, <2>7 DEF clearQuery
  <2>8. CASE clearFilters
    BY <1>9, <2>1, <2>8 DEF clearFilters
  <2> QED
    BY <1>10, <2>4, <2>5, <2>6, <2>7, <2>8
<1>11. ASSUME NEW link \in QueryKeys, OpenPage(link) PROVE LibraryInv'
  <2>1. Filtered'
    <3>1. filter.typed \in Queries /\ filter.kind \in KindTabs /\ link.q \in Queries /\ link.kind \in KindTabs
      BY <1>0 DEF Filtered, QueryKeys
    <3> QED
      BY <1>11, <3>1 DEF OpenPage, Filtered
  <2>2. Observe(KeyOf(filter')) /\ KeyOf(filter') \in QueryKeys
    BY <1>11, <2>1, KeyTyped DEF OpenPage, Filtered
  <2>3. Fetches'
    BY <1>3, <2>2
  <2> QED
    BY <1>0, <1>11, <2>1, <2>3 DEF OpenPage, LibraryInv, Loads, Chosen
<1>12. CASE selectAllAssets
  BY <1>0, <1>1, <1>12 DEF selectAllAssets
<1>13. ASSUME NEW a \in VisibleAssets, toggleSelectAsset(a) PROVE LibraryInv'
  BY <1>0, <1>1, <1>13 DEF toggleSelectAsset
<1>14. ASSUME NEW a, confirmSingleDelete(a) PROVE LibraryInv'
  BY <1>0, <1>1, <1>14 DEF confirmSingleDelete
<1>15. ASSUME NEW b \in 1 .. MaxBatches, confirmBatchDelete(b) PROVE LibraryInv'
  BY <1>0, <1>1, <1>15 DEF confirmBatchDelete
<1>16. ASSUME NEW b \in 1 .. MaxBatches, NEW a, BatchDeleted(b, a) \/ BatchFails(b, a) PROVE LibraryInv'
  BY <1>0, <1>1, <1>2, <1>16 DEF BatchDeleted, BatchFails
<1>17. ASSUME NEW a, DeleteAnswered(a) PROVE LibraryInv'
  BY <1>0, <1>1, <1>2, <1>17 DEF DeleteAnswered
<1> QED
  BY <1>4, <1>5, <1>6, <1>7, <1>8, <1>10, <1>11, <1>12, <1>13, <1>14, <1>15, <1>16, <1>17, PageArrives
     DEF LibraryNext

\* What is selected, and so what a bulk delete acts on, matches the filter; and the pages of a
\* key, however they were fetched, are one list from new to old.
THEOREM SelectionStaysInFilter == LibrarySpec => []SelectionInFilter
<1>1. LibraryInv => SelectionInFilter
  BY DEF LibraryInv, Chosen, Loads, Listed, SelectionInFilter, AssetsOf
<1> QED
  BY <1>1, LibraryStarts, LibraryGoesOn, PTL DEF LibrarySpec
-----------------------------------------------------------------------------
(* The staged images. *)
ItemRow == [ id : Nat \cup GalleryAssets, status : {"pending", "uploading", "processing", "ready", "error"},
             upload : Nat ]
RowOfUpload == [ item : Nat, status : {"pending", "ready", "deleted", "attached"},
                 known : BOOLEAN, kept : BOOLEAN, verified : BOOLEAN ]
TaskRow == [ kind : {"decode", "presign", "post", "complete", "delete"}, item : Nat, upload : Nat,
             then : {"end", "upload", "clear"}, rest : Seq(ItemRow), n : Nat ]
StagingTypes ==
    /\ staged \in Seq(ItemRow) /\ picked \in Nat
    /\ uploadRows \in Seq(RowOfUpload) /\ Len(uploadRows) <= MaxUploadRows
    /\ tasks \subseteq TaskRow /\ IsFiniteSet(tasks)

\* An upload that an image or a task names is that image's.
Names(id, upload) == upload # NoUpload => upload \in DOMAIN uploadRows /\ uploadRows[upload].item = id
Picked(id) == id \in Nat => id <= picked

SoundItem(x) ==
    /\ Picked(x.id) /\ Names(x.id, x.upload)
    /\ x.id \in GalleryAssets => x.status = "ready" /\ x.upload = NoUpload
    /\ x.status = "pending" => x.upload = NoUpload
    /\ x.status = "ready" /\ x.id \in Nat => x.upload # NoUpload /\ uploadRows[x.upload].verified
Images == \A i \in DOMAIN staged : SoundItem(staged[i])
Distinct == \A i, j \in DOMAIN staged : staged[i].id = staged[j].id => i = j

\* Images that still wait for their deletion are off the list.
SoundRest(x) ==
    /\ Picked(x.id) /\ Names(x.id, x.upload)
    /\ x.upload # NoUpload => x.id \in Nat /\ ~isStaged(x.id)
SoundTask(t) ==
    /\ Picked(t.item) /\ Names(t.item, t.upload)
    /\ t.kind \in {"post", "complete", "delete"} => t.upload # NoUpload
    /\ t.kind = "delete" /\ t.then # "upload" => ~isStaged(t.item)
    /\ t.then # "clear" => t.rest = <<>>
    /\ \A i \in DOMAIN t.rest : SoundRest(t.rest[i])

\* The one task of an image that is staged tells how far it is.
Fits(t, x) ==
    /\ t.kind = "decode" => x.status = "pending"
    /\ t.kind = "presign" => x.status = "uploading" /\ x.upload = NoUpload
    /\ t.kind = "post" => x.status = "uploading" /\ x.upload = t.upload
    /\ t.kind = "complete" => x.status = "processing" /\ x.upload = t.upload
    /\ t.kind = "delete" => t.then = "upload" /\ x.status = "error" /\ x.upload = t.upload
Work == \A t \in tasks : SoundTask(t)
Fitting == \A t \in tasks : \A i \in DOMAIN staged : staged[i].id = t.item => Fits(t, staged[i])
OneTask == \A t1, t2 \in tasks : t1.item = t2.item /\ isStaged(t1.item) => t1 = t2

Verified == \A u \in DOMAIN uploadRows : uploadRows[u].status \in {"ready", "attached"} => uploadRows[u].verified
Owed(u) == uploadRows[u].known /\ uploadRows[u].status \in {"pending", "ready"} /\ ~uploadRows[u].kept
Accounted == \A u \in DOMAIN uploadRows : Owed(u) => Handled(u)

\* A request under way has the images as they are staged.
Requested ==
    request.kind = "generate" =>
        /\ request.inputs \in Seq(Nat \cup GalleryAssets) /\ Len(request.inputs) = Len(staged)
        /\ \A i \in DOMAIN staged :
              /\ staged[i].status = "ready"
              /\ request.inputs[i] = IF staged[i].upload # NoUpload THEN staged[i].upload ELSE staged[i].id

UploadsInv ==
    /\ StagingTypes /\ Images /\ Distinct /\ Work /\ Fitting /\ OneTask
    /\ Verified /\ Accounted /\ Requested

RowsAdvance ==
    /\ uploadRows' \in Seq(RowOfUpload) /\ Len(uploadRows') <= MaxUploadRows
    /\ DOMAIN uploadRows \subseteq DOMAIN uploadRows'
    /\ \A u \in DOMAIN uploadRows :
          /\ uploadRows'[u].item = uploadRows[u].item
          /\ uploadRows[u].verified => uploadRows'[u].verified
    /\ Verified'

LEMMA Removal ==
    ASSUME NEW S, NEW s \in Seq(S), NEW k \in DOMAIN s
    PROVE  /\ RemoveAt(s, k) \in Seq(S) /\ Len(RemoveAt(s, k)) = Len(s) - 1
           /\ \A i \in 1 .. Len(s) - 1 : RemoveAt(s, k)[i] = IF i < k THEN s[i] ELSE s[i + 1]
<1>1. SubSeq(s, 1, k - 1) \in Seq(S) /\ Len(SubSeq(s, 1, k - 1)) = k - 1
      /\ \A i \in 1 .. k - 1 : SubSeq(s, 1, k - 1)[i] = s[i]
  OBVIOUS
<1>2. SubSeq(s, k + 1, Len(s)) \in Seq(S) /\ Len(SubSeq(s, k + 1, Len(s))) = Len(s) - k
      /\ \A i \in 1 .. Len(s) - k : SubSeq(s, k + 1, Len(s))[i] = s[k + i]
  OBVIOUS
<1> DEFINE before == SubSeq(s, 1, k - 1)  after == SubSeq(s, k + 1, Len(s))
<1>3. \A i \in 1 .. Len(s) - 1 : i >= k => after[i - k + 1] = s[i + 1]
  <2> SUFFICES ASSUME NEW i \in 1 .. Len(s) - 1, i >= k
               PROVE  after[i - k + 1] = s[i + 1]
    OBVIOUS
  <2>1. k + (i - k + 1) = i + 1 /\ i - k + 1 \in 1 .. Len(s) - k
    OBVIOUS
  <2> QED
    BY <1>2, <2>1, SMTT(30)
<1>4. /\ before \o after \in Seq(S) /\ Len(before \o after) = Len(s) - 1
      /\ \A i \in 1 .. Len(s) - 1 : (before \o after)[i] = IF i < k THEN before[i] ELSE after[i - k + 1]
  <2> HIDE DEF before, after
  <2>1. Len(before) = k - 1 /\ Len(after) = Len(s) - k /\ before \in Seq(S) /\ after \in Seq(S)
    BY <1>1, <1>2 DEF before, after
  <2> QED
    BY <2>1, SMTT(30)
<1>5. RemoveAt(s, k) = before \o after
  BY DEF RemoveAt
<1>6. \A i \in 1 .. Len(s) - 1 : RemoveAt(s, k)[i] = IF i < k THEN s[i] ELSE s[i + 1]
  <2> SUFFICES ASSUME NEW i \in 1 .. Len(s) - 1
               PROVE  RemoveAt(s, k)[i] = IF i < k THEN s[i] ELSE s[i + 1]
    OBVIOUS
  <2>1. RemoveAt(s, k)[i] = IF i < k THEN before[i] ELSE after[i - k + 1]
    BY <1>4, <1>5
  <2>2. i < k => before[i] = s[i]
    BY <1>1
  <2>3. i >= k => after[i - k + 1] = s[i + 1]
    BY <1>3
  <2> HIDE DEF before, after
  <2> QED
    BY <2>1, <2>2, <2>3
<1> QED
  BY <1>4, <1>5, <1>6

LEMMA Remainder ==
    ASSUME NEW S, NEW s \in Seq(S), NEW k \in DOMAIN s
    PROVE  /\ SubSeq(s, k + 1, Len(s)) \in Seq(S) /\ Len(SubSeq(s, k + 1, Len(s))) = Len(s) - k
           /\ \A i \in 1 .. Len(s) - k : SubSeq(s, k + 1, Len(s))[i] = s[k + i]
  OBVIOUS

\* A step about one image: what happens to it and to its task.
LEMMA OneImage ==
    ASSUME UploadsInv, NEW id \in Nat, NEW old \in SUBSET tasks, NEW new \in SUBSET TaskRow, IsFiniteSet(new),
           UNCHANGED <<picked, request>>, RowsAdvance,
           tasks' = (tasks \ old) \cup new,
           staged' \in Seq(ItemRow), Len(staged') = Len(staged),
           \A i \in DOMAIN staged : staged'[i].id = staged[i].id,
           \A i \in DOMAIN staged : staged[i].id # id => staged'[i] = staged[i],
           \A i \in DOMAIN staged : staged[i].id = id =>
               SoundItem(staged[i])' /\ \A t \in new : Fits(t, staged'[i]),
           \A t \in new : t.item = id /\ SoundTask(t)',
           \A t1, t2 \in new : t1 = t2,
           isStaged(id) => \A t \in tasks \ old : t.item # id,
           request.kind = "generate" => ~isStaged(id),
           Accounted'
    PROVE  UploadsInv'
<1> USE DEF UploadsInv
<1>1. DOMAIN staged' = DOMAIN staged
  BY DEF StagingTypes
<1>2. StagingTypes'
  <2>1. IsFiniteSet(tasks')
    BY FS_Difference, FS_Union DEF StagingTypes
  <2> QED
    BY <2>1 DEF StagingTypes, RowsAdvance
<1>3. \A x : isStaged(x)' <=> isStaged(x)
  BY <1>1 DEF isStaged
<1>4. \A x, u : Names(x, u) /\ u \in Nat => Names(x, u)'
  BY DEF Names, RowsAdvance, StagingTypes
<1>5. Images'
  <2> SUFFICES ASSUME NEW i \in DOMAIN staged, staged[i].id # id
               PROVE  SoundItem(staged[i])'
    BY <1>1 DEF Images
  <2>1. SoundItem(staged[i]) /\ staged'[i] = staged[i] /\ staged[i] \in ItemRow
    BY DEF Images, StagingTypes
  <2>2. staged[i].upload # NoUpload /\ uploadRows[staged[i].upload].verified => uploadRows'[staged[i].upload].verified
    BY <2>1 DEF SoundItem, Names, RowsAdvance
  <2>3. Names(staged[i].id, staged[i].upload)'
    BY <1>4, <2>1 DEF SoundItem, ItemRow
  <2> QED
    BY <2>1, <2>2, <2>3 DEF SoundItem, Picked
<1>6. Distinct'
  BY <1>1 DEF Distinct
<1>7. Work'
  <2> SUFFICES ASSUME NEW t \in tasks
               PROVE  SoundTask(t)'
    BY DEF Work
  <2>1. SoundTask(t) /\ t \in TaskRow
    BY DEF Work, StagingTypes
  <2>2. \A i \in DOMAIN t.rest : SoundRest(t.rest[i])'
    <3> SUFFICES ASSUME NEW i \in DOMAIN t.rest
                 PROVE  SoundRest(t.rest[i])'
      OBVIOUS
    <3>1. SoundRest(t.rest[i]) /\ t.rest[i] \in ItemRow
      BY <2>1 DEF SoundTask, TaskRow
    <3> QED
      BY <1>3, <1>4, <3>1 DEF SoundRest, Picked, ItemRow
  <2> QED
    BY <1>3, <1>4, <2>1, <2>2 DEF SoundTask, Picked, TaskRow
<1>8. Fitting'
  <2> SUFFICES ASSUME NEW t \in tasks', NEW i \in DOMAIN staged, staged[i].id = t.item
               PROVE  Fits(t, staged'[i])
    BY <1>1 DEF Fitting
  <2>1. CASE t \in new
    BY <2>1
  <2>2. CASE t \in tasks \ old
    <3>1. t.item # id
      BY <2>2 DEF isStaged
    <3> QED
      BY <2>2, <3>1 DEF Fitting
  <2> QED
    BY <2>1, <2>2
<1>9. OneTask'
  BY <1>3 DEF OneTask
<1>10. Requested'
  <2>1. request.kind = "generate" => \A i \in DOMAIN staged : staged[i].id # id
    BY DEF isStaged
  <2> QED
    BY <1>1, <2>1 DEF Requested
<1> QED
  BY <1>2, <1>5, <1>6, <1>7, <1>8, <1>9, <1>10 DEF RowsAdvance

\* A step that takes images off the list, or puts them in another order.
LEMMA Rearranged ==
    ASSUME UploadsInv, NEW old, NEW new \in SUBSET TaskRow, IsFiniteSet(new),
           UNCHANGED picked, RowsAdvance,
           tasks' = (tasks \ old) \cup new,
           staged' \in Seq(ItemRow),
           \A j \in DOMAIN staged' : \E i \in DOMAIN staged : staged'[j] = staged[i],
           Distinct',
           \A t \in new : t.kind = "delete" /\ t.then # "upload" /\ SoundTask(t)',
           Requested', Accounted'
    PROVE  UploadsInv'
<1> USE DEF UploadsInv
<1>2. StagingTypes'
  <2>1. IsFiniteSet(tasks')
    BY FS_Difference, FS_Union DEF StagingTypes
  <2> QED
    BY <2>1 DEF StagingTypes, RowsAdvance
<1>3. \A x : isStaged(x)' => isStaged(x)
  BY DEF isStaged
<1>4. \A x, u : Names(x, u) /\ u \in Nat => Names(x, u)'
  BY DEF Names, RowsAdvance, StagingTypes
<1>5. Images'
  <2> SUFFICES ASSUME NEW i \in DOMAIN staged
               PROVE  SoundItem(staged[i]) => \A j : staged'[j] = staged[i] => SoundItem(staged[j])'
    BY DEF Images
  <2>1. staged[i] \in ItemRow
    BY DEF StagingTypes
  <2>2. SoundItem(staged[i]) /\ staged[i].upload # NoUpload
            /\ uploadRows[staged[i].upload].verified => uploadRows'[staged[i].upload].verified
    BY <2>1 DEF SoundItem, Names, RowsAdvance
  <2>3. SoundItem(staged[i]) => \A j : staged'[j] = staged[i] => Names(staged[j].id, staged[j].upload)'
    BY <1>4, <2>1 DEF SoundItem, ItemRow
  <2> QED
    BY <2>1, <2>2, <2>3 DEF SoundItem, Picked
<1>7. Work'
  <2> SUFFICES ASSUME NEW t \in tasks
               PROVE  SoundTask(t)'
    BY DEF Work
  <2>1. SoundTask(t) /\ t \in TaskRow
    BY DEF Work, StagingTypes
  <2>2. \A i \in DOMAIN t.rest : SoundRest(t.rest[i])'
    <3> SUFFICES ASSUME NEW i \in DOMAIN t.rest
                 PROVE  SoundRest(t.rest[i])'
      OBVIOUS
    <3>1. SoundRest(t.rest[i]) /\ t.rest[i] \in ItemRow
      BY <2>1 DEF SoundTask, TaskRow
    <3> QED
      BY <1>3, <1>4, <3>1 DEF SoundRest, Picked, ItemRow
  <2> QED
    BY <1>3, <1>4, <2>1, <2>2 DEF SoundTask, Picked, TaskRow
<1>8. \A t \in new : ~isStaged(t.item)'
  BY DEF SoundTask
<1>9. Fitting'
  BY <1>8 DEF Fitting, isStaged
<1>10. OneTask'
  BY <1>3, <1>8 DEF OneTask
<1> QED
  BY <1>2, <1>5, <1>7, <1>9, <1>10 DEF RowsAdvance

-----------------------------------------------------------------------------
\* An image that is staged now.
LEMMA Appended ==
    ASSUME UploadsInv, NEW x \in ItemRow, NEW new \in SUBSET TaskRow, IsFiniteSet(new),
           UNCHANGED <<uploadRows, request>>, request.kind # "generate",
           picked' \in Nat, picked <= picked',
           staged' = Append(staged, x), tasks' = tasks \cup new,
           ~isStaged(x.id), SoundItem(x)',
           \A t \in tasks : t.item # x.id
                            /\ \A i \in DOMAIN t.rest : t.rest[i].upload # NoUpload => t.rest[i].id # x.id,
           \A t \in new : t.item = x.id /\ SoundTask(t)' /\ Fits(t, x),
           \A t1, t2 \in new : t1 = t2
    PROVE  UploadsInv'
<1> USE DEF UploadsInv
<1>1. /\ staged' \in Seq(ItemRow) /\ Len(staged') = Len(staged) + 1 /\ DOMAIN staged' = 1 .. Len(staged) + 1
      /\ \A i \in DOMAIN staged : staged'[i] = staged[i]
      /\ staged'[Len(staged) + 1] = x
      /\ DOMAIN staged = 1 .. Len(staged) /\ Len(staged) \in Nat
  BY DEF StagingTypes
<1>2. StagingTypes'
  BY <1>1, FS_Union DEF StagingTypes
<1>3. \A id : isStaged(id)' => isStaged(id) \/ id = x.id
  BY <1>1 DEF isStaged
<1>4. \A i \in DOMAIN staged' : i \in DOMAIN staged \/ (i = Len(staged) + 1 /\ staged'[i] = x)
  BY <1>1
<1>5. \A i \in DOMAIN staged : staged[i].id # x.id
  BY DEF isStaged
<1> HIDE DEF UploadsInv
<1>6. Images'
  <2> SUFFICES ASSUME NEW i \in DOMAIN staged'
               PROVE  SoundItem(staged[i])'
    BY DEF Images
  <2>1. CASE i \in DOMAIN staged
    <3>1. SoundItem(staged[i]) /\ staged'[i] = staged[i] /\ picked \in Nat
      BY <1>1, <2>1 DEF Images, UploadsInv, StagingTypes
    <3> QED
      BY <3>1 DEF SoundItem, Names, Picked
  <2>2. CASE staged'[i] = x
    BY <2>2 DEF SoundItem, Names, Picked
  <2> QED
    BY <1>4, <2>1, <2>2
<1>7. Distinct'
  <2> SUFFICES ASSUME NEW i \in DOMAIN staged', NEW j \in DOMAIN staged', staged'[i].id = staged'[j].id
               PROVE  i = j
    BY DEF Distinct
  <2> QED
    BY <1>1, <1>4, <1>5 DEF UploadsInv, Distinct
<1>8. Work'
  <2> SUFFICES ASSUME NEW t \in tasks
               PROVE  SoundTask(t)'
    BY DEF Work
  <2>1. SoundTask(t) /\ t \in TaskRow /\ picked \in Nat
    BY DEF Work, UploadsInv, StagingTypes
  <2>2. \A i \in DOMAIN t.rest : SoundRest(t.rest[i])'
    BY <1>3, <2>1 DEF SoundTask, SoundRest, Picked, Names
  <2> QED
    BY <1>3, <2>1, <2>2 DEF SoundTask, Picked, TaskRow, Names
<1>9. Fitting'
  <2> SUFFICES ASSUME NEW t \in tasks', NEW i \in DOMAIN staged', staged'[i].id = t.item
               PROVE  Fits(t, staged'[i])
    BY DEF Fitting
  <2> QED
    BY <1>1, <1>4, <1>5 DEF UploadsInv, Fitting
<1>10. OneTask'
  BY <1>3 DEF OneTask, UploadsInv
<1>11. Verified' /\ Requested'
  BY DEF Verified, Requested, UploadsInv
<1>12. Accounted'
  BY <1>1 DEF Accounted, Owed, Handled, UploadsInv
<1> QED
  BY <1>2, <1>6, <1>7, <1>8, <1>9, <1>10, <1>11, <1>12 DEF UploadsInv

\* A task and the image it is about, if that is still staged.
LEMMA ItsImage ==
    ASSUME UploadsInv, NEW t \in tasks
    PROVE  /\ t \in TaskRow /\ SoundTask(t) /\ t.item <= picked /\ picked \in Nat
           /\ \A i \in DOMAIN staged : /\ staged[i] \in ItemRow /\ SoundItem(staged[i])
                                       /\ staged[i].id = t.item => Fits(t, staged[i]) /\ staged[i].status # "ready"
           /\ isStaged(t.item) => request.kind # "generate" /\ \A other \in tasks \ {t} : other.item # t.item
<1> USE DEF UploadsInv
<1>1. t \in TaskRow /\ SoundTask(t) /\ t.item <= picked /\ picked \in Nat
  BY DEF StagingTypes, Work, SoundTask, Picked, TaskRow
<1>2. \A i \in DOMAIN staged : /\ staged[i] \in ItemRow /\ SoundItem(staged[i])
                               /\ staged[i].id = t.item => Fits(t, staged[i])
  BY DEF StagingTypes, Images, Fitting
<1>3. \A i \in DOMAIN staged : Fits(t, staged[i]) => staged[i].status # "ready"
  BY <1>1 DEF Fits, TaskRow
<1>4. isStaged(t.item) => request.kind # "generate" /\ \A other \in tasks \ {t} : other.item # t.item
  BY <1>2, <1>3 DEF isStaged, OneTask, Requested
<1> QED
  BY <1>1, <1>2, <1>3, <1>4

\* Nobody loses an upload when images keep theirs and deletions stay.
LEMMA StaysAccounted ==
    ASSUME UploadsInv,
           \A u \in DOMAIN uploadRows' : Owed(u)' => (u \in DOMAIN uploadRows /\ Owed(u)) \/ Handled(u)',
           \A i \in DOMAIN staged : \E j \in DOMAIN staged' : staged'[j].upload = staged[i].upload,
           \A t \in tasks : t.kind = "delete" => t \in tasks'
    PROVE  Accounted'
  BY DEF UploadsInv, Accounted, Handled

LEMMA RowsStay ==
    ASSUME UploadsInv, UNCHANGED uploadRows
    PROVE  RowsAdvance
  BY DEF UploadsInv, StagingTypes, RowsAdvance, Verified

LEMMA FileStaged ==
    ASSUME UploadsInv, addReferenceFiles
    PROVE  UploadsInv'
<1>0. PICK id : id = picked + 1
  OBVIOUS
<1> DEFINE x == [id |-> id, status |-> "pending", upload |-> NoUpload]
           new == {Waiting("decode", id, NoUpload)}
<1>1. /\ request.kind = "none" /\ UNCHANGED <<uploadRows, request>> /\ picked' = id
      /\ staged' = Append(staged, x) /\ tasks' = tasks \cup new
  BY <1>0 DEF addReferenceFiles, Idle_
<1>2. picked \in Nat /\ picked + 1 = id /\ id \in Nat /\ x \in ItemRow /\ new \subseteq TaskRow
  BY <1>0 DEF UploadsInv, StagingTypes, ItemRow, TaskRow, Waiting, NoUpload
<1>3. id \notin GalleryAssets /\ IsFiniteSet(new)
  BY <1>2, ReferenceAssumption, FS_Singleton
<1>4. ~isStaged(x.id)
  BY <1>2 DEF isStaged, UploadsInv, Images, SoundItem, Picked
<1>5. \A t \in tasks : t.item # x.id
          /\ \A i \in DOMAIN t.rest : t.rest[i].upload # NoUpload => t.rest[i].id # x.id
  <2> SUFFICES ASSUME NEW t \in tasks
               PROVE  t.item # x.id
                      /\ \A i \in DOMAIN t.rest : t.rest[i].upload # NoUpload => t.rest[i].id # x.id
    OBVIOUS
  <2>1. t \in TaskRow /\ SoundTask(t)
    BY ItsImage
  <2> QED
    BY <1>2, <2>1 DEF SoundTask, SoundRest, Picked, TaskRow
<1>6. SoundItem(x)'
  BY <1>1, <1>2, <1>3 DEF SoundItem, Picked, Names
<1>7. \A t \in new : t.item = x.id /\ SoundTask(t)' /\ Fits(t, x)
  BY <1>1, <1>2 DEF Waiting, SoundTask, Picked, Names, Fits
<1> HIDE DEF x, new
<1>8. x.id = id /\ \A t1, t2 \in new : t1 = t2
  BY DEF x, new
<1> QED
  BY <1>1, <1>2, <1>3, <1>4, <1>5, <1>6, <1>7, <1>8, Appended

LEMMA GalleryStaged ==
    ASSUME UploadsInv, NEW a \in GalleryAssets, addGalleryImage(a)
    PROVE  UploadsInv'
<1> DEFINE x == [id |-> a, status |-> "ready", upload |-> NoUpload]
<1>1. /\ request.kind = "none" /\ UNCHANGED <<uploadRows, request, picked, tasks>> /\ ~isStaged(a)
      /\ staged' = Append(staged, x)
  BY DEF addGalleryImage, Idle_
<1>2. picked \in Nat /\ x \in ItemRow /\ a \notin Nat
  BY ReferenceAssumption DEF UploadsInv, StagingTypes, ItemRow, NoUpload
<1>3. SoundItem(x)'
  BY <1>2 DEF SoundItem, Picked, Names
<1>5. \A t \in tasks : t.item # x.id
          /\ \A i \in DOMAIN t.rest : t.rest[i].upload # NoUpload => t.rest[i].id # x.id
  <2> SUFFICES ASSUME NEW t \in tasks
               PROVE  t.item # x.id
                      /\ \A i \in DOMAIN t.rest : t.rest[i].upload # NoUpload => t.rest[i].id # x.id
    OBVIOUS
  <2>1. t \in TaskRow /\ SoundTask(t)
    BY ItsImage
  <2> QED
    BY <1>2, <2>1 DEF SoundTask, SoundRest, TaskRow
<1>6. x.id = a
  OBVIOUS
<1> HIDE DEF x
<1>7. IsFiniteSet({}) /\ {} \in SUBSET TaskRow
  BY FS_EmptySet
<1> QED
  BY <1>1, <1>2, <1>3, <1>5, <1>6, <1>7, Appended

\* Patching one image to a status, and going on with its task or ending it.
LEMMA Patched ==
    ASSUME UploadsInv, NEW t \in tasks, NEW status \in {"uploading", "processing", "ready", "error"},
           NEW new \in SUBSET TaskRow, IsFiniteSet(new),
           patch(t.item, status), tasks' = (tasks \ {t}) \cup new,
           UNCHANGED <<picked, request>>, RowsAdvance,
           \A x \in new : x.item = t.item /\ SoundTask(x)',
           \A x, y \in new : x = y,
           \A i \in DOMAIN staged : staged[i].id = t.item =>
               /\ status = "ready" => staged[i].upload # NoUpload /\ uploadRows'[staged[i].upload].verified
               /\ \A x \in new : Fits(x, [staged[i] EXCEPT !.status = status]),
           \A u \in DOMAIN uploadRows' : Owed(u)' => (u \in DOMAIN uploadRows /\ Owed(u)) \/ Handled(u)',
           t.kind # "delete"
    PROVE  UploadsInv'
<1>1. /\ t \in TaskRow /\ t.item \in Nat
      /\ isStaged(t.item) => request.kind # "generate" /\ \A other \in tasks \ {t} : other.item # t.item
  BY ItsImage DEF TaskRow
<1>2. staged \in Seq(ItemRow) /\ \A i \in DOMAIN staged : staged[i] \in ItemRow
  BY DEF UploadsInv, StagingTypes
<1>3. /\ staged' \in Seq(ItemRow) /\ Len(staged') = Len(staged) /\ DOMAIN staged' = DOMAIN staged
      /\ \A i \in DOMAIN staged :
            /\ staged[i].id = t.item => staged'[i] = [staged[i] EXCEPT !.status = status]
            /\ staged[i].id # t.item => staged'[i] = staged[i]
            /\ staged'[i].id = staged[i].id /\ staged'[i].upload = staged[i].upload
  <2>1. staged' = [i \in DOMAIN staged |->
                     IF staged[i].id = t.item THEN [staged[i] EXCEPT !.status = status] ELSE staged[i]]
    BY DEF patch
  <2>2. \A i \in DOMAIN staged :
           /\ [staged[i] EXCEPT !.status = status] \in ItemRow
           /\ [staged[i] EXCEPT !.status = status].id = staged[i].id
           /\ [staged[i] EXCEPT !.status = status].upload = staged[i].upload
    BY <1>2 DEF ItemRow
  <2>3. \A i \in DOMAIN staged : staged'[i] \in ItemRow
    BY <1>2, <2>1, <2>2
  <2>4. DOMAIN staged' = 1 .. Len(staged) /\ DOMAIN staged = 1 .. Len(staged) /\ Len(staged) \in Nat
    BY <1>2, <2>1
  <2>5. staged' \in Seq(ItemRow) /\ Len(staged') = Len(staged)
    BY <2>1, <2>3, <2>4
  <2> QED
    BY <2>1, <2>2, <2>4, <2>5
<1>4. ASSUME NEW i \in DOMAIN staged, staged[i].id = t.item
      PROVE  SoundItem(staged[i])' /\ \A x \in new : Fits(x, staged'[i])
  <2>1. SoundItem(staged[i]) /\ staged[i] \in ItemRow /\ Fits(t, staged[i]) /\ staged[i].status # "ready"
    BY <1>4, ItsImage
  <2>2. staged'[i].status = status /\ staged'[i].upload = staged[i].upload /\ staged'[i].id = staged[i].id
    BY <1>3, <1>4, <2>1 DEF ItemRow
  <2>3. Names(staged[i].id, staged[i].upload)'
    BY <1>3, <2>1, <2>2 DEF SoundItem, Names, RowsAdvance
  <2>4. staged[i].id \notin GalleryAssets
    BY <1>1, <1>4, ReferenceAssumption
  <2> QED
    BY <1>3, <1>4, <2>1, <2>2, <2>3, <2>4 DEF SoundItem, Picked
<1>5. Accounted'
  BY <1>3, StaysAccounted
<1>6. \A i \in DOMAIN staged : staged[i].id = t.item =>
          SoundItem(staged[i])' /\ \A x \in new : Fits(x, staged'[i])
  BY <1>4
<1>7. PICK id, old : id = t.item /\ old = {t}
  OBVIOUS
<1>8. id \in Nat /\ old \in SUBSET tasks /\ tasks' = (tasks \ old) \cup new
  BY <1>1, <1>7
<1>9. /\ isStaged(id) => \A other \in tasks \ old : other.item # id
      /\ request.kind = "generate" => ~isStaged(id)
  BY <1>1, <1>7
<1>10. /\ \A i \in DOMAIN staged : staged'[i].id = staged[i].id
       /\ \A i \in DOMAIN staged : staged[i].id # id => staged'[i] = staged[i]
       /\ \A i \in DOMAIN staged : staged[i].id = id =>
              SoundItem(staged[i])' /\ \A x \in new : Fits(x, staged'[i])
       /\ \A x \in new : x.item = id /\ SoundTask(x)'
  BY <1>3, <1>6, <1>7
<1> QED
  BY <1>3, <1>5, <1>8, <1>9, <1>10, OneImage, SMTT(30)

\* An image goes off the list, and its upload, if any, is left to a deletion.
LEMMA TakenOff ==
    ASSUME UploadsInv, NEW k \in DOMAIN staged, request.kind # "generate",
           UNCHANGED <<picked, request, uploadRows>>,
           staged' = RemoveAt(staged, k),
           NEW old, NEW new \in SUBSET TaskRow, IsFiniteSet(new), tasks' = (tasks \ old) \cup new,
           \A t \in new : t.kind = "delete" /\ t.then # "upload" /\ SoundTask(t)',
           \A t \in old \cap tasks : t.kind # "delete",
           staged[k].upload # NoUpload => \E t \in new : t.upload = staged[k].upload
    PROVE  UploadsInv'
<1>1. staged \in Seq(ItemRow) /\ Len(staged) \in Nat /\ DOMAIN staged = 1 .. Len(staged)
  BY DEF UploadsInv, StagingTypes
<1>2. /\ staged' \in Seq(ItemRow) /\ Len(staged') = Len(staged) - 1 /\ DOMAIN staged' = 1 .. Len(staged) - 1
      /\ \A i \in DOMAIN staged' : staged'[i] = IF i < k THEN staged[i] ELSE staged[i + 1]
  <2>1. /\ RemoveAt(staged, k) \in Seq(ItemRow) /\ Len(RemoveAt(staged, k)) = Len(staged) - 1
        /\ \A i \in 1 .. Len(staged) - 1 :
              RemoveAt(staged, k)[i] = IF i < k THEN staged[i] ELSE staged[i + 1]
    BY <1>1, Removal
  <2>2. DOMAIN staged' = 1 .. Len(staged')
    BY <2>1
  <2> QED
    BY <2>1, <2>2
<1>3. \A i \in DOMAIN staged : i < k => i \in DOMAIN staged' /\ staged'[i] = staged[i]
  BY <1>1, <1>2
<1>4. \A i \in DOMAIN staged : i > k => i - 1 \in DOMAIN staged' /\ staged'[i - 1] = staged[i]
  BY <1>1, <1>2
<1>5. \A j \in DOMAIN staged' : \E i \in DOMAIN staged : staged'[j] = staged[i]
  BY <1>1, <1>2
<1>6. Distinct'
  BY <1>1, <1>2 DEF Distinct, UploadsInv
<1>7. Accounted'
  <2> SUFFICES ASSUME NEW u \in DOMAIN uploadRows, Owed(u)
               PROVE  Handled(u)'
    BY DEF Accounted, Owed
  <2>1. Handled(u) /\ u # NoUpload
    BY <1>1 DEF UploadsInv, Accounted, StagingTypes, NoUpload
  <2>2. ASSUME NEW i \in DOMAIN staged, staged[i].upload = u
        PROVE  Handled(u)'
    <3>1. CASE i = k
      BY <2>1, <2>2, <3>1 DEF Handled
    <3>2. CASE i < k
      BY <1>3, <2>2, <3>2 DEF Handled
    <3>3. CASE i > k
      BY <1>4, <2>2, <3>3 DEF Handled
    <3> QED
      BY <1>1, <3>1, <3>2, <3>3
  <2>3. \A t \in tasks : t.kind = "delete" => t \in tasks'
    OBVIOUS
  <2> QED
    BY <2>1, <2>2, <2>3 DEF Handled
<1>8. Requested' /\ RowsAdvance
  BY RowsStay DEF Requested
<1> QED
  BY <1>2, <1>5, <1>6, <1>7, <1>8, Rearranged

LEMMA NothingNew == IsFiniteSet({}) /\ {} \in SUBSET TaskRow
  BY FS_EmptySet

\* A task goes on with what comes next for its image.
LEMMA Proceeded ==
    ASSUME UploadsInv, NEW t \in tasks, NEW kind \in {"presign", "complete"},
           NEW status \in {"uploading", "processing"},
           patch(t.item, status), Proceeds(t, kind), UNCHANGED <<picked, request, uploadRows>>,
           kind = "complete" => t.upload # NoUpload, t.kind # "delete",
           \A i \in DOMAIN staged : staged[i].id = t.item => \A x : x.kind = kind /\ x.upload = t.upload
                                => Fits(x, [staged[i] EXCEPT !.status = status])
    PROVE  UploadsInv'
<1>1. PICK x : x = [t EXCEPT !.kind = kind]
  OBVIOUS
<1>2. t \in TaskRow /\ SoundTask(t)
  BY ItsImage
<1>3. /\ x \in TaskRow /\ x.kind = kind /\ x.item = t.item /\ x.upload = t.upload /\ x.then = t.then
      /\ x.rest = t.rest
  BY <1>1, <1>2 DEF TaskRow
<1>4. tasks' = (tasks \ {t}) \cup {x}
  BY <1>1 DEF Proceeds
<1>5. SoundTask(x)'
  <2>1. \A id : isStaged(id)' <=> isStaged(id)
    BY DEF patch, isStaged, UploadsInv, StagingTypes, ItemRow
  <2> QED
    BY <1>2, <1>3, <2>1 DEF SoundTask, SoundRest, Picked, Names
<1>6. \A i \in DOMAIN staged : staged[i].id = t.item => Fits(x, [staged[i] EXCEPT !.status = status])
  BY <1>3
<1>7. PICK new : new = {x}
  OBVIOUS
<1>8. /\ new \in SUBSET TaskRow /\ IsFiniteSet(new) /\ RowsAdvance
      /\ \A y \in new : y.item = t.item /\ SoundTask(y)'
      /\ \A y, z \in new : y = z
      /\ \A i \in DOMAIN staged : staged[i].id = t.item =>
            \A y \in new : Fits(y, [staged[i] EXCEPT !.status = status])
  BY <1>3, <1>5, <1>6, <1>7, RowsStay, FS_Singleton
<1>9. \A u \in DOMAIN uploadRows' : Owed(u)' => (u \in DOMAIN uploadRows /\ Owed(u)) \/ Handled(u)'
  BY DEF Owed
<1> QED
  BY <1>4, <1>7, <1>8, <1>9, Patched

LEMMA FileDecoded ==
    ASSUME UploadsInv, NEW t \in tasks, checkImageDimensions(t)
    PROVE  UploadsInv'
<1>1. t.kind = "decode" /\ UNCHANGED <<picked, uploadRows, request>> /\ RowsAdvance
  BY RowsStay DEF checkImageDimensions
<1>2. ASSUME NEW i \in DOMAIN staged, staged[i].id = t.item, staged' = RemoveAt(staged, i), Ends(t)
      PROVE  UploadsInv'
  <2>1. staged[i].upload = NoUpload /\ request.kind # "generate"
    BY <1>1, <1>2, ItsImage DEF Fits, SoundItem, isStaged
  <2>2. tasks' = (tasks \ {t}) \cup {}
    BY <1>2 DEF Ends
  <2>3. \A x \in {t} \cap tasks : x.kind # "delete"
    BY <1>1
  <2> QED
    BY <1>1, <1>2, <2>1, <2>2, <2>3, NothingNew, TakenOff
<1>3. ASSUME isStaged(t.item), patch(t.item, "uploading"), Proceeds(t, "presign")
      PROVE  UploadsInv'
  <2>1. ASSUME NEW i \in DOMAIN staged, staged[i].id = t.item
        PROVE  staged[i] \in ItemRow /\ staged[i].upload = NoUpload
    BY <1>1, <2>1, ItsImage DEF Fits, SoundItem
  <2>2. \A i \in DOMAIN staged : staged[i].id = t.item => \A x : x.kind = "presign" /\ x.upload = t.upload
                                 => Fits(x, [staged[i] EXCEPT !.status = "uploading"])
    BY <2>1 DEF Fits, ItemRow
  <2> QED
    BY <1>1, <1>3, <2>2, Proceeded
<1>4. ASSUME ~isStaged(t.item), Ends(t), UNCHANGED staged
      PROVE  UploadsInv'
  <2>1. tasks' = (tasks \ {t}) \cup {}
    BY <1>4 DEF Ends
  <2>2. Distinct' /\ Requested'
    BY <1>1, <1>4 DEF UploadsInv, Distinct, Requested
  <2>3. Accounted'
    BY <1>1, <1>4, <2>1, StaysAccounted DEF Owed
  <2>4. staged' \in Seq(ItemRow) /\ \A j \in DOMAIN staged' : \E i \in DOMAIN staged : staged'[j] = staged[i]
    BY <1>4 DEF UploadsInv, StagingTypes
  <2> QED
    BY <1>1, <2>1, <2>2, <2>3, <2>4, NothingNew, Rearranged
<1> QED
  BY <1>2, <1>3, <1>4 DEF checkImageDimensions

\* What a proof about one image needs when nothing is done to it.
LEMMA TaskEnds ==
    ASSUME UploadsInv, NEW t \in tasks, UNCHANGED <<picked, request, staged>>, RowsAdvance,
           NEW new \in SUBSET TaskRow, IsFiniteSet(new), tasks' = (tasks \ {t}) \cup new,
           \A x \in new : x.kind = "delete" /\ x.then # "upload" /\ SoundTask(x)',
           Accounted'
    PROVE  UploadsInv'
<1>1. Distinct' /\ Requested'
  BY DEF UploadsInv, Distinct, Requested
<1>2. staged' \in Seq(ItemRow) /\ \A j \in DOMAIN staged' : \E i \in DOMAIN staged : staged'[j] = staged[i]
  BY DEF UploadsInv, StagingTypes
<1>3. PICK old : old = {t}
  OBVIOUS
<1> QED
  BY <1>1, <1>2, <1>3, Rearranged

\* An upload the API has just made for the image of a task.
LEMMA UploadMade ==
    ASSUME UploadsInv, NEW t \in tasks, NEW answered \in BOOLEAN, Len(uploadRows) < MaxUploadRows,
           uploadRows' = Append(uploadRows, [item |-> t.item, status |-> "pending", known |-> answered,
                                             kept |-> FALSE, verified |-> FALSE])
    PROVE  /\ RowsAdvance
           /\ Len(uploadRows) + 1 \in Nat /\ Len(uploadRows) + 1 # NoUpload
           /\ \A n : n = Len(uploadRows) + 1 => Names(t.item, n)'
           /\ \A u \in DOMAIN uploadRows' : Owed(u)' =>
                 (u \in DOMAIN uploadRows /\ Owed(u)) \/ (answered /\ u = Len(uploadRows) + 1)
<1>1. PICK row : row = [item |-> t.item, status |-> "pending", known |-> answered, kept |-> FALSE, verified |-> FALSE]
  OBVIOUS
<1>2. row \in RowOfUpload /\ row.item = t.item /\ row.status = "pending" /\ row.known = answered /\ t.item \in Nat
  BY <1>1, ItsImage DEF RowOfUpload, TaskRow
<1>3. uploadRows \in Seq(RowOfUpload) /\ Len(uploadRows) \in Nat /\ DOMAIN uploadRows = 1 .. Len(uploadRows)
  BY DEF UploadsInv, StagingTypes
<1>4. /\ uploadRows' \in Seq(RowOfUpload) /\ DOMAIN uploadRows' = 1 .. Len(uploadRows) + 1
      /\ \A u \in DOMAIN uploadRows : uploadRows'[u] = uploadRows[u]
      /\ uploadRows'[Len(uploadRows) + 1] = row
  BY <1>1, <1>2, <1>3
<1>5. \A u \in DOMAIN uploadRows' : u \in DOMAIN uploadRows \/ u = Len(uploadRows) + 1
  BY <1>3, <1>4
<1>6. Verified'
  BY <1>2, <1>4, <1>5 DEF Verified, UploadsInv
<1>7. RowsAdvance
  BY <1>3, <1>4, <1>6, ReferenceAssumption DEF RowsAdvance
<1>9. \A n : n = Len(uploadRows) + 1 => Names(t.item, n)'
  BY <1>2, <1>3, <1>4 DEF Names
<1> QED
  BY <1>2, <1>3, <1>4, <1>5, <1>7, <1>9 DEF Owed, NoUpload

LEMMA TaskMade ==
    ASSUME NEW item \in Nat, NEW upload \in Nat, NEW kind \in {"decode", "presign", "post", "complete", "delete"},
           NEW then \in {"end", "upload", "clear"}
    PROVE  /\ Waiting(kind, item, upload) \in TaskRow
           /\ Deleting(item, upload, then) \in TaskRow
           /\ Deleting(item, upload, then).kind = "delete" /\ Deleting(item, upload, then).then = then
           /\ Deleting(item, upload, then).item = item /\ Deleting(item, upload, then).upload = upload
           /\ Deleting(item, upload, then).rest = <<>>
<1>1. \A k \in {"decode", "presign", "post", "complete", "delete"} : Waiting(k, item, upload) \in TaskRow
  BY DEF Waiting, TaskRow
<1>2. PICK w : w = Waiting("delete", item, upload)
  OBVIOUS
<1>3. w \in TaskRow /\ w.kind = "delete" /\ w.item = item /\ w.upload = upload /\ w.rest = <<>>
  BY <1>1, <1>2 DEF Waiting
<1>4. [w EXCEPT !.then = then] \in TaskRow
  BY <1>3 DEF TaskRow
<1>5. /\ [w EXCEPT !.then = then].kind = "delete" /\ [w EXCEPT !.then = then].then = then
      /\ [w EXCEPT !.then = then].item = item /\ [w EXCEPT !.then = then].upload = upload
      /\ [w EXCEPT !.then = then].rest = <<>>
  BY <1>3 DEF TaskRow
<1> QED
  BY <1>1, <1>2, <1>4, <1>5 DEF Deleting

LEMMA UploadStarted ==
    ASSUME UploadsInv, NEW t \in tasks, startUpload(t)
    PROVE  UploadsInv'
<1>1. t.kind = "presign" /\ UNCHANGED <<picked, request>> /\ t \in TaskRow /\ SoundTask(t) /\ t.item \in Nat
  BY ItsImage DEF startUpload, TaskRow
<1>2. ASSUME patch(t.item, "error"), Ends(t), RowsAdvance,
             \A u \in DOMAIN uploadRows' : Owed(u)' => u \in DOMAIN uploadRows /\ Owed(u)
      PROVE  UploadsInv'
  <2>1. tasks' = (tasks \ {t}) \cup {}
    BY <1>2 DEF Ends
  <2>2. PICK new : new = {}
    OBVIOUS
  <2> QED
    BY <1>1, <1>2, <2>1, <2>2, NothingNew, Patched
<1>3. CASE patch(t.item, "error") /\ Ends(t) /\ UNCHANGED <<uploadRows, inflight>>
  BY <1>2, <1>3, RowsStay DEF Owed
<1>4. ASSUME NEW answered \in BOOLEAN, NEW id, id = Len(uploadRows) + 1, Len(uploadRows) < MaxUploadRows,
             uploadRows' = Append(uploadRows, [item |-> t.item, status |-> "pending", known |-> answered,
                                               kept |-> FALSE, verified |-> FALSE])
      PROVE  /\ RowsAdvance /\ id \in Nat /\ id # NoUpload /\ Names(t.item, id)'
             /\ \A u \in DOMAIN uploadRows' : Owed(u)' =>
                   (u \in DOMAIN uploadRows /\ Owed(u)) \/ (answered /\ u = id)
  BY <1>4, UploadMade
<1>5. ASSUME NEW id, id \in Nat, id # NoUpload, Names(t.item, id)', RowsAdvance,
             \A u \in DOMAIN uploadRows' : Owed(u)' => (u \in DOMAIN uploadRows /\ Owed(u)) \/ u = id,
             ~isStaged(t.item), UNCHANGED staged, tasks' = (tasks \ {t}) \cup {Deleting(t.item, id, "end")}
      PROVE  UploadsInv'
  <2>1. PICK x : x = Deleting(t.item, id, "end")
    OBVIOUS
  <2>2. /\ x \in TaskRow /\ x.kind = "delete" /\ x.then = "end" /\ x.item = t.item /\ x.upload = id
        /\ x.rest = <<>>
    BY <1>1, <1>5, <2>1, TaskMade
  <2>3. SoundTask(x)'
    BY <1>1, <1>5, <2>2 DEF SoundTask, Picked, isStaged
  <2>4. Accounted'
    <3>1. x \in tasks' /\ \A u : u = id => Handled(u)'
      BY <1>5, <2>1, <2>2 DEF Handled
    <3> QED
      BY <1>1, <1>5, <3>1, StaysAccounted
  <2>5. PICK new : new = {x}
    OBVIOUS
  <2>6. new \in SUBSET TaskRow /\ IsFiniteSet(new)
        /\ \A y \in new : y.kind = "delete" /\ y.then # "upload" /\ SoundTask(y)'
    BY <2>2, <2>3, <2>5, FS_Singleton
  <2> QED
    BY <1>1, <1>5, <2>1, <2>4, <2>5, <2>6, TaskEnds
<1>6. ASSUME NEW id, id \in Nat, id # NoUpload, Names(t.item, id)', RowsAdvance,
             \A u \in DOMAIN uploadRows' : Owed(u)' => (u \in DOMAIN uploadRows /\ Owed(u)) \/ u = id,
             isStaged(t.item),
             staged' = [i \in DOMAIN staged |->
                           IF staged[i].id = t.item THEN [staged[i] EXCEPT !.upload = id] ELSE staged[i]],
             tasks' = (tasks \ {t}) \cup {[t EXCEPT !.kind = "post", !.upload = id]}
      PROVE  UploadsInv'
  <2>1. PICK x : x = [t EXCEPT !.kind = "post", !.upload = id]
    OBVIOUS
  <2>2. /\ x \in TaskRow /\ x.kind = "post" /\ x.item = t.item /\ x.upload = id /\ x.then = t.then
        /\ x.rest = t.rest
    BY <1>1, <1>6, <2>1 DEF TaskRow
  <2>3. \A i \in DOMAIN staged : staged[i] \in ItemRow
    BY DEF UploadsInv, StagingTypes
  <2>4. \A i \in DOMAIN staged :
           /\ [staged[i] EXCEPT !.upload = id] \in ItemRow
           /\ [staged[i] EXCEPT !.upload = id].id = staged[i].id
           /\ [staged[i] EXCEPT !.upload = id].status = staged[i].status
           /\ [staged[i] EXCEPT !.upload = id].upload = id
    BY <1>6, <2>3 DEF ItemRow
  <2>5. /\ staged' \in Seq(ItemRow) /\ Len(staged') = Len(staged) /\ DOMAIN staged' = DOMAIN staged
        /\ \A i \in DOMAIN staged :
              /\ staged[i].id = t.item => staged'[i].status = staged[i].status /\ staged'[i].upload = id
              /\ staged[i].id # t.item => staged'[i] = staged[i]
              /\ staged'[i].id = staged[i].id
    <3>1. staged \in Seq(ItemRow) /\ DOMAIN staged = 1 .. Len(staged) /\ Len(staged) \in Nat
      BY DEF UploadsInv, StagingTypes
    <3>2. \A i \in DOMAIN staged : staged'[i] \in ItemRow
      BY <1>6, <2>3, <2>4
    <3>3. DOMAIN staged' = 1 .. Len(staged) /\ staged' \in Seq(ItemRow) /\ Len(staged') = Len(staged)
      BY <1>6, <3>1, <3>2
    <3> QED
      BY <1>6, <2>4, <3>1, <3>3
  <2>6. ASSUME NEW i \in DOMAIN staged, staged[i].id = t.item
        PROVE  SoundItem(staged[i])' /\ Fits(x, staged'[i])
    <3>1. SoundItem(staged[i]) /\ staged[i].status = "uploading"
      BY <1>1, <2>6, ItsImage DEF Fits
    <3>2. staged[i].id \notin GalleryAssets
      BY <1>1, <2>6, ReferenceAssumption
    <3> QED
      BY <1>1, <1>6, <2>2, <2>5, <2>6, <3>1, <3>2 DEF SoundItem, Fits, Picked
  <2>7. SoundTask(x)'
    <3>1. \A y : isStaged(y)' <=> isStaged(y)
      BY <2>5 DEF isStaged
    <3>2. \A y, u : Names(y, u) /\ u \in Nat => Names(y, u)'
      BY <1>6 DEF Names, RowsAdvance, UploadsInv, StagingTypes
    <3>3. \A i \in DOMAIN t.rest : t.rest[i].upload \in Nat
      <4>1. t.rest \in Seq(ItemRow)
        BY <1>1 DEF TaskRow
      <4>2. \A i \in DOMAIN t.rest : t.rest[i] \in ItemRow
        BY <4>1
      <4> QED
        BY <4>2 DEF ItemRow
    <3> QED
      BY <1>1, <1>6, <2>2, <3>1, <3>2, <3>3 DEF SoundTask, SoundRest, Picked
  <2>8. Accounted'
    <3>1. PICK i \in DOMAIN staged : staged[i].id = t.item
      BY <1>6 DEF isStaged
    <3>2. staged[i].upload = NoUpload /\ \A j \in DOMAIN staged : staged[j].id = t.item => j = i
      BY <1>1, <3>1, ItsImage DEF Fits, UploadsInv, Distinct
    <3>3. \A u : u = id => Handled(u)'
      BY <2>5, <3>1 DEF Handled
    <3>4. \A u \in DOMAIN uploadRows : Owed(u) => Handled(u)'
      <4> SUFFICES ASSUME NEW u \in DOMAIN uploadRows, Owed(u)
                   PROVE  Handled(u)'
        OBVIOUS
      <4>1. Handled(u) /\ u # NoUpload
        BY DEF UploadsInv, Accounted, StagingTypes, NoUpload
      <4> QED
        BY <1>1, <1>6, <2>5, <3>2, <4>1 DEF Handled
    <3> QED
      BY <1>6, <3>3, <3>4 DEF Accounted
  <2>9. PICK new, old, it : new = {x} /\ old = {t} /\ it = t.item
    OBVIOUS
  <2>10. /\ new \in SUBSET TaskRow /\ IsFiniteSet(new) /\ old \in SUBSET tasks
         /\ tasks' = (tasks \ old) \cup new
         /\ \A y \in new : y.item = it /\ SoundTask(y)'
         /\ \A y, z \in new : y = z
    BY <1>6, <2>1, <2>2, <2>7, <2>9, FS_Singleton
  <2>11. /\ it \in Nat
         /\ isStaged(it) => \A other \in tasks \ old : other.item # it
         /\ request.kind = "generate" => ~isStaged(it)
    BY <1>1, <2>9, ItsImage
  <2>12. /\ \A i \in DOMAIN staged : staged[i].id = it =>
                SoundItem(staged[i])' /\ \A y \in new : Fits(y, staged'[i])
         /\ \A i \in DOMAIN staged : staged'[i].id = staged[i].id
         /\ \A i \in DOMAIN staged : staged[i].id # it => staged'[i] = staged[i]
         /\ staged' \in Seq(ItemRow) /\ Len(staged') = Len(staged)
    BY <2>5, <2>6, <2>9
  <2>13. RowsAdvance /\ UNCHANGED <<picked, request>>
    BY <1>1, <1>6
  <2> QED
    BY <2>8, <2>10, <2>11, <2>12, <2>13, OneImage
<1>7. ASSUME NEW answered \in BOOLEAN, NEW id, id = Len(uploadRows) + 1, Len(uploadRows) < MaxUploadRows,
             uploadRows' = Append(uploadRows, [item |-> t.item, status |-> "pending", known |-> answered,
                                               kept |-> FALSE, verified |-> FALSE]),
             IF ~answered
               THEN patch(t.item, "error") /\ Ends(t) /\ UNCHANGED inflight
               ELSE IF isStaged(t.item)
               THEN /\ staged' = [i \in DOMAIN staged |->
                         IF staged[i].id = t.item THEN [staged[i] EXCEPT !.upload = id] ELSE staged[i]]
                    /\ inflight' = [inflight EXCEPT ![t.item] = id]
                    /\ tasks' = (tasks \ {t}) \cup {[t EXCEPT !.kind = "post", !.upload = id]}
               ELSE /\ tasks' = (tasks \ {t}) \cup {Deleting(t.item, id, "end")}
                    /\ UNCHANGED <<staged, inflight>>
      PROVE  UploadsInv'
  <2>1. /\ RowsAdvance /\ id \in Nat /\ id # NoUpload /\ Names(t.item, id)'
        /\ \A u \in DOMAIN uploadRows' : Owed(u)' =>
              (u \in DOMAIN uploadRows /\ Owed(u)) \/ (answered /\ u = id)
    BY <1>4, <1>7
  <2>2. CASE ~answered
    BY <1>2, <1>7, <2>1, <2>2
  <2>3. CASE answered /\ isStaged(t.item)
    <3>1. \A u \in DOMAIN uploadRows' : Owed(u)' => (u \in DOMAIN uploadRows /\ Owed(u)) \/ u = id
      BY <2>1
    <3>2. /\ staged' = [i \in DOMAIN staged |->
                            IF staged[i].id = t.item THEN [staged[i] EXCEPT !.upload = id] ELSE staged[i]]
          /\ tasks' = (tasks \ {t}) \cup {[t EXCEPT !.kind = "post", !.upload = id]}
      BY <1>7, <2>3
    <3> QED
      BY <1>6, <2>1, <2>3, <3>1, <3>2
  <2>4. CASE answered /\ ~isStaged(t.item)
    BY <1>5, <1>7, <2>1, <2>4
  <2> QED
    BY <2>2, <2>3, <2>4
<1> QED
  BY <1>3, <1>7 DEF startUpload

\* A task fails: its image shows it, and keeps its upload.
LEMMA Failed ==
    ASSUME UploadsInv, NEW t \in tasks, patch(t.item, "error"), Ends(t), RowsAdvance,
           UNCHANGED <<picked, request>>, t.kind # "delete",
           \A u \in DOMAIN uploadRows' : Owed(u)' => u \in DOMAIN uploadRows /\ Owed(u)
    PROVE  UploadsInv'
<1>1. tasks' = (tasks \ {t}) \cup {}
  BY DEF Ends
<1>2. PICK new : new = {}
  OBVIOUS
<1> QED
  BY <1>1, <1>2, NothingNew, Patched

LEMMA UploadPosted ==
    ASSUME UploadsInv, NEW t \in tasks, PostSettles(t)
    PROVE  UploadsInv'
<1>1. t.kind = "post" /\ UNCHANGED <<picked, uploadRows, request>> /\ RowsAdvance
  BY RowsStay DEF PostSettles
<1>2. CASE patch(t.item, "error") /\ Ends(t)
  BY <1>1, <1>2, Failed DEF Owed
<1>3. CASE patch(t.item, "processing") /\ Proceeds(t, "complete")
  <2>1. ASSUME NEW i \in DOMAIN staged, staged[i].id = t.item
        PROVE  staged[i] \in ItemRow /\ staged[i].upload = t.upload
    BY <1>1, <2>1, ItsImage DEF Fits
  <2>2. \A i \in DOMAIN staged : staged[i].id = t.item => \A x : x.kind = "complete" /\ x.upload = t.upload
                                 => Fits(x, [staged[i] EXCEPT !.status = "processing"])
    BY <2>1 DEF Fits, ItemRow
  <2>3. t.upload # NoUpload
    BY <1>1, ItsImage DEF SoundTask
  <2> QED
    BY <1>1, <1>3, <2>2, <2>3, Proceeded
<1> QED
  BY <1>2, <1>3 DEF PostSettles

LEMMA UploadCompleted ==
    ASSUME UploadsInv, NEW t \in tasks, CompleteSettles(t)
    PROVE  UploadsInv'
<1>1. t.kind = "complete" /\ Ends(t) /\ UNCHANGED <<picked, request>>
  BY DEF CompleteSettles
<1>2. /\ uploadRows \in Seq(RowOfUpload) /\ t.upload \in DOMAIN uploadRows /\ t.upload # NoUpload
      /\ uploadRows[t.upload] \in RowOfUpload /\ Len(uploadRows) <= MaxUploadRows
  BY <1>1, ItsImage DEF UploadsInv, StagingTypes, SoundTask, Names
<1>3. CASE patch(t.item, "error") /\ UNCHANGED uploadRows
  BY <1>1, <1>3, RowsStay, Failed DEF Owed
<1>4. ASSUME NEW row \in completeGenerationUpload(uploadRows[t.upload]),
             uploadRows' = [uploadRows EXCEPT ![t.upload] = row]
      PROVE  /\ RowsAdvance
             /\ \A u \in DOMAIN uploadRows' : Owed(u)' => u \in DOMAIN uploadRows /\ Owed(u)
             /\ uploadRows'[t.upload].status \in {"ready", "attached"} => uploadRows'[t.upload].verified
  <2>1. PICK was : was = uploadRows[t.upload]
    OBVIOUS
  <2>2. /\ row \in RowOfUpload /\ row.item = was.item /\ row.known = was.known /\ row.kept = was.kept
        /\ was.verified => row.verified
        /\ row = was \/ (row.status = "ready" /\ row.verified /\ was.status = "pending") \/ row.status = "deleted"
    BY <1>2, <1>4, <2>1, ZenonT(60) DEF completeGenerationUpload, RowOfUpload
  <2>3. /\ uploadRows' \in Seq(RowOfUpload) /\ DOMAIN uploadRows' = DOMAIN uploadRows
        /\ Len(uploadRows') = Len(uploadRows)
        /\ uploadRows'[t.upload] = row
        /\ \A u \in DOMAIN uploadRows : u # t.upload => uploadRows'[u] = uploadRows[u]
    BY <1>2, <1>4, <2>2
  <2>4. Verified'
    BY <1>2, <2>1, <2>2, <2>3 DEF Verified, UploadsInv
  <2> QED
    BY <1>2, <2>1, <2>2, <2>3, <2>4 DEF RowsAdvance, Owed, Verified
<1>5. ASSUME NEW row \in completeGenerationUpload(uploadRows[t.upload]),
             uploadRows' = [uploadRows EXCEPT ![t.upload] = row],
             uploadRows'[t.upload].status \in {"ready", "attached"}, patch(t.item, "ready")
      PROVE  UploadsInv'
  <2>1. /\ RowsAdvance
        /\ \A u \in DOMAIN uploadRows' : Owed(u)' => u \in DOMAIN uploadRows /\ Owed(u)
        /\ uploadRows'[t.upload].verified
    BY <1>4, <1>5
  <2>2. tasks' = (tasks \ {t}) \cup {}
    BY <1>1 DEF Ends
  <2>3. \A i \in DOMAIN staged : staged[i].id = t.item => staged[i].upload = t.upload
    BY <1>1, ItsImage DEF Fits
  <2>4. PICK new : new = {}
    OBVIOUS
  <2> QED
    BY <1>1, <1>2, <1>5, <2>1, <2>2, <2>3, <2>4, NothingNew, Patched
<1>6. ASSUME NEW row \in completeGenerationUpload(uploadRows[t.upload]),
             uploadRows' = [uploadRows EXCEPT ![t.upload] = row], patch(t.item, "error")
      PROVE  UploadsInv'
  <2>1. RowsAdvance /\ \A u \in DOMAIN uploadRows' : Owed(u)' => u \in DOMAIN uploadRows /\ Owed(u)
    BY <1>4, <1>6
  <2> QED
    BY <1>1, <1>6, <2>1, Failed
<1> QED
  BY <1>3, <1>5, <1>6 DEF CompleteSettles

-----------------------------------------------------------------------------
LEMMA ImageRemoved ==
    ASSUME UploadsInv, NEW k \in DOMAIN staged, removeReferenceImage(k)
    PROVE  UploadsInv'
<1>1. PICK item : item = staged[k]
  OBVIOUS
<1>2. /\ UNCHANGED <<picked, uploadRows, request>> /\ request.kind = "none"
      /\ staged' = RemoveAt(staged, k)
      /\ tasks' = (tasks \ Aborted(<<item>>)) \cup DeletionOf(item)
  BY <1>1 DEF removeReferenceImage, Idle_
<1>3. item \in ItemRow /\ SoundItem(item) /\ item.upload \in Nat /\ picked \in Nat
  <2>1. staged \in Seq(ItemRow) /\ SoundItem(staged[k]) /\ picked \in Nat
    BY DEF UploadsInv, StagingTypes, Images
  <2>2. staged[k] \in ItemRow
    BY <2>1
  <2> QED
    BY <1>1, <2>1, <2>2 DEF ItemRow
<1>4. PICK old, new : old = Aborted(<<item>>) /\ new = DeletionOf(item)
  OBVIOUS
<1>5. \A t \in old \cap tasks : t.kind # "delete"
  BY <1>4 DEF Aborted
<1>6. ~isStaged(item.id)'
  <2>1. staged \in Seq(ItemRow) /\ DOMAIN staged = 1 .. Len(staged) /\ Len(staged) \in Nat
    BY DEF UploadsInv, StagingTypes
  <2>2. /\ RemoveAt(staged, k) \in Seq(ItemRow) /\ Len(RemoveAt(staged, k)) = Len(staged) - 1
        /\ \A i \in 1 .. Len(staged) - 1 :
              RemoveAt(staged, k)[i] = IF i < k THEN staged[i] ELSE staged[i + 1]
    BY <2>1, Removal
  <2>3. DOMAIN staged' = 1 .. Len(staged) - 1
    BY <1>2, <2>2
  <2>4. \A i \in DOMAIN staged' : \E j \in DOMAIN staged : j # k /\ staged'[i] = staged[j]
    <3> SUFFICES ASSUME NEW i \in DOMAIN staged'
                 PROVE  \E j \in DOMAIN staged : j # k /\ staged'[i] = staged[j]
      OBVIOUS
    <3>1. i \in 1 .. Len(staged) - 1 /\ k \in 1 .. Len(staged)
      BY <2>1, <2>3
    <3>2. staged'[i] = IF i < k THEN staged[i] ELSE staged[i + 1]
      BY <1>2, <2>2, <3>1
    <3>3. CASE i < k
      BY <2>1, <3>1, <3>2, <3>3
    <3>4. CASE ~(i < k)
      <4>1. i + 1 \in DOMAIN staged /\ i + 1 # k
        BY <2>1, <3>1, <3>4
      <4> QED
        BY <3>2, <3>4, <4>1
    <3> QED
      BY <3>3, <3>4
  <2> QED
    BY <1>1, <2>4 DEF isStaged, UploadsInv, Distinct
<1>7. CASE item.upload = NoUpload
  <2>1. new = {}
    BY <1>4, <1>7 DEF DeletionOf
  <2> QED
    BY <1>1, <1>2, <1>4, <1>5, <1>7, <2>1, NothingNew, TakenOff
<1>8. CASE item.upload # NoUpload
  <2>1. PICK x : x = Deleting(item.id, item.upload, "end")
    OBVIOUS
  <2>2. item.id \in Nat
    BY <1>3, <1>8 DEF SoundItem, ItemRow
  <2>3. x \in TaskRow /\ x.kind = "delete" /\ x.then = "end" /\ x.item = item.id /\ x.upload = item.upload
        /\ x.rest = <<>>
    BY <1>3, <2>1, <2>2, TaskMade
  <2>4. SoundTask(x)'
    BY <1>2, <1>3, <1>6, <1>8, <2>2, <2>3 DEF SoundTask, SoundItem, Picked, Names
  <2>5. new = {x}
    BY <1>4, <1>8, <2>1 DEF DeletionOf
  <2>6. /\ new \in SUBSET TaskRow /\ IsFiniteSet(new) /\ request.kind # "generate"
        /\ \A y \in new : y.kind = "delete" /\ y.then # "upload" /\ SoundTask(y)'
        /\ \E y \in new : y.upload = staged[k].upload
    BY <1>1, <1>2, <2>3, <2>4, <2>5, FS_Singleton
  <2> QED
    BY <1>2, <1>4, <1>5, <2>6, TakenOff
<1> QED
  BY <1>7, <1>8

LeavesToDeletions(list, others, old, new) ==
    /\ new \in SUBSET TaskRow /\ IsFiniteSet(new)
    /\ tasks' = (others \ old) \cup new
    /\ \A t \in old : t.kind # "delete"
    /\ \A t \in new : t.kind = "delete" /\ t.then # "upload" /\ SoundTask(t)'
    /\ \A i \in DOMAIN list : list[i].upload # NoUpload =>
          \E t \in new : \/ t.upload = list[i].upload
                         \/ \E j \in DOMAIN t.rest : t.rest[j].upload = list[i].upload

\* Clearing a list leaves each of its uploads to a deletion, to be made now or after another.
LEMMA Clearing ==
    ASSUME NEW list \in Seq(ItemRow), NEW others, ClearNext(list, others),
           \A i \in DOMAIN list : SoundRest(list[i])'
    PROVE  \E old, new : LeavesToDeletions(list, others, old, new)
<1>1. \A l : \A t \in Aborted(l) : t.kind # "delete"
  BY DEF Aborted
<1>2. \A i \in DOMAIN list : list[i] \in ItemRow
  OBVIOUS
<1>3. CASE /\ \A i \in DOMAIN list : list[i].upload = NoUpload
           /\ tasks' = others \ Aborted(list)
  <2>1. tasks' = (others \ Aborted(list)) \cup {}
    BY <1>3
  <2> QED
    BY <1>1, <1>3, <2>1, NothingNew DEF LeavesToDeletions
<1>4. ASSUME NEW upto \in DOMAIN list, list[upto].upload # NoUpload,
             \A i \in DOMAIN list : list[i].upload # NoUpload => upto <= i,
             tasks' = (others \ Aborted(SubSeq(list, 1, upto)))
                      \cup {[Deleting(list[upto].id, list[upto].upload, "clear") EXCEPT
                               !.rest = SubSeq(list, upto + 1, Len(list))]}
      PROVE  \E old, new : LeavesToDeletions(list, others, old, new)
  <2>1. PICK d, rest : d = Deleting(list[upto].id, list[upto].upload, "clear")
                       /\ rest = SubSeq(list, upto + 1, Len(list))
    OBVIOUS
  <2>2. PICK x : x = [d EXCEPT !.rest = rest]
    OBVIOUS
  <2>3. SoundRest(list[upto])' /\ list[upto].id \in Nat /\ list[upto].upload \in Nat
    BY <1>2, <1>4 DEF SoundRest, ItemRow
  <2>4. /\ d \in TaskRow /\ d.kind = "delete" /\ d.then = "clear" /\ d.item = list[upto].id
        /\ d.upload = list[upto].upload
    BY <2>1, <2>3, TaskMade, SMTT(30)
  <2>5. /\ rest \in Seq(ItemRow) /\ Len(rest) = Len(list) - upto /\ DOMAIN rest = 1 .. Len(list) - upto
        /\ \A i \in 1 .. Len(list) - upto : rest[i] = list[upto + i]
    <3>1. /\ SubSeq(list, upto + 1, Len(list)) \in Seq(ItemRow)
          /\ Len(SubSeq(list, upto + 1, Len(list))) = Len(list) - upto
          /\ \A i \in 1 .. Len(list) - upto : SubSeq(list, upto + 1, Len(list))[i] = list[upto + i]
      BY Remainder
    <3>2. rest \in Seq(ItemRow) /\ Len(rest) = Len(list) - upto
      BY <2>1, <3>1
    <3>3. DOMAIN rest = 1 .. Len(rest)
      BY <3>2
    <3> QED
      BY <2>1, <3>1, <3>2, <3>3
  <2>6. /\ x \in TaskRow /\ x.kind = "delete" /\ x.then = "clear" /\ x.item = list[upto].id
        /\ x.upload = list[upto].upload /\ x.rest = rest
    BY <2>2, <2>4, <2>5 DEF TaskRow
  <2>7. \A i \in DOMAIN rest : upto + i \in DOMAIN list /\ rest[i] = list[upto + i]
    BY <2>5
  <2>8. SoundTask(x)'
    BY <1>4, <2>3, <2>6, <2>7 DEF SoundTask, SoundRest
  <2>9. \A i \in DOMAIN list : list[i].upload # NoUpload =>
            \/ x.upload = list[i].upload
            \/ \E j \in DOMAIN x.rest : x.rest[j].upload = list[i].upload
    <3> SUFFICES ASSUME NEW i \in DOMAIN list, list[i].upload # NoUpload, i # upto
                 PROVE  \E j \in DOMAIN rest : rest[j].upload = list[i].upload
      BY <2>6
    <3>1. upto <= i /\ i \in 1 .. Len(list) /\ upto \in 1 .. Len(list) /\ Len(list) \in Nat
      BY <1>4
    <3>2. i - upto \in DOMAIN rest /\ upto + (i - upto) = i
      BY <2>5, <3>1
    <3> QED
      BY <2>7, <3>2
  <2>10. PICK old, new : old = Aborted(SubSeq(list, 1, upto)) /\ new = {x}
    OBVIOUS
  <2>11. tasks' = (others \ old) \cup new
    BY <1>4, <2>1, <2>2, <2>10
  <2>12. new \in SUBSET TaskRow /\ IsFiniteSet(new)
    BY <2>6, <2>10, FS_Singleton
  <2>13. \A t \in new : t.kind = "delete" /\ t.then # "upload" /\ SoundTask(t)'
    BY <2>6, <2>8, <2>10
  <2>14. \A i \in DOMAIN list : list[i].upload # NoUpload =>
            \E t \in new : \/ t.upload = list[i].upload
                           \/ \E j \in DOMAIN t.rest : t.rest[j].upload = list[i].upload
    BY <2>9, <2>10
  <2>15. \A t \in old : t.kind # "delete"
    BY <1>1, <2>10
  <2> QED
    BY <2>11, <2>12, <2>13, <2>14, <2>15 DEF LeavesToDeletions
<1> QED
  BY <1>3, <1>4 DEF ClearNext

LEMMA ImagesCleared ==
    ASSUME UploadsInv, clearReferenceImages, request.kind # "generate"
    PROVE  UploadsInv'
<1>1. staged' = <<>> /\ ClearNext(staged, tasks) /\ UNCHANGED <<picked, uploadRows, request>> /\ RowsAdvance
  BY RowsStay DEF clearReferenceImages
<1>2. PICK list : list = staged
  OBVIOUS
<1>3. list \in Seq(ItemRow) /\ ClearNext(list, tasks)
  BY <1>1, <1>2 DEF UploadsInv, StagingTypes
<1>0. PICK others : others = tasks
  OBVIOUS
<1>4. \A i \in DOMAIN list : SoundRest(list[i])'
  <2> SUFFICES ASSUME NEW i \in DOMAIN list
               PROVE  SoundRest(list[i])'
    OBVIOUS
  <2>1. SoundItem(list[i]) /\ list[i] \in ItemRow
    BY <1>2, <1>3 DEF UploadsInv, Images
  <2> QED
    BY <1>1, <2>1 DEF SoundItem, SoundRest, Picked, Names, isStaged, ItemRow
<1>5. PICK old, new : LeavesToDeletions(list, others, old, new)
  <2>1. ClearNext(list, others)
    BY <1>0, <1>3
  <2> QED
    BY <1>3, <1>4, <2>1, Clearing
<1>6. Accounted'
  <2> SUFFICES ASSUME NEW u \in DOMAIN uploadRows, Owed(u)
               PROVE  Handled(u)'
    BY <1>1 DEF Accounted, Owed
  <2>1. Handled(u) /\ u # NoUpload
    BY DEF UploadsInv, Accounted, StagingTypes, NoUpload
  <2> QED
    BY <1>0, <1>2, <1>5, <2>1 DEF Handled, LeavesToDeletions
<1>7. Distinct' /\ Requested' /\ staged' \in Seq(ItemRow) /\ DOMAIN staged' = {}
  BY <1>1 DEF Distinct, Requested
<1> QED
  BY <1>0, <1>1, <1>5, <1>6, <1>7, Rearranged DEF LeavesToDeletions

\* An image is uploaded again, under no upload.
LEMMA Restarted ==
    ASSUME UploadsInv, NEW id \in Nat, isStaged(id), request.kind # "generate", UNCHANGED <<picked, request>>,
           RowsAdvance, \A u \in DOMAIN uploadRows' : Owed(u)' => u \in DOMAIN uploadRows /\ Owed(u),
           \A i \in DOMAIN staged, u \in DOMAIN uploadRows' : staged[i].id = id /\ staged[i].upload = u => ~Owed(u)',
           NEW x \in TaskRow, x.kind = "presign", x.item = id, x.upload = NoUpload, x.then = "end", x.rest = <<>>,
           NEW old \in SUBSET tasks, tasks' = (tasks \ old) \cup {x},
           \A t \in tasks \ old : t.item # id,
           \A t \in old : t.rest = <<>> /\ \A u \in DOMAIN uploadRows' : t.upload = u => ~Owed(u)',
           staged' = updateStagedImage(staged, id, "uploading", NoUpload)
    PROVE  UploadsInv'
<1>1. staged \in Seq(ItemRow) /\ DOMAIN staged = 1 .. Len(staged) /\ Len(staged) \in Nat
      /\ (\A i \in DOMAIN staged : staged[i] \in ItemRow) /\ picked \in Nat
  BY DEF UploadsInv, StagingTypes
<1>2. \A i \in DOMAIN staged :
         /\ [staged[i] EXCEPT !.status = "uploading", !.upload = NoUpload] \in ItemRow
         /\ [staged[i] EXCEPT !.status = "uploading", !.upload = NoUpload].id = staged[i].id
         /\ [staged[i] EXCEPT !.status = "uploading", !.upload = NoUpload].status = "uploading"
         /\ [staged[i] EXCEPT !.status = "uploading", !.upload = NoUpload].upload = NoUpload
  BY <1>1 DEF ItemRow, NoUpload
<1>3. staged' = [i \in DOMAIN staged |-> IF staged[i].id = id
                     THEN [staged[i] EXCEPT !.status = "uploading", !.upload = NoUpload] ELSE staged[i]]
  BY DEF updateStagedImage
<1>4. DOMAIN staged' = DOMAIN staged /\ \A i \in DOMAIN staged :
         /\ staged'[i] \in ItemRow /\ staged'[i].id = staged[i].id
         /\ staged[i].id = id => staged'[i].status = "uploading" /\ staged'[i].upload = NoUpload
         /\ staged[i].id # id => staged'[i] = staged[i]
  BY <1>1, <1>2, <1>3
<1>5. staged' \in Seq(ItemRow) /\ Len(staged') = Len(staged)
  <2>1. staged' = [i \in 1 .. Len(staged) |-> staged'[i]]
    BY <1>1, <1>3
  <2>2. \A i \in 1 .. Len(staged) : staged'[i] \in ItemRow
    BY <1>1, <1>4
  <2> QED
    BY <1>1, <2>1, <2>2
<1>6. id \notin GalleryAssets /\ Picked(id)'
  BY ReferenceAssumption DEF Picked, isStaged, UploadsInv, Images, SoundItem
<1>7. ASSUME NEW i \in DOMAIN staged, staged[i].id = id
      PROVE  SoundItem(staged[i])' /\ Fits(x, staged'[i])
  BY <1>4, <1>6, <1>7 DEF SoundItem, Names, Fits
<1>8. SoundTask(x)'
  BY <1>6 DEF SoundTask, Names
<1>9. Accounted'
  <2> SUFFICES ASSUME NEW u \in DOMAIN uploadRows', Owed(u)'
               PROVE  Handled(u)'
    BY DEF Accounted
  <2>1. Handled(u) /\ u # NoUpload
    BY DEF UploadsInv, Accounted, StagingTypes, RowsAdvance, NoUpload
  <2>2. ASSUME NEW i \in DOMAIN staged, staged[i].upload = u
        PROVE  Handled(u)'
    BY <1>4, <2>1, <2>2 DEF Handled
  <2>3. ASSUME NEW t \in tasks, t.kind = "delete",
               t.upload = u \/ \E i \in DOMAIN t.rest : t.rest[i].upload = u
        PROVE  Handled(u)'
    <3>1. t \notin old
      BY <2>3
    <3> QED
      BY <2>3, <3>1 DEF Handled
  <2> QED
    BY <2>1, <2>2, <2>3 DEF Handled
<1>10. PICK new : new = {x}
  OBVIOUS
<1>11. /\ new \in SUBSET TaskRow /\ IsFiniteSet(new) /\ tasks' = (tasks \ old) \cup new
       /\ \A y \in new : y.item = id /\ SoundTask(y)'
       /\ \A y, z \in new : y = z
       /\ \A i \in DOMAIN staged : staged[i].id = id =>
             SoundItem(staged[i])' /\ \A y \in new : Fits(y, staged'[i])
  BY <1>7, <1>8, <1>10, FS_Singleton
<1>12. /\ isStaged(id) => \A t \in tasks \ old : t.item # id
       /\ request.kind = "generate" => ~isStaged(id)
       /\ \A i \in DOMAIN staged : staged'[i].id = staged[i].id
       /\ \A i \in DOMAIN staged : staged[i].id # id => staged'[i] = staged[i]
  BY <1>4
<1> QED
  BY <1>5, <1>9, <1>11, <1>12, OneImage

\* What the theorem assumes: a retry button is not clicked again before it is answered.
OneClick == RetryClicks = 1

LEMMA UploadRetried ==
    ASSUME OneClick, UploadsInv, NEW k \in DOMAIN staged, retryReferenceUpload(k)
    PROVE  UploadsInv'
<1>1. PICK item : item = staged[k]
  OBVIOUS
<1>2. /\ UNCHANGED <<picked, uploadRows, request>> /\ request.kind = "none" /\ RowsAdvance
      /\ item.status = "error" /\ item.id \in LocalIds
  BY <1>1, RowsStay DEF retryReferenceUpload, Idle_
<1>3. staged \in Seq(ItemRow) /\ DOMAIN staged = 1 .. Len(staged) /\ Len(staged) \in Nat
      /\ \A i \in DOMAIN staged : staged[i] \in ItemRow
  BY DEF UploadsInv, StagingTypes
<1>4. item \in ItemRow /\ SoundItem(item) /\ item.upload \in Nat /\ item.id \in Nat /\ picked \in Nat
  BY <1>1, <1>2, <1>3, ReferenceAssumption DEF UploadsInv, StagingTypes, Images, ItemRow, LocalIds
<1>5. \A i \in DOMAIN staged : staged[i].id = item.id => i = k
  BY <1>1 DEF UploadsInv, Distinct
<1>6. \A t \in tasks : t.item = item.id =>
          t.kind = "delete" /\ t.then = "upload" /\ item.upload = t.upload /\ t.upload # NoUpload
  <2> SUFFICES ASSUME NEW t \in tasks, t.item = item.id
               PROVE  t.kind = "delete" /\ t.then = "upload" /\ item.upload = t.upload /\ t.upload # NoUpload
    OBVIOUS
  <2>1. t \in TaskRow /\ SoundTask(t) /\ Fits(t, item)
    BY <1>1, ItsImage
  <2> QED
    BY <1>2, <2>1 DEF TaskRow, Fits, SoundTask
<1>7. CASE item.upload = NoUpload
  <2>1. PICK x : x = Waiting("presign", item.id, NoUpload)
    OBVIOUS
  <2>2. x \in TaskRow /\ x.kind = "presign" /\ x.item = item.id /\ x.upload = NoUpload /\ x.then = "end"
        /\ x.rest = <<>>
    BY <1>4, <2>1, TaskMade DEF Waiting, NoUpload
  <2>3. /\ tasks' = tasks \cup {x}
        /\ staged' = updateStagedImage(staged, item.id, "uploading", NoUpload)
    BY <1>1, <1>7, <2>1 DEF retryReferenceUpload
  <2>4. \A t \in tasks : t.item # item.id
    BY <1>6, <1>7
  <2>5. PICK old, it : old = {} /\ it = item.id
    OBVIOUS
  <2>6. /\ old \in SUBSET tasks /\ tasks' = (tasks \ old) \cup {x} /\ it \in Nat /\ isStaged(it)
        /\ \A t \in tasks \ old : t.item # it
        /\ \A t \in old : t.rest = <<>> /\ \A u \in DOMAIN uploadRows' : t.upload = u => ~Owed(u)'
        /\ \A i \in DOMAIN staged, u \in DOMAIN uploadRows' : staged[i].id = it /\ staged[i].upload = u => ~Owed(u)'
        /\ staged' = updateStagedImage(staged, it, "uploading", NoUpload)
    <3>1. NoUpload \notin DOMAIN uploadRows'
      BY <1>2 DEF UploadsInv, StagingTypes, NoUpload
    <3> QED
      BY <1>1, <1>4, <1>5, <1>7, <2>3, <2>4, <2>5, <3>1 DEF isStaged
  <2>7. \A u \in DOMAIN uploadRows' : Owed(u)' => u \in DOMAIN uploadRows /\ Owed(u)
    BY <1>2 DEF Owed
  <2> QED
    BY <1>2, <2>2, <2>5, <2>6, <2>7, Restarted, ZenonT(60)
<1>8. CASE item.upload # NoUpload
  <2>1. PICK again : again = {t \in tasks : t.kind = "delete" /\ t.item = item.id /\ t.then = "upload"}
    OBVIOUS
  <2>2. Cardinality(again) < 1 /\ UNCHANGED staged
        /\ tasks' = tasks \cup {[Deleting(item.id, item.upload, "upload") EXCEPT !.n = Cardinality(again) + 1]}
    BY <1>1, <1>8, <2>1 DEF retryReferenceUpload, OneClick
  <2>3. again = {} /\ Cardinality(again) = 0
    <3>1. IsFiniteSet(again)
      BY <2>1, FS_Subset DEF UploadsInv, StagingTypes
    <3> QED
      BY <2>2, <3>1, FS_CardinalityType, FS_EmptySet
  <2>4. \A t \in tasks : t.item # item.id
    BY <1>6, <2>1, <2>3
  <2>5. PICK d, x : d = Deleting(item.id, item.upload, "upload") /\ x = [d EXCEPT !.n = Cardinality(again) + 1]
    OBVIOUS
  <2>6. d \in TaskRow /\ d.kind = "delete" /\ d.then = "upload" /\ d.item = item.id /\ d.upload = item.upload
        /\ d.rest = <<>>
    BY <1>4, <2>5, TaskMade
  <2>7. x \in TaskRow /\ x.kind = "delete" /\ x.then = "upload" /\ x.item = item.id /\ x.upload = item.upload
        /\ x.rest = <<>>
    BY <2>3, <2>5, <2>6 DEF TaskRow
  <2>8. SoundTask(x)'
    BY <1>2, <1>4, <1>8, <2>7 DEF SoundTask, SoundItem, Picked, Names
  <2>9. PICK new, old, it : new = {x} /\ old = {} /\ it = item.id
    OBVIOUS
  <2>10. /\ new \in SUBSET TaskRow /\ IsFiniteSet(new) /\ old \in SUBSET tasks
         /\ tasks' = (tasks \ old) \cup new
         /\ \A y \in new : y.item = it /\ SoundTask(y)'
         /\ \A y, z \in new : y = z
    BY <2>2, <2>5, <2>7, <2>8, <2>9, FS_Singleton
  <2>11. it \in Nat /\ \A other \in tasks \ old : other.item # it
    BY <1>4, <2>4, <2>9
  <2>12. /\ \A i \in DOMAIN staged : staged[i].id = it =>
                SoundItem(staged[i])' /\ \A y \in new : Fits(y, staged'[i])
         /\ \A i \in DOMAIN staged : staged'[i].id = staged[i].id
         /\ \A i \in DOMAIN staged : staged[i].id # it => staged'[i] = staged[i]
         /\ staged' \in Seq(ItemRow) /\ Len(staged') = Len(staged)
    <3>1. SoundItem(item)'
      BY <1>2, <1>4 DEF SoundItem, Picked, Names
    <3>2. Fits(x, item)
      BY <1>2, <2>7 DEF Fits
    <3>3. \A i \in DOMAIN staged : staged[i].id = it => staged'[i] = item
      BY <1>1, <1>5, <2>2, <2>9
    <3> QED
      BY <1>3, <2>2, <2>9, <3>1, <3>2, <3>3 DEF SoundItem
  <2>13. Accounted'
    BY <1>2, <2>2, StaysAccounted DEF Owed
  <2> QED
    BY <1>2, <2>10, <2>11, <2>12, <2>13, OneImage
<1> QED
  BY <1>7, <1>8

LEMMA UploadDeleted ==
    ASSUME UploadsInv, NEW t \in tasks, deleteGenerationUpload(t)
    PROVE  UploadsInv'
<1>1. t.kind = "delete" /\ UNCHANGED <<picked, request>>
  BY DEF deleteGenerationUpload
<1>2. /\ uploadRows \in Seq(RowOfUpload) /\ t.upload \in DOMAIN uploadRows /\ t.upload # NoUpload
      /\ uploadRows[t.upload] \in RowOfUpload /\ t \in TaskRow /\ SoundTask(t) /\ t.item \in Nat
      /\ t.rest \in Seq(ItemRow) /\ Len(uploadRows) <= MaxUploadRows
  BY <1>1, ItsImage DEF UploadsInv, StagingTypes, SoundTask, Names, TaskRow
<1>3. /\ RowsAdvance
      /\ \A u \in DOMAIN uploadRows' : Owed(u)' => u \in DOMAIN uploadRows /\ Owed(u) /\ u # t.upload
  <2>1. PICK was : was = uploadRows[t.upload]
    OBVIOUS
  <2>2. ASSUME NEW row \in RowOfUpload, uploadRows' = [uploadRows EXCEPT ![t.upload] = row],
               row.item = was.item, row.verified = was.verified,
               row.status = "deleted" \/ (row.status = was.status /\ row.kept)
        PROVE  /\ RowsAdvance
               /\ \A u \in DOMAIN uploadRows' : Owed(u)' => u \in DOMAIN uploadRows /\ Owed(u) /\ u # t.upload
    <3>1. /\ uploadRows' \in Seq(RowOfUpload) /\ DOMAIN uploadRows' = DOMAIN uploadRows
          /\ Len(uploadRows') = Len(uploadRows)
          /\ uploadRows'[t.upload] = row
          /\ \A u \in DOMAIN uploadRows : u # t.upload => uploadRows'[u] = uploadRows[u]
      BY <1>2, <2>2
    <3>2. Verified'
      BY <1>2, <2>1, <2>2, <3>1 DEF Verified, UploadsInv
    <3> QED
      BY <1>2, <2>1, <2>2, <3>1, <3>2 DEF RowsAdvance, Owed
  <2>3. CASE uploadRows' = [uploadRows EXCEPT ![t.upload].status = "deleted"]
    <3>1. PICK row : row = [was EXCEPT !.status = "deleted"]
      OBVIOUS
    <3>2. row \in RowOfUpload /\ row.item = was.item /\ row.verified = was.verified /\ row.status = "deleted"
      BY <1>2, <2>1, <3>1 DEF RowOfUpload
    <3>3. uploadRows' = [uploadRows EXCEPT ![t.upload] = row]
      BY <2>1, <2>3, <3>1
    <3> QED
      BY <2>2, <3>2, <3>3
  <2>4. CASE uploadRows' = [uploadRows EXCEPT ![t.upload].kept = TRUE]
    <3>1. PICK row : row = [was EXCEPT !.kept = TRUE]
      OBVIOUS
    <3>2. row \in RowOfUpload /\ row.item = was.item /\ row.verified = was.verified /\ row.status = was.status
          /\ row.kept
      BY <1>2, <2>1, <3>1 DEF RowOfUpload
    <3>3. uploadRows' = [uploadRows EXCEPT ![t.upload] = row]
      BY <2>1, <2>4, <3>1
    <3> QED
      BY <2>2, <3>2, <3>3
  <2>5. CASE uploadRows[t.upload].status \in {"deleted", "attached"} /\ UNCHANGED uploadRows
    BY <1>2, <2>5, RowsStay DEF Owed
  <2> QED
    BY <2>3, <2>4, <2>5 DEF deleteGenerationUpload
<1>4. \A u \in DOMAIN uploadRows' : Owed(u)' =>
          \/ \E i \in DOMAIN staged : staged[i].upload = u
          \/ \E x \in tasks \ {t} : x.kind = "delete" /\ (x.upload = u \/ \E i \in DOMAIN x.rest : x.rest[i].upload = u)
          \/ \E i \in DOMAIN t.rest : t.rest[i].upload = u
  <2> SUFFICES ASSUME NEW u \in DOMAIN uploadRows', Owed(u)'
               PROVE  \/ \E i \in DOMAIN staged : staged[i].upload = u
                      \/ \E x \in tasks \ {t} : x.kind = "delete"
                             /\ (x.upload = u \/ \E i \in DOMAIN x.rest : x.rest[i].upload = u)
                      \/ \E i \in DOMAIN t.rest : t.rest[i].upload = u
    OBVIOUS
  <2>1. Handled(u) /\ u # t.upload
    BY <1>3 DEF UploadsInv, Accounted
  <2> QED
    BY <2>1 DEF Handled
<1>5. ASSUME t.then # "clear", Ends(t), UNCHANGED staged
      PROVE  UploadsInv'
  <2>1. t.rest = <<>> /\ DOMAIN t.rest = {}
    BY <1>2, <1>5 DEF SoundTask
  <2>2. tasks' = (tasks \ {t}) \cup {}
    BY <1>5 DEF Ends
  <2>3. Accounted'
    BY <1>4, <1>5, <2>1, <2>2 DEF Accounted, Handled
  <2>4. PICK new : new = {}
    OBVIOUS
  <2> QED
    BY <1>1, <1>3, <1>5, <2>2, <2>3, <2>4, NothingNew, TaskEnds
<1>6. ASSUME t.then = "clear", ClearNext(t.rest, tasks \ {t}), UNCHANGED staged
      PROVE  UploadsInv'
  <2>1. PICK list, others : list = t.rest /\ others = tasks \ {t}
    OBVIOUS
  <2>2. list \in Seq(ItemRow) /\ ClearNext(list, others)
    BY <1>2, <1>6, <2>1
  <2>3. \A i \in DOMAIN list : SoundRest(list[i])'
    <3> SUFFICES ASSUME NEW i \in DOMAIN list
                 PROVE  SoundRest(list[i])'
      OBVIOUS
    <3>1. SoundRest(list[i]) /\ list[i] \in ItemRow
      BY <1>2, <2>1, <2>2 DEF SoundTask
    <3> QED
      BY <1>1, <1>3, <1>6, <3>1 DEF SoundRest, Picked, Names, isStaged, RowsAdvance, ItemRow
  <2>4. PICK old, new : LeavesToDeletions(list, others, old, new)
    BY <2>2, <2>3, Clearing
  <2>5. Accounted'
    <3> SUFFICES ASSUME NEW u \in DOMAIN uploadRows', Owed(u)'
                 PROVE  Handled(u)'
      BY DEF Accounted
    <3>1. u # NoUpload
      BY <1>3 DEF RowsAdvance, NoUpload
    <3>2. CASE \E i \in DOMAIN staged : staged[i].upload = u
      BY <1>6, <3>2 DEF Handled
    <3>3. CASE \E x \in tasks \ {t} : x.kind = "delete"
                  /\ (x.upload = u \/ \E i \in DOMAIN x.rest : x.rest[i].upload = u)
      BY <2>1, <2>4, <3>3 DEF Handled, LeavesToDeletions
    <3>4. CASE \E i \in DOMAIN t.rest : t.rest[i].upload = u
      BY <2>1, <2>4, <3>1, <3>4 DEF Handled, LeavesToDeletions
    <3> QED
      BY <1>4, <3>2, <3>3, <3>4
  <2>6. PICK gone : gone = old \cup {t}
    OBVIOUS
  <2>7. tasks' = (tasks \ gone) \cup new
    BY <2>1, <2>4, <2>6 DEF LeavesToDeletions
  <2>8. Distinct' /\ Requested'
    BY <1>1, <1>6 DEF UploadsInv, Distinct, Requested
  <2>9. staged' \in Seq(ItemRow) /\ \A j \in DOMAIN staged' : \E i \in DOMAIN staged : staged'[j] = staged[i]
    BY <1>6 DEF UploadsInv, StagingTypes
  <2>10. /\ new \in SUBSET TaskRow /\ IsFiniteSet(new)
         /\ \A x \in new : x.kind = "delete" /\ x.then # "upload" /\ SoundTask(x)'
    BY <2>4 DEF LeavesToDeletions
  <2> QED
    BY <1>1, <1>3, <2>5, <2>7, <2>8, <2>9, <2>10, Rearranged
<1>7. ASSUME t.then = "upload", isStaged(t.item),
             staged' = updateStagedImage(staged, t.item, "uploading", NoUpload),
             tasks' = (tasks \ {t}) \cup {[Waiting("presign", t.item, NoUpload) EXCEPT !.n = t.n]}
      PROVE  UploadsInv'
  <2>1. PICK w, x : w = Waiting("presign", t.item, NoUpload) /\ x = [w EXCEPT !.n = t.n]
    OBVIOUS
  <2>2. w \in TaskRow /\ w.kind = "presign" /\ w.item = t.item /\ w.upload = NoUpload /\ w.then = "end"
        /\ w.rest = <<>>
    BY <1>2, <2>1, TaskMade DEF Waiting, NoUpload
  <2>3. x \in TaskRow /\ x.kind = "presign" /\ x.item = t.item /\ x.upload = NoUpload /\ x.then = "end"
        /\ x.rest = <<>>
    BY <1>2, <2>1, <2>2 DEF TaskRow
  <2>4. PICK old, it : old = {t} /\ it = t.item
    OBVIOUS
  <2>5. /\ old \in SUBSET tasks /\ tasks' = (tasks \ old) \cup {x} /\ it \in Nat /\ isStaged(it)
        /\ request.kind # "generate" /\ x.item = it
        /\ \A other \in tasks \ old : other.item # it
        /\ staged' = updateStagedImage(staged, it, "uploading", NoUpload)
    BY <1>2, <1>7, <2>1, <2>3, <2>4, ItsImage
  <2>6. \A y \in old : y.rest = <<>> /\ \A u \in DOMAIN uploadRows' : y.upload = u => ~Owed(u)'
    BY <1>2, <1>3, <1>7, <2>4 DEF SoundTask
  <2>7. \A i \in DOMAIN staged, u \in DOMAIN uploadRows' : staged[i].id = it /\ staged[i].upload = u => ~Owed(u)'
    <3>1. \A i \in DOMAIN staged : staged[i].id = it => staged[i].upload = t.upload
      BY <1>1, <2>4, ItsImage DEF Fits
    <3> QED
      BY <1>3, <3>1
  <2>8. \A u \in DOMAIN uploadRows' : Owed(u)' => u \in DOMAIN uploadRows /\ Owed(u)
    BY <1>3
  <2> QED
    BY <1>1, <1>3, <2>3, <2>5, <2>6, <2>7, <2>8, Restarted
<1> QED
  BY <1>1, <1>5, <1>6, <1>7 DEF deleteGenerationUpload

\* Nothing happens to the images and their tasks.
LEMMA ImagesRest ==
    ASSUME UploadsInv, UNCHANGED <<staged, picked, tasks>>, RowsAdvance, Requested',
           \A u \in DOMAIN uploadRows' : Owed(u)' => u \in DOMAIN uploadRows /\ Owed(u)
    PROVE  UploadsInv'
<1>1. Distinct' /\ staged' \in Seq(ItemRow) /\ \A j \in DOMAIN staged' : \E i \in DOMAIN staged : staged'[j] = staged[i]
  BY DEF UploadsInv, Distinct, StagingTypes
<1>2. Accounted'
  BY StaysAccounted
<1>3. PICK none : none = {}
  OBVIOUS
<1>4. tasks' = (tasks \ none) \cup none /\ \A t \in none : t.kind = "delete" /\ t.then # "upload" /\ SoundTask(t)'
  BY <1>3
<1> QED
  BY <1>1, <1>2, <1>3, <1>4, NothingNew, Rearranged

LEMMA ImagesReordered ==
    ASSUME UploadsInv, NEW k \in DOMAIN staged, reorderReferenceImages(k)
    PROVE  UploadsInv'
<1>1. /\ k < Len(staged) /\ request.kind = "none" /\ UNCHANGED <<picked, uploadRows, tasks, request>> /\ RowsAdvance
      /\ staged' = [staged EXCEPT ![k] = staged[k + 1], ![k + 1] = staged[k]]
  BY RowsStay DEF reorderReferenceImages, Idle_
<1>2. staged \in Seq(ItemRow) /\ DOMAIN staged = 1 .. Len(staged) /\ Len(staged) \in Nat
      /\ \A i \in DOMAIN staged : staged[i] \in ItemRow
  BY DEF UploadsInv, StagingTypes
<1>3. k + 1 \in DOMAIN staged /\ k + 1 # k
  BY <1>1, <1>2
<1>4. /\ DOMAIN staged' = DOMAIN staged /\ staged'[k] = staged[k + 1] /\ staged'[k + 1] = staged[k]
      /\ \A i \in DOMAIN staged : i # k /\ i # k + 1 => staged'[i] = staged[i]
  BY <1>1, <1>2, <1>3
<1>5. staged' \in Seq(ItemRow)
  <2>1. staged' = [i \in 1 .. Len(staged) |-> staged'[i]]
    BY <1>1, <1>2, <1>4
  <2>2. \A i \in 1 .. Len(staged) : staged'[i] \in ItemRow
    BY <1>2, <1>3, <1>4
  <2> QED
    BY <1>2, <2>1, <2>2
<1>6. \A j \in DOMAIN staged' : \E i \in DOMAIN staged : staged'[j] = staged[i]
  BY <1>3, <1>4
<1>7. Distinct'
  BY <1>3, <1>4 DEF UploadsInv, Distinct
<1>8. Accounted'
  <2>1. \A i \in DOMAIN staged : \E j \in DOMAIN staged' : staged'[j].upload = staged[i].upload
    BY <1>3, <1>4
  <2> QED
    BY <1>1, <2>1, StaysAccounted DEF Owed
<1>9. Requested'
  BY <1>1 DEF Requested
<1>10. PICK none : none = {}
  OBVIOUS
<1>11. tasks' = (tasks \ none) \cup none /\ \A t \in none : t.kind = "delete" /\ t.then # "upload" /\ SoundTask(t)'
  BY <1>1, <1>10
<1> QED
  BY <1>1, <1>5, <1>6, <1>7, <1>8, <1>9, <1>10, <1>11, NothingNew, Rearranged

\* The positions of a list all of whose images are used.
LEMMA Positions ==
    ASSUME NEW n \in Nat
    PROVE  /\ Cardinality(1 .. n) = n
           /\ \A k \in 1 .. n : (CHOOSE i \in 1 .. n : Cardinality({j \in 1 .. n : j <= i}) = k) = k
<1>1. \A m \in Nat : Cardinality(1 .. m) = m
  <2> SUFFICES ASSUME NEW m \in Nat
               PROVE  Cardinality(1 .. m) = m
    OBVIOUS
  <2>1. 1 \in Int /\ m \in Int
    OBVIOUS
  <2>2. Cardinality(1 .. m) = IF 1 > m THEN 0 ELSE m - 1 + 1
    BY <2>1, FS_Interval
  <2> QED
    BY <2>2
<1>2. \A i \in 1 .. n : Cardinality({j \in 1 .. n : j <= i}) = i
  <2> SUFFICES ASSUME NEW i \in 1 .. n
               PROVE  Cardinality({j \in 1 .. n : j <= i}) = i
    OBVIOUS
  <2>1. {j \in 1 .. n : j <= i} = 1 .. i /\ i \in Nat
    OBVIOUS
  <2>2. Cardinality(1 .. i) = i
    BY <1>1, <2>1
  <2> QED
    BY <2>1, <2>2
<1> QED
  BY <1>1, <1>2

LEMMA InputsBuilt ==
    ASSUME UploadsInv, \A i \in DOMAIN staged : staged[i].status = "ready"
    PROVE  /\ buildGenerationInputs \in Seq(Nat \cup GalleryAssets)
           /\ Len(buildGenerationInputs) = Len(staged)
           /\ \A i \in DOMAIN staged : buildGenerationInputs[i] =
                  IF staged[i].upload # NoUpload THEN staged[i].upload ELSE staged[i].id
<1>1. staged \in Seq(ItemRow) /\ DOMAIN staged = 1 .. Len(staged) /\ Len(staged) \in Nat
  BY DEF UploadsInv, StagingTypes
<1>2. \A i \in DOMAIN staged : staged[i].upload # NoUpload \/ staged[i].id \in GalleryAssets
  <2> SUFFICES ASSUME NEW i \in DOMAIN staged
               PROVE  staged[i].upload # NoUpload \/ staged[i].id \in GalleryAssets
    OBVIOUS
  <2>1. staged[i] \in ItemRow /\ SoundItem(staged[i])
    BY <1>1 DEF UploadsInv, Images
  <2> QED
    BY <2>1 DEF SoundItem, ItemRow
<1>3. PICK n : n = Len(staged)
  OBVIOUS
<1> DEFINE usable == {i \in DOMAIN staged :
                         /\ staged[i].status = "ready"
                         /\ staged[i].upload # NoUpload \/ staged[i].id \in GalleryAssets}
           nth(k) == CHOOSE i \in usable : Cardinality({j \in usable : j <= i}) = k
<1>4. usable = 1 .. n
  BY <1>1, <1>2, <1>3
<1>5. Cardinality(usable) = n /\ \A k \in 1 .. n : nth(k) = k
  <2> HIDE DEF usable
  <2> QED
    BY <1>1, <1>3, <1>4, Positions
<1>6. buildGenerationInputs = [position \in 1 .. Cardinality(usable) |->
          IF staged[nth(position)].upload # NoUpload THEN staged[nth(position)].upload ELSE staged[nth(position)].id]
  BY DEF buildGenerationInputs
<1> HIDE DEF usable, nth
<1>7. buildGenerationInputs = [i \in 1 .. n |->
          IF staged[i].upload # NoUpload THEN staged[i].upload ELSE staged[i].id]
  BY <1>5, <1>6
<1>8. \A i \in 1 .. n : staged[i].upload \in Nat /\ staged[i].id \in Nat \cup GalleryAssets
  <2>1. \A i \in 1 .. n : staged[i] \in ItemRow
    BY <1>1, <1>3
  <2> QED
    BY <2>1 DEF ItemRow
<1>9. \A i \in 1 .. n : buildGenerationInputs[i] \in Nat \cup GalleryAssets
  BY <1>7, <1>8
<1>10. buildGenerationInputs \in Seq(Nat \cup GalleryAssets) /\ Len(buildGenerationInputs) = n
  <2>1. n \in Nat /\ buildGenerationInputs = [i \in 1 .. n |-> buildGenerationInputs[i]]
    BY <1>1, <1>3, <1>7
  <2> QED
    BY <1>9, <2>1
<1> QED
  BY <1>1, <1>3, <1>7, <1>10

\* Once a request holds the lock, the list is not touched; when it is taken, its uploads are the job's.
LEMMA RequestAnswered ==
    ASSUME UploadsInv, SubmissionSettles
    PROVE  UploadsInv'
<1>1. request' = NoRequest_ /\ UNCHANGED picked /\ Requested'
  BY DEF SubmissionSettles, Requested, NoRequest_
<1>2. uploadRows \in Seq(RowOfUpload) /\ DOMAIN uploadRows = 1 .. Len(uploadRows) /\ Len(uploadRows) \in Nat
      /\ staged \in Seq(ItemRow) /\ Len(uploadRows) <= MaxUploadRows
  BY DEF UploadsInv, StagingTypes
<1>3. CASE UNCHANGED <<staged, uploadRows, tasks, inflight>>
  BY <1>1, <1>3, RowsStay, ImagesRest DEF Owed
<1> DEFINE named == {request.inputs[i] : i \in DOMAIN request.inputs} \cap UploadIds
<1>4. ASSUME request.kind = "generate", \A u \in named : uploadRows[u].status = "ready",
             uploadRows' = [u \in DOMAIN uploadRows |->
                 IF u \in named THEN [uploadRows[u] EXCEPT !.status = "attached"] ELSE uploadRows[u]]
      PROVE  /\ RowsAdvance
             /\ \A u \in DOMAIN uploadRows' : Owed(u)' => u \in DOMAIN uploadRows /\ Owed(u) /\ u \notin named
  <2> HIDE DEF named
  <2>1. \A u \in DOMAIN uploadRows : uploadRows[u] \in RowOfUpload
    BY <1>2
  <2>2. \A u \in DOMAIN uploadRows :
           /\ [uploadRows[u] EXCEPT !.status = "attached"] \in RowOfUpload
           /\ [uploadRows[u] EXCEPT !.status = "attached"].item = uploadRows[u].item
           /\ [uploadRows[u] EXCEPT !.status = "attached"].verified = uploadRows[u].verified
           /\ [uploadRows[u] EXCEPT !.status = "attached"].status = "attached"
    BY <2>1 DEF RowOfUpload
  <2>3. /\ DOMAIN uploadRows' = DOMAIN uploadRows
        /\ \A u \in DOMAIN uploadRows :
              /\ uploadRows'[u] \in RowOfUpload /\ uploadRows'[u].item = uploadRows[u].item
              /\ uploadRows'[u].verified = uploadRows[u].verified
              /\ u \in named => uploadRows'[u].status = "attached"
              /\ u \notin named => uploadRows'[u] = uploadRows[u]
    BY <1>4, <2>1, <2>2
  <2>4. uploadRows' \in Seq(RowOfUpload) /\ Len(uploadRows') = Len(uploadRows)
    <3>1. uploadRows' = [u \in 1 .. Len(uploadRows) |-> uploadRows'[u]]
      BY <1>2, <1>4
    <3> QED
      BY <1>2, <2>3, <3>1
  <2>5. Verified'
    BY <1>4, <2>3 DEF Verified, UploadsInv
  <2> QED
    BY <1>2, <2>3, <2>4, <2>5 DEF RowsAdvance, Owed
<1>5. ASSUME request.kind = "generate", \A u \in named : uploadRows[u].status = "ready",
             uploadRows' = [u \in DOMAIN uploadRows |->
                 IF u \in named THEN [uploadRows[u] EXCEPT !.status = "attached"] ELSE uploadRows[u]],
             UNCHANGED <<staged, tasks, inflight>>
      PROVE  UploadsInv'
  <2>1. RowsAdvance /\ \A u \in DOMAIN uploadRows' : Owed(u)' => u \in DOMAIN uploadRows /\ Owed(u)
    BY <1>4, <1>5
  <2> QED
    BY <1>1, <1>5, <2>1, ImagesRest
<1>6. ASSUME request.kind = "generate", \A u \in named : uploadRows[u].status = "ready",
             uploadRows' = [u \in DOMAIN uploadRows |->
                 IF u \in named THEN [uploadRows[u] EXCEPT !.status = "attached"] ELSE uploadRows[u]],
             staged' = <<>>, tasks' = tasks \ Aborted(staged)
      PROVE  UploadsInv'
  <2>1. /\ RowsAdvance
        /\ \A u \in DOMAIN uploadRows' : Owed(u)' => u \in DOMAIN uploadRows /\ Owed(u) /\ u \notin named
    BY <1>4, <1>6
  <2>2. PICK old, new : old = Aborted(staged) /\ new = {}
    OBVIOUS
  <2>3. tasks' = (tasks \ old) \cup new /\ (\A t \in old : t.kind = "post")
        /\ \A t \in new : t.kind = "delete" /\ t.then # "upload" /\ SoundTask(t)'
    BY <1>6, <2>2 DEF Aborted
  <2>4. Accounted'
    <3> SUFFICES ASSUME NEW u \in DOMAIN uploadRows', Owed(u)'
                 PROVE  Handled(u)'
      BY DEF Accounted
    <3>1. Handled(u) /\ u \in DOMAIN uploadRows /\ u \notin named
      BY <2>1 DEF UploadsInv, Accounted
    <3>2. \A i \in DOMAIN staged : staged[i].upload # u
      <4> SUFFICES ASSUME NEW i \in DOMAIN staged, staged[i].upload = u
                   PROVE  FALSE
        OBVIOUS
      <4>1. u \in UploadIds
        BY <1>2, <3>1, ReferenceAssumption DEF UploadsInv, StagingTypes, UploadIds
      <4>2. /\ request.inputs \in Seq(Nat \cup GalleryAssets) /\ Len(request.inputs) = Len(staged)
            /\ request.inputs[i] = IF staged[i].upload # NoUpload THEN staged[i].upload ELSE staged[i].id
        BY <1>6 DEF UploadsInv, Requested
      <4>3. request.inputs[i] = u /\ i \in DOMAIN request.inputs
        BY <1>2, <3>1, <4>2 DEF NoUpload
      <4>4. u \in named
        BY <4>1, <4>3
      <4> QED
        BY <3>1, <4>4
    <3> QED
      BY <2>3, <3>1, <3>2 DEF Handled
  <2>5. Distinct' /\ staged' \in Seq(ItemRow) /\ DOMAIN staged' = {}
    BY <1>6 DEF Distinct
  <2> QED
    BY <1>1, <2>1, <2>2, <2>3, <2>4, <2>5, NothingNew, Rearranged
<1> QED
  BY <1>3, <1>5, <1>6 DEF SubmissionSettles

LEMMA InputsTaken ==
    ASSUME UploadsInv, performGenerate
    PROVE  UploadsInv'
<1>1. /\ UNCHANGED <<staged, picked, uploadRows, tasks>> /\ \A i \in DOMAIN staged : staged[i].status = "ready"
      /\ request' = [kind |-> "generate", inputs |-> buildGenerationInputs]
  BY DEF performGenerate
<1>2. Requested'
  BY <1>1, InputsBuilt DEF Requested
<1> QED
  BY <1>1, <1>2, RowsStay, ImagesRest DEF Owed

LEMMA UploadLapsed ==
    ASSUME UploadsInv, NEW u \in DOMAIN uploadRows, UploadExpires(u)
    PROVE  UploadsInv'
<1>1. UNCHANGED <<staged, picked, tasks, request>> /\ uploadRows' = [uploadRows EXCEPT ![u].status = "deleted"]
  BY DEF UploadExpires
<1>2. uploadRows \in Seq(RowOfUpload) /\ Len(uploadRows) <= MaxUploadRows /\ uploadRows[u] \in RowOfUpload
      /\ DOMAIN uploadRows = 1 .. Len(uploadRows) /\ Len(uploadRows) \in Nat
  BY DEF UploadsInv, StagingTypes
<1>3. PICK row : row = [uploadRows[u] EXCEPT !.status = "deleted"]
  OBVIOUS
<1>4. /\ row \in RowOfUpload /\ row.item = uploadRows[u].item /\ row.verified = uploadRows[u].verified
      /\ row.status = "deleted"
  BY <1>2, <1>3 DEF RowOfUpload
<1>5. /\ uploadRows' \in Seq(RowOfUpload) /\ DOMAIN uploadRows' = DOMAIN uploadRows /\ uploadRows'[u] = row
      /\ Len(uploadRows') = Len(uploadRows)
      /\ \A v \in DOMAIN uploadRows : v # u => uploadRows'[v] = uploadRows[v]
  <2>1. uploadRows' = [uploadRows EXCEPT ![u] = row]
    BY <1>1, <1>3
  <2> QED
    BY <1>2, <1>4, <2>1
<1>6. Verified'
  BY <1>4, <1>5 DEF Verified, UploadsInv
<1>7. RowsAdvance /\ \A v \in DOMAIN uploadRows' : Owed(v)' => v \in DOMAIN uploadRows /\ Owed(v)
  BY <1>2, <1>4, <1>5, <1>6 DEF RowsAdvance, Owed
<1>8. Requested'
  BY <1>1 DEF UploadsInv, Requested
<1> QED
  BY <1>1, <1>7, <1>8, ImagesRest

LEMMA UploadsStart == ReferenceInit => UploadsInv
<1> SUFFICES ASSUME ReferenceInit
             PROVE  UploadsInv
  OBVIOUS
<1>1. staged = <<>> /\ picked = 0 /\ uploadRows = <<>> /\ tasks = {} /\ request.kind = "none"
  BY DEF ReferenceInit, NoRequest_
<1>2. StagingTypes
  BY <1>1, FS_EmptySet, ReferenceAssumption DEF StagingTypes
<1>3. DOMAIN staged = {} /\ DOMAIN uploadRows = {}
  BY <1>1
<1> QED
  BY <1>1, <1>2, <1>3
     DEF UploadsInv, Images, Distinct, Work, Fitting, OneTask, Verified, Accounted, Requested

LEMMA UploadsGoOn ==
    ASSUME OneClick, UploadsInv, [ReferenceNext]_referenceVars
    PROVE  UploadsInv'
<1>1. CASE UNCHANGED referenceVars
  <2>1. UNCHANGED <<staged, picked, uploadRows, tasks, request>>
    BY <1>1 DEF referenceVars
  <2>2. Requested'
    BY <2>1 DEF UploadsInv, Requested
  <2> QED
    BY <2>1, <2>2, RowsStay, ImagesRest DEF Owed
<1>2. CASE addReferenceFiles \/ \E a \in GalleryAssets : addGalleryImage(a)
  BY <1>2, FileStaged, GalleryStaged
<1>3. CASE \E t \in tasks : checkImageDimensions(t) \/ startUpload(t) \/ PostSettles(t)
                            \/ CompleteSettles(t) \/ deleteGenerationUpload(t)
  BY <1>3, FileDecoded, UploadStarted, UploadPosted, UploadCompleted, UploadDeleted
<1>4. CASE \E i \in DOMAIN staged : removeReferenceImage(i) \/ retryReferenceUpload(i) \/ reorderReferenceImages(i)
  BY <1>4, ImageRemoved, UploadRetried, ImagesReordered
<1>5. CASE ClearAll \/ confirmReuse
  BY <1>5, ImagesCleared DEF ClearAll, confirmReuse, Idle_
<1>6. CASE setSelectedModelId \/ handleSubmitEdit
  <2>1. UNCHANGED <<staged, picked, uploadRows, tasks>> /\ request'.kind # "generate"
    BY <1>6 DEF setSelectedModelId, handleSubmitEdit, Idle_
  <2>2. Requested'
    BY <2>1 DEF Requested
  <2> QED
    BY <2>1, <2>2, RowsStay, ImagesRest DEF Owed
<1>7. CASE performGenerate \/ SubmissionSettles
  BY <1>7, InputsTaken, RequestAnswered
<1>8. CASE \E u \in DOMAIN uploadRows : UploadExpires(u)
  BY <1>8, UploadLapsed
<1> QED
  BY <1>1, <1>2, <1>3, <1>4, <1>5, <1>6, <1>7, <1>8 DEF ReferenceNext

\* No upload row is forgotten, no image called ready that was not verified, and no input of a
\* request deleted under it, whatever the user does while files are decoded, posted and verified.
THEOREM UploadsStayAccounted ==
    ASSUME OneClick
    PROVE  ReferenceSpec => []UploadsAccounted
<1>1. UploadsInv => UploadsAccounted
  <2> SUFFICES ASSUME UploadsInv
               PROVE  UploadsAccounted
    OBVIOUS
  <2>1. \A i \in DOMAIN staged : staged[i].status = "ready" /\ staged[i].id \in LocalIds
            => staged[i].upload # NoUpload /\ uploadRows[staged[i].upload].verified
    BY ReferenceAssumption DEF UploadsInv, Images, SoundItem, LocalIds
  <2>2. \A u \in DOMAIN uploadRows :
            uploadRows[u].known /\ uploadRows[u].status \in {"pending", "ready"} /\ ~uploadRows[u].kept => Handled(u)
    BY DEF UploadsInv, Accounted, Owed
  <2>3. ASSUME request.kind = "generate", NEW t \in tasks, t.kind = "delete", NEW k \in DOMAIN request.inputs,
               request.inputs[k] = t.upload
        PROVE  FALSE
    <3>1. t \in TaskRow /\ SoundTask(t) /\ t.upload \in Nat /\ ~isStaged(t.item)
      BY <2>3, ItsImage DEF TaskRow
    <3>2. /\ request.inputs \in Seq(Nat \cup GalleryAssets) /\ Len(request.inputs) = Len(staged)
          /\ staged \in Seq(ItemRow)
      BY <2>3 DEF UploadsInv, Requested, StagingTypes
    <3>3. k \in DOMAIN staged /\ staged[k] \in ItemRow /\ SoundItem(staged[k])
      BY <2>3, <3>2 DEF UploadsInv, Images
    <3>4. request.inputs[k] = (IF staged[k].upload # NoUpload THEN staged[k].upload ELSE staged[k].id)
      BY <2>3, <3>3 DEF UploadsInv, Requested
    <3>5. staged[k].upload # NoUpload
      <4>1. staged[k].upload = NoUpload => staged[k].id \in Nat
        BY <2>3, <3>1, <3>4, ReferenceAssumption
      <4>2. staged[k].status = "ready"
        BY <2>3, <3>3 DEF UploadsInv, Requested
      <4> QED
        BY <3>3, <4>1, <4>2 DEF SoundItem
    <3>6. staged[k].id = t.item
      BY <2>3, <3>1, <3>3, <3>4, <3>5 DEF SoundItem, SoundTask, Names
    <3> QED
      BY <3>1, <3>3, <3>6 DEF isStaged
  <2>4. request.kind = "generate" => Len(request.inputs) = Len(staged)
    BY DEF UploadsInv, Requested
  <2> QED
    BY <2>1, <2>2, <2>3, <2>4 DEF UploadsAccounted
<1> QED
  BY <1>1, UploadsStart, UploadsGoOn, PTL DEF ReferenceSpec
-----------------------------------------------------------------------------
Body == UNION {[sent -> Nat] : sent \in SUBSET Fields}
Settings == [value : [Fields -> Nat], status : ConnectionStatus, revision : Nat]
PanelState == [ latest : Settings, baseline : Settings, draft : [Fields -> Nat],
                pending : BOOLEAN, asking : BOOLEAN ]
SavingState == [ pc : {"none", "merge", "write", "mark", "answer", "failed", "loaded"},
                 test : BOOLEAN, input : Body, value : Body, revision : Nat ]

ConsoleTypes ==
    /\ shownSection \in SectionId
    /\ stored \in Settings /\ replaced \subseteq Settings
    /\ panel \in [Consoles -> PanelState]
    /\ saving \in [Consoles -> SavingState]

CapsOK(v) ==
    /\ v["maxImageBytes"] # 0 /\ v["maxTotalBytes"] # 0
    /\ v["maxImageBytes"] <= v["maxTotalBytes"]

Carrying(c) == saving[c].pc \in {"merge", "write", "mark", "answer"}

\* Every copy of the runtime settings holds caps that agree, whoever has it.
CapsRow == shownSection = "runtime" => \A row \in Servable : CapsOK(row.value)
CapsPage(c) ==
    shownSection = "runtime" =>
        /\ CapsOK(panel[c].latest.value) /\ CapsOK(panel[c].baseline.value)
        /\ Carrying(c) => CapsOK(saving[c].input)
        /\ saving[c].pc = "write" => CapsOK(saving[c].value)

\* A pending request carries what its panel holds, and nobody is asked about that draft.
CarriesDraft(c) ==
    /\ panel[c].asking => ~ panel[c].pending
    /\ Carrying(c) => panel[c].pending /\ saving[c].input = ToInput(c)
    /\ saving[c].pc \in {"failed", "loaded"} => panel[c].pending

\* A plain section's request holds every field, and what it wrote is the row of its revision.
Writes(c) ==
    ~ Tested =>
        /\ Carrying(c) => DOMAIN saving[c].input = Fields
        /\ saving[c].pc = "write" => saving[c].value = saving[c].input
        /\ saving[c].pc \in {"mark", "answer"} =>
             /\ saving[c].revision <= stored.revision
             /\ saving[c].revision = stored.revision => saving[c].input = stored.value

\* No copy is newer than the row, and one of the row's revision is the row.
Copies(c) ==
    /\ panel[c].latest.revision <= stored.revision
    /\ panel[c].baseline.revision <= stored.revision
    /\ panel[c].latest.revision = stored.revision => panel[c].latest = ResolvedDto(stored)
    /\ panel[c].baseline.revision = stored.revision =>
         panel[c].baseline \in {ResolvedDto(stored), Dto(stored.value, stored)}

PageInv(c) == CapsPage(c) /\ CarriesDraft(c) /\ Writes(c) /\ Copies(c)

ConsoleInv ==
    /\ ConsoleTypes /\ CapsRow
    /\ \A row \in replaced : row.revision < stored.revision
    /\ \A c \in Consoles : PageInv(c)
-----------------------------------------------------------------------------
LEMMA SectionFieldsOf ==
    ASSUME shownSection \in SectionId
    PROVE  /\ shownSection = "runtime" => Fields = {"maxImageBytes", "maxTotalBytes"}
           /\ ~ Tested => Fields \cap SecretFields = {}
           /\ Tested <=> shownSection \notin {"site", "runtime"}
           /\ Fields \subseteq AllFields
BY DEF SectionId, Fields, SectionFields, Tested, SecretFields, AllFields

LEMMA SettingsOf ==
    ASSUME ConsoleAssumption, shownSection \in SectionId, NEW row \in Settings
    PROVE  /\ Resolved(row) \in [Fields -> Nat]
           /\ ResolvedDto(row) \in Settings
           /\ ResolvedDto(row).revision = row.revision
           /\ Dto(row.value, row) \in Settings
           /\ Dto(row.value, row).revision = row.revision
           /\ DraftOf(row) \in [Fields -> Nat]
<1>1. \A f \in Fields : row.value[f] \in Nat /\ Environment[f] \in Nat
  BY SectionFieldsOf DEF Settings, ConsoleAssumption
<1>2. Resolved(row) \in [Fields -> Nat]
  BY <1>1 DEF Resolved
<1>3. ASSUME NEW v \in [Fields -> Nat]
      PROVE  Dto(v, row) \in Settings /\ Dto(v, row).revision = row.revision
  BY <1>3 DEF Dto, Settings
<1>4. row.value \in [Fields -> Nat]
  BY DEF Settings
<1>5. DraftOf(row) \in [Fields -> Nat]
  BY <1>1 DEF DraftOf
<1> QED  BY <1>2, <1>3, <1>4, <1>5 DEF ResolvedDto

LEMMA ResolvedCaps ==
    ASSUME shownSection = "runtime", NEW row \in Settings, CapsOK(row.value)
    PROVE  CapsOK(ResolvedDto(row).value)
<1>1. Fields = {"maxImageBytes", "maxTotalBytes"} /\ Fields \cap SecretFields = {}
  BY SectionFieldsOf DEF SectionId, Tested
<1>2. \A f \in Fields : ResolvedDto(row).value[f] = row.value[f]
  BY <1>1 DEF ResolvedDto, Dto, Resolved, CapsOK
<1> QED  BY <1>1, <1>2 DEF CapsOK

LEMMA PlainDto ==
    ASSUME shownSection \in SectionId, ~ Tested, NEW row \in Settings
    PROVE  Dto(row.value, row) = row
<1>1. Fields \cap SecretFields = {}
  BY SectionFieldsOf
<1>2. [f \in Fields |-> IF f \notin SecretFields THEN row.value[f]
                        ELSE IF row.value[f] = 0 THEN 0 ELSE 1] = row.value
  BY <1>1 DEF Settings
<1> QED  BY <1>2 DEF Dto, Settings

\* What the panel submits.
LEMMA InputOf ==
    ASSUME ConsoleTypes, NEW c \in Consoles, CapsPage(c)
    PROVE  /\ ToInput(c) \in Body
           /\ ~ Tested => DOMAIN ToInput(c) = Fields
           /\ shownSection = "runtime" /\ ~ TotalBelowImage(ToInput(c)) => CapsOK(ToInput(c))
<1>1. /\ panel[c].draft \in [Fields -> Nat] /\ panel[c].baseline.value \in [Fields -> Nat]
      /\ SentFields(c) \in SUBSET Fields
  BY DEF ConsoleTypes, PanelState, Settings, SentFields
<1>2. ToInput(c) \in [SentFields(c) -> Nat]
  BY <1>1 DEF ToInput
<1>3. ToInput(c) \in Body
  BY <1>1, <1>2 DEF Body
<1>4. ASSUME ~ Tested
      PROVE  SentFields(c) = Fields
  BY <1>4 DEF SentFields
<1>5. ASSUME shownSection = "runtime", ~ TotalBelowImage(ToInput(c))
      PROVE  CapsOK(ToInput(c))
  <2>1. Fields = {"maxImageBytes", "maxTotalBytes"} /\ SentFields(c) = Fields
    BY <1>5, SectionFieldsOf, <1>4 DEF SectionId, Tested
  <2>2. \A f \in Fields : ToInput(c)[f] # 0
    BY <1>1, <1>5, <2>1 DEF ToInput, Blank, CapsPage, CapsOK
  <2> QED  BY <1>2, <1>5, <2>1, <2>2 DEF CapsOK, TotalBelowImage
<1> QED  BY <1>2, <1>3, <1>4, <1>5

\* A request as it is written: the columns it names, over the row's.
LEMMA WrittenIs ==
    ASSUME ConsoleTypes, NEW given \in Body
    PROVE  /\ Written(given) \in [Fields -> Nat]
           /\ ~ Tested /\ DOMAIN given = Fields => Written(given) = given
<1>1. stored.value \in [Fields -> Nat]
  BY DEF ConsoleTypes, Settings
<1>2. PICK sent \in SUBSET Fields : given \in [sent -> Nat]
  BY DEF Body
<1>3. Written(given) \in [Fields -> Nat]
  BY <1>1, <1>2 DEF Written
<1>4. ASSUME ~ Tested, DOMAIN given = Fields
      PROVE  Written(given) = given
  <2>1. \A f \in Fields : f \notin SecretFields
    BY <1>4, SectionFieldsOf DEF ConsoleTypes
  <2>2. given \in [Fields -> Nat]
    BY <1>2, <1>4
  <2>3. \A f \in Fields : Written(given)[f] = given[f]
    BY <1>4, <2>1 DEF Written
  <2> QED  BY <1>3, <2>2, <2>3
<1> QED  BY <1>3, <1>4

LEMMA MergedIs ==
    ASSUME ConsoleAssumption, ConsoleTypes, NEW input \in Body, NEW row \in Settings
    PROVE  MergedWith(input, row) \in Body
<1>1. PICK sent \in SUBSET Fields : input \in [sent -> Nat]
  BY DEF Body
<1>2. Resolved(row) \in [Fields -> Nat]
  BY SettingsOf DEF ConsoleTypes
<1>3. MergedWith(input, row) \in [Fields -> Nat]
  BY <1>1, <1>2 DEF MergedWith
<1> QED  BY <1>3 DEF Body

\* The section shown never changes, and what is defined from it neither.
LEMMA SameShape ==
    ASSUME shownSection' = shownSection
    PROVE  /\ Fields' = Fields /\ (Tested <=> Tested') /\ Body' = Body /\ Settings' = Settings
           /\ PanelState' = PanelState /\ SavingState' = SavingState
           /\ \A value, row : Dto(value, row)' = Dto(value, row)
           /\ \A row : ResolvedDto(row)' = ResolvedDto(row)
BY DEF Fields, Tested, Body, Settings, PanelState, SavingState, Dto, ResolvedDto, Resolved

\* What a panel submits depends on its draft and on the settings it was loaded with.
LEMMA SameInput ==
    ASSUME shownSection' = shownSection, NEW c \in Consoles,
           panel'[c].draft = panel[c].draft, panel'[c].baseline = panel[c].baseline
    PROVE  ToInput(c)' = ToInput(c)
BY DEF ToInput, SentFields, Blank, Tested, Fields

\* A page nothing happens to.
LEMMA OtherPage ==
    ASSUME shownSection' = shownSection, stored' = stored, NEW c \in Consoles, PageInv(c),
           panel'[c] = panel[c], saving'[c] = saving[c]
    PROVE  PageInv(c)'
<1>1. ToInput(c)' = ToInput(c)
  BY SameInput
<1>2. CapsPage(c)' /\ CarriesDraft(c)'
  BY <1>1 DEF PageInv, CapsPage, CapsOK, CarriesDraft, Carrying
<1>3. Writes(c)' /\ Copies(c)'
  BY SameShape DEF PageInv, Writes, Copies, Carrying
<1> QED  BY <1>2, <1>3 DEF PageInv
-----------------------------------------------------------------------------
LEMMA ConsoleStart ==
    ASSUME ConsoleAssumption, ConsoleInit
    PROVE  ConsoleInv
<1>1. stored \in Settings
  BY DEF ConsoleInit, Settings, ConnectionStatus
<1>2. /\ ResolvedDto(stored) \in Settings /\ DraftOf(ResolvedDto(stored)) \in [Fields -> Nat]
      /\ ResolvedDto(stored).revision = stored.revision
  <2>1. ResolvedDto(stored) \in Settings /\ ResolvedDto(stored).revision = stored.revision
    BY <1>1, SettingsOf DEF ConsoleInit
  <2> QED  BY <2>1, SettingsOf DEF ConsoleInit
<1>3. Opened(ResolvedDto(stored)) \in PanelState
  BY <1>2 DEF Opened, PanelState
<1>4. NoSaving \in SavingState
  <2>1. NoBody \in [{} -> Nat]
    BY DEF NoBody
  <2>2. NoBody \in Body
    BY <2>1 DEF Body
  <2> QED  BY <2>2 DEF NoSaving, SavingState
<1>5. ConsoleTypes
  BY <1>1, <1>3, <1>4 DEF ConsoleInit, ConsoleTypes
<1>6. ASSUME shownSection = "runtime"
      PROVE  CapsOK(stored.value) /\ CapsOK(ResolvedDto(stored).value)
  <2>1. CapsOK(stored.value)
    BY <1>6, SectionFieldsOf DEF ConsoleInit, NeverNull, CapsOK, SectionId
  <2> QED  BY <1>1, <1>6, <2>1, ResolvedCaps
<1>7. ASSUME NEW c \in Consoles
      PROVE  PageInv(c)
  <2>1. panel[c] = Opened(ResolvedDto(stored)) /\ saving[c] = NoSaving
    BY DEF ConsoleInit
  <2>2. CapsPage(c) /\ CarriesDraft(c) /\ Writes(c)
    BY <1>6, <2>1 DEF CapsPage, CarriesDraft, Writes, Carrying, Opened, NoSaving
  <2>3. Copies(c)
    BY <1>1, <1>2, <2>1 DEF Copies, Opened, Settings
  <2> QED  BY <2>2, <2>3 DEF PageInv
<1>8. CapsRow /\ \A row \in replaced : row.revision < stored.revision
  BY <1>6 DEF CapsRow, Servable, ConsoleInit
<1> QED  BY <1>5, <1>7, <1>8 DEF ConsoleInv

\* What an action of the panel changes in it.
Edits(c) ==
    \/ \E f \in Fields : \E v \in InputValues(f) : TypeInto(c, f, v)
    \/ ResetDraft(c) \/ ReloadSection(c) \/ ConfirmReload(c) \/ Refetch(c)

LEMMA EditedPanel ==
    ASSUME ConsoleAssumption, ConsoleInv, NEW c \in Consoles, Edits(c)
    PROVE  /\ shownSection' = shownSection /\ stored' = stored /\ replaced' = replaced
           /\ saving' = saving
           /\ panel' = [panel EXCEPT ![c] = panel'[c]] /\ panel'[c] \in PanelState
           /\ panel'[c].pending = panel[c].pending
           /\ panel'[c].asking => ~ panel[c].pending
           /\ \/ panel'[c].latest = panel[c].latest
              \/ \E row \in Servable : panel'[c].latest = ResolvedDto(row)
           /\ panel'[c].baseline \in {panel[c].baseline, panel[c].latest}
           /\ panel[c].pending => /\ panel'[c].draft = panel[c].draft
                                  /\ panel'[c].baseline = panel[c].baseline
           /\ DraftKept(c)
<1>1. /\ panel \in [Consoles -> PanelState] /\ panel[c] \in PanelState
      /\ panel[c].asking => ~ panel[c].pending
  BY DEF ConsoleInv, ConsoleTypes, PageInv, CarriesDraft
<1>2. CASE \E f \in Fields : \E v \in InputValues(f) : TypeInto(c, f, v)
  <2>0. PICK f \in Fields : \E v \in InputValues(f) : TypeInto(c, f, v)
    BY <1>2
  <2>1. PICK v \in InputValues(f) : TypeInto(c, f, v)
    BY <2>0
  <2>2. v \in Nat
    BY SectionFieldsOf DEF InputValues, ConsoleAssumption, ConsoleInv, ConsoleTypes
  <2>3. [panel[c].draft EXCEPT ![f] = v] \in [Fields -> Nat]
    BY <1>1, <2>2 DEF PanelState
  <2>4. panel' = [panel EXCEPT ![c] = [panel[c] EXCEPT !.draft = [panel[c].draft EXCEPT ![f] = v]]]
    BY <2>1 DEF TypeInto
  <2>5. panel'[c] = [panel[c] EXCEPT !.draft = [panel[c].draft EXCEPT ![f] = v]]
    BY <1>1, <2>4
  <2> QED  BY <1>1, <2>1, <2>3, <2>4, <2>5 DEF TypeInto, Editable, PanelState, DraftKept
<1>3. CASE ResetDraft(c)
  <2>1. DraftOf(panel[c].baseline) \in [Fields -> Nat]
    BY <1>1, SettingsOf DEF PanelState, ConsoleInv, ConsoleTypes
  <2>2. panel'[c] = [panel[c] EXCEPT !.draft = DraftOf(panel[c].baseline)]
    BY <1>1, <1>3 DEF ResetDraft
  <2> QED  BY <1>1, <1>3, <2>1, <2>2 DEF ResetDraft, Editable, PanelState, DraftKept
<1>4. ASSUME LoadSettings(c, panel[c].latest), ~ panel[c].pending, panel[c].asking \/ ~ Dirty(c),
             UNCHANGED <<shownSection, stored, replaced, saving>>
      PROVE  /\ panel' = [panel EXCEPT ![c] = panel'[c]] /\ panel'[c] \in PanelState
             /\ panel'[c].pending = panel[c].pending /\ ~ panel'[c].asking
             /\ panel'[c].latest = panel[c].latest /\ panel'[c].baseline = panel[c].latest
             /\ DraftKept(c)
  <2>1. DraftOf(panel[c].latest) \in [Fields -> Nat] /\ panel[c].latest \in Settings
    BY <1>1, SettingsOf DEF PanelState, ConsoleInv, ConsoleTypes
  <2>2. panel'[c] = [panel[c] EXCEPT !.baseline = panel[c].latest,
                                     !.draft = DraftOf(panel[c].latest), !.asking = FALSE]
    BY <1>1, <1>4 DEF LoadSettings
  <2> QED  BY <1>1, <1>4, <2>1, <2>2 DEF LoadSettings, PanelState, DraftKept
<1>6. CASE ReloadSection(c)
  <2>1. CASE ~ Dirty(c) /\ LoadSettings(c, panel[c].latest)
    BY <1>4, <1>6, <2>1 DEF ReloadSection, Editable
  <2>2. CASE panel' = [panel EXCEPT ![c].asking = TRUE]
    <3>1. ~ panel[c].pending /\ UNCHANGED <<shownSection, stored, replaced, saving>>
      BY <1>6 DEF ReloadSection, Editable
    <3>2. panel'[c] = [panel[c] EXCEPT !.asking = TRUE]
      BY <1>1, <2>2
    <3> QED  BY <1>1, <2>2, <3>1, <3>2 DEF PanelState, DraftKept
  <2> QED  BY <1>6, <2>1, <2>2 DEF ReloadSection
<1>7. CASE ConfirmReload(c)
  <2>1. CASE LoadSettings(c, panel[c].latest)
    BY <1>1, <1>4, <1>7, <2>1 DEF ConfirmReload
  <2>2. CASE panel' = [panel EXCEPT ![c].asking = FALSE]
    <3>1. UNCHANGED <<shownSection, stored, replaced, saving>>
      BY <1>7 DEF ConfirmReload
    <3>2. panel'[c] = [panel[c] EXCEPT !.asking = FALSE]
      BY <1>1, <2>2
    <3> QED  BY <1>1, <2>2, <3>1, <3>2 DEF PanelState, DraftKept
  <2> QED  BY <1>7, <2>1, <2>2 DEF ConfirmReload
<1>8. CASE Refetch(c)
  <2>1. PICK row \in Servable : panel' = [panel EXCEPT ![c].latest = ResolvedDto(row)]
    BY <1>8 DEF Refetch
  <2>2. ResolvedDto(row) \in Settings
    BY <2>1, SettingsOf DEF ConsoleInv, ConsoleTypes, Servable
  <2>3. panel'[c] = [panel[c] EXCEPT !.latest = ResolvedDto(row)]
    BY <1>1, <2>1
  <2> QED  BY <1>1, <1>8, <2>1, <2>2, <2>3 DEF Refetch, PanelState, DraftKept
<1> QED  BY <1>2, <1>3, <1>6, <1>7, <1>8 DEF Edits

LEMMA EditsKeep ==
    ASSUME ConsoleAssumption, ConsoleInv, NEW c \in Consoles, Edits(c)
    PROVE  ConsoleInv' /\ \A d \in Consoles : DraftKept(d)
<1>1. /\ shownSection' = shownSection /\ stored' = stored /\ replaced' = replaced
      /\ saving' = saving /\ panel' = [panel EXCEPT ![c] = panel'[c]] /\ panel'[c] \in PanelState
      /\ panel \in [Consoles -> PanelState] /\ panel[c] \in PanelState
      /\ stored \in Settings /\ PageInv(c)
  BY EditedPanel DEF ConsoleInv, ConsoleTypes
<1>2. \A d \in Consoles \ {c} : panel'[d] = panel[d]
  BY <1>1
<1>3. ConsoleTypes'
  <2>1. panel' \in [Consoles -> PanelState]
    BY <1>1
  <2> QED  BY <1>1, <2>1, SameShape DEF ConsoleInv, ConsoleTypes
<1>4. \A row \in Servable : row \in Settings /\ row.revision <= stored.revision
                            /\ (shownSection = "runtime" => CapsOK(row.value))
  BY DEF ConsoleInv, ConsoleTypes, Servable, Settings, CapsRow
<1>5. CapsPage(c)'
  <2>1. shownSection = "runtime" => CapsOK(panel'[c].latest.value) /\ CapsOK(panel'[c].baseline.value)
    BY <1>1, <1>4, EditedPanel, ResolvedCaps DEF PageInv, CapsPage
  <2> QED  BY <1>1, <2>1 DEF PageInv, CapsPage, Carrying, CapsOK
<1>6. CarriesDraft(c)'
  <2>1. panel[c].pending => ToInput(c)' = ToInput(c)
    BY <1>1, EditedPanel, SameInput
  <2> QED  BY <1>1, <2>1, EditedPanel DEF PageInv, CarriesDraft, Carrying
<1>7. Writes(c)'
  BY <1>1, SameShape DEF PageInv, Writes, Carrying
<1>8. Copies(c)'
  <2>1. /\ panel'[c].latest.revision <= stored.revision
        /\ panel'[c].latest.revision = stored.revision => panel'[c].latest = ResolvedDto(stored)
    <3>1. CASE panel'[c].latest = panel[c].latest
      BY <1>1, <3>1 DEF PageInv, Copies
    <3>2. CASE \E row \in Servable : panel'[c].latest = ResolvedDto(row)
      <4>1. PICK row \in Servable : panel'[c].latest = ResolvedDto(row)
        BY <3>2
      <4>2. ResolvedDto(row).revision = row.revision /\ row.revision <= stored.revision
        BY <1>4, SettingsOf DEF ConsoleInv, ConsoleTypes
      <4>3. row.revision = stored.revision => row = stored
        BY <1>1 DEF ConsoleInv, ConsoleTypes, Servable, Settings
      <4> QED  BY <4>1, <4>2, <4>3
    <3> QED  BY <3>1, <3>2, EditedPanel
  <2>2. /\ panel'[c].baseline.revision <= stored.revision
        /\ panel'[c].baseline.revision = stored.revision =>
             panel'[c].baseline \in {ResolvedDto(stored), Dto(stored.value, stored)}
    BY <1>1, EditedPanel DEF PageInv, Copies
  <2> QED  BY <1>1, <2>1, <2>2, SameShape DEF Copies
<1>9. \A d \in Consoles : PageInv(d)'
  BY <1>1, <1>2, <1>5, <1>6, <1>7, <1>8, OtherPage DEF PageInv, ConsoleInv
<1>10. CapsRow' /\ \A row \in replaced' : row.revision < stored'.revision
  BY <1>1 DEF ConsoleInv, CapsRow, Servable, CapsOK
<1>11. \A d \in Consoles : DraftKept(d)
  BY <1>2, EditedPanel DEF DraftKept
<1> QED  BY <1>3, <1>9, <1>10, <1>11 DEF ConsoleInv

\* A request's step at one page leaves the row alone; MarkSection alone empties what may be served.
RowAdvances(c) ==
    \/ \E test \in BOOLEAN : SubmitSettings(c, test)
    \/ setupPlain(c) \/ setupConnected(c) \/ RequestRefused(c) \/ RequestFails(c)
    \/ MarkSection(c) \/ AnswerSave(c) \/ SaveFails(c) \/ SaveRefetched(c)

LEMMA AdvancedRequest ==
    ASSUME ConsoleAssumption, ConsoleInv, NEW c \in Consoles, RowAdvances(c)
    PROVE  /\ shownSection' = shownSection /\ stored' = stored /\ replaced' \in {replaced, {}}
           /\ panel' = [panel EXCEPT ![c] = panel'[c]] /\ panel'[c] \in PanelState
           /\ saving' = [saving EXCEPT ![c] = saving'[c]] /\ saving'[c] \in SavingState
           /\ PageInv(c)' /\ DraftKept(c)
<1>1. /\ panel \in [Consoles -> PanelState] /\ panel[c] \in PanelState
      /\ saving \in [Consoles -> SavingState] /\ saving[c] \in SavingState
      /\ stored \in Settings /\ shownSection \in SectionId /\ PageInv(c)
      /\ saving[c].input \in Body
  BY DEF ConsoleInv, ConsoleTypes, SavingState
<1>2. NoSaving \in SavingState
  <2>1. NoBody \in [{} -> Nat]
    BY DEF NoBody
  <2>2. NoBody \in Body
    BY <2>1 DEF Body
  <2> QED  BY <2>2 DEF NoSaving, SavingState
<1>3. \A row \in Servable : row \in Settings /\ row.revision <= stored.revision
                            /\ (shownSection = "runtime" => CapsOK(row.value))
  BY DEF ConsoleInv, ConsoleTypes, Servable, Settings, CapsRow
<1>4. ASSUME UNCHANGED <<shownSection, stored, panel>>
      PROVE  /\ panel' = [panel EXCEPT ![c] = panel'[c]] /\ panel'[c] = panel[c]
             /\ ToInput(c)' = ToInput(c) /\ Copies(c)' /\ DraftKept(c)
  <2>1. panel' = [panel EXCEPT ![c] = panel'[c]]
    BY <1>1, <1>4
  <2>2. Copies(c)'
    BY <1>1, <1>4, SameShape DEF PageInv, Copies
  <2> QED  BY <1>4, <2>1, <2>2, SameInput DEF DraftKept
<1>5. CASE \E test \in BOOLEAN : SubmitSettings(c, test)
  <2>1. PICK test \in BOOLEAN : SubmitSettings(c, test)
    BY <1>5
  <2>2. /\ panel' = [panel EXCEPT ![c].pending = TRUE] /\ panel'[c] = [panel[c] EXCEPT !.pending = TRUE]
        /\ saving' = [saving EXCEPT ![c] =
               [NoSaving EXCEPT !.pc = "merge", !.test = test, !.input = ToInput(c)]]
        /\ saving'[c] = [NoSaving EXCEPT !.pc = "merge", !.test = test, !.input = ToInput(c)]
        /\ ~ panel[c].asking /\ ~ TotalBelowImage(ToInput(c))
        /\ UNCHANGED <<shownSection, stored, replaced>>
    BY <1>1, <2>1 DEF SubmitSettings, Editable
  <2>3. /\ ToInput(c) \in Body
        /\ ~ Tested => DOMAIN ToInput(c) = Fields
        /\ shownSection = "runtime" => CapsOK(ToInput(c))
    BY <2>2, InputOf DEF ConsoleInv, PageInv
  <2>4. panel'[c] \in PanelState /\ saving'[c] \in SavingState
    <3>1. panel'[c] \in PanelState
      BY <1>1, <2>2 DEF PanelState
    <3>2. [NoSaving EXCEPT !.pc = "merge", !.test = test] \in SavingState
      BY <1>2, <2>1 DEF SavingState
    <3>3. [[NoSaving EXCEPT !.pc = "merge", !.test = test] EXCEPT !.input = ToInput(c)]
              \in SavingState
      BY <2>3, <3>2 DEF SavingState
    <3> QED  BY <2>2, <3>1, <3>3
  <2>5. ToInput(c)' = ToInput(c)
    BY <1>1, <2>2, SameInput DEF PanelState
  <2>6. saving'[c].pc = "merge" /\ saving'[c].input = ToInput(c) /\ panel'[c].pending
        /\ panel'[c].latest = panel[c].latest /\ panel'[c].baseline = panel[c].baseline
        /\ panel'[c].draft = panel[c].draft /\ ~ panel'[c].asking
    BY <1>1, <2>2 DEF NoSaving, PanelState
  <2>7. CapsPage(c)' /\ CarriesDraft(c)' /\ Writes(c)'
    <3>1. CapsPage(c)'
      BY <1>1, <2>2, <2>3, <2>6 DEF PageInv, CapsPage, CapsOK, Carrying
    <3>2. CarriesDraft(c)'
      BY <2>5, <2>6 DEF CarriesDraft, Carrying
    <3>3. Writes(c)'
      BY <2>2, <2>3, <2>6, SameShape DEF Writes, Carrying
    <3> QED  BY <3>1, <3>2, <3>3
  <2>8. Copies(c)'
    BY <1>1, <2>2, <2>6, SameShape DEF PageInv, Copies
  <2> QED  BY <1>1, <2>2, <2>4, <2>6, <2>7, <2>8 DEF PageInv, DraftKept
<1>6. CASE setupPlain(c)
  <2>1. /\ saving' = [saving EXCEPT ![c] = [saving[c] EXCEPT !.pc = "write", !.value = saving[c].input]]
        /\ saving'[c] = [saving[c] EXCEPT !.pc = "write", !.value = saving[c].input]
        /\ saving[c].pc = "merge" /\ UNCHANGED <<shownSection, stored, replaced, panel>>
    BY <1>1, <1>6 DEF setupPlain
  <2>2. saving'[c] \in SavingState
    BY <1>1, <2>1 DEF SavingState
  <2>3. saving'[c].pc = "write" /\ saving'[c].value = saving[c].input
        /\ saving'[c].input = saving[c].input
    BY <1>1, <2>1 DEF SavingState
  <2>4. CapsPage(c)' /\ CarriesDraft(c)' /\ Writes(c)'
    BY <1>1, <1>4, <2>1, <2>3, SameShape DEF PageInv, CapsPage, CapsOK, CarriesDraft, Writes, Carrying
  <2> QED  BY <1>1, <1>4, <2>1, <2>2, <2>4 DEF PageInv
<1>7. CASE setupConnected(c)
  <2>1. PICK row \in Servable :
          /\ saving' = [saving EXCEPT ![c].pc = "write", ![c].value = MergedWith(saving[c].input, row)]
          /\ Tested /\ saving[c].pc = "merge" /\ UNCHANGED <<shownSection, stored, replaced, panel>>
    BY <1>7 DEF setupConnected
  <2>2. MergedWith(saving[c].input, row) \in Body
    BY <1>1, <1>3, <2>1, MergedIs DEF ConsoleInv
  <2>3. saving'[c] = [saving[c] EXCEPT !.pc = "write", !.value = MergedWith(saving[c].input, row)]
    BY <1>1, <2>1
  <2>4. saving'[c] \in SavingState /\ saving'[c].pc = "write" /\ saving'[c].input = saving[c].input
    BY <1>1, <2>2, <2>3 DEF SavingState
  <2>5. shownSection # "runtime" /\ Tested'
    BY <2>1, SameShape DEF Tested
  <2>6. CapsPage(c)' /\ CarriesDraft(c)' /\ Writes(c)'
    BY <1>1, <1>4, <2>1, <2>4, <2>5 DEF PageInv, CapsPage, CarriesDraft, Writes, Carrying
  <2>7. saving' = [saving EXCEPT ![c] = saving'[c]]
    BY <1>1, <2>1, <2>3
  <2> QED  BY <1>1, <1>4, <2>1, <2>4, <2>6, <2>7 DEF PageInv
<1>8. ASSUME NEW pc \in {"merge", "write", "mark", "answer"}, Fails(c, pc)
      PROVE  /\ saving' = [saving EXCEPT ![c] = saving'[c]] /\ saving'[c] \in SavingState
             /\ PageInv(c)' /\ UNCHANGED <<shownSection, stored, replaced, panel>>
  <2>1. /\ saving' = [saving EXCEPT ![c] = [NoSaving EXCEPT !.pc = "failed"]]
        /\ saving'[c] = [NoSaving EXCEPT !.pc = "failed"]
        /\ saving[c].pc = pc /\ UNCHANGED <<shownSection, stored, replaced, panel>>
    BY <1>1, <1>8 DEF Fails
  <2>2. saving'[c] \in SavingState /\ saving'[c].pc = "failed" /\ panel[c].pending
    BY <1>1, <1>2, <1>8, <2>1 DEF SavingState, NoSaving, PageInv, CarriesDraft, Carrying
  <2>3. CapsPage(c)' /\ CarriesDraft(c)' /\ Writes(c)'
    BY <1>1, <1>4, <2>1, <2>2 DEF PageInv, CapsPage, CapsOK, CarriesDraft, Writes, Carrying
  <2> QED  BY <1>1, <1>4, <2>1, <2>2, <2>3 DEF PageInv
<1>9. CASE RequestRefused(c) \/ RequestFails(c)
  <2>1. PICK pc \in {"merge", "write", "mark", "answer"} : Fails(c, pc)
    BY <1>9 DEF RequestRefused, RequestFails
  <2> QED  BY <1>1, <1>4, <1>8, <2>1
<1>10. CASE MarkSection(c)
  <2>1. /\ saving' = [saving EXCEPT ![c] = [saving[c] EXCEPT !.pc = "answer"]]
        /\ saving'[c] = [saving[c] EXCEPT !.pc = "answer"]
        /\ saving[c].pc = "mark" /\ replaced' = {} /\ UNCHANGED <<shownSection, stored, panel>>
    BY <1>1, <1>10 DEF MarkSection, SaveAt
  <2>2. saving'[c] \in SavingState /\ saving'[c].pc = "answer"
        /\ saving'[c].input = saving[c].input /\ saving'[c].revision = saving[c].revision
    BY <1>1, <2>1 DEF SavingState
  <2>3. CapsPage(c)' /\ CarriesDraft(c)' /\ Writes(c)'
    BY <1>1, <1>4, <2>1, <2>2, SameShape DEF PageInv, CapsPage, CapsOK, CarriesDraft, Writes, Carrying
  <2> QED  BY <1>1, <1>4, <2>1, <2>2, <2>3 DEF PageInv
<1>11. ASSUME NEW dto \in Settings, SaveSucceeds(c, dto), dto.revision <= stored.revision,
              dto.revision = stored.revision =>
                  dto \in {ResolvedDto(stored), Dto(stored.value, stored)},
              shownSection = "runtime" => CapsOK(dto.value),
              saving[c].pc = "answer", UNCHANGED <<shownSection, stored, replaced>>
       PROVE  /\ panel' = [panel EXCEPT ![c] = panel'[c]] /\ panel'[c] \in PanelState
              /\ saving' = [saving EXCEPT ![c] = saving'[c]] /\ saving'[c] \in SavingState
              /\ PageInv(c)' /\ DraftKept(c)
  <2>1. DraftOf(dto) \in [Fields -> Nat]
    BY <1>1, SettingsOf DEF ConsoleInv
  <2>2. /\ panel' = [panel EXCEPT ![c].baseline = dto, ![c].draft = DraftOf(dto)]
        /\ panel'[c] = [panel[c] EXCEPT !.baseline = dto, !.draft = DraftOf(dto)]
        /\ saving' = [saving EXCEPT ![c] = [NoSaving EXCEPT !.pc = "loaded"]]
        /\ saving'[c] = [NoSaving EXCEPT !.pc = "loaded"]
    BY <1>1, <1>11 DEF SaveSucceeds
  <2>3. panel' = [panel EXCEPT ![c] = panel'[c]]
    BY <1>1, <2>2
  <2>4. panel'[c] \in PanelState /\ panel'[c].baseline = dto /\ panel'[c].latest = panel[c].latest
        /\ panel'[c].pending = panel[c].pending /\ panel'[c].asking = panel[c].asking
    BY <1>1, <1>11, <2>1, <2>2 DEF PanelState
  <2>5. saving'[c] \in SavingState /\ saving'[c].pc = "loaded"
    <3>1. [NoSaving EXCEPT !.pc = "loaded"] \in SavingState
      BY <1>2 DEF SavingState
    <3> QED  BY <2>2, <3>1 DEF NoSaving
  <2>6. panel[c].pending /\ saving[c].input = ToInput(c)
    BY <1>1, <1>11 DEF PageInv, CarriesDraft, Carrying
  <2>7. CapsPage(c)' /\ CarriesDraft(c)' /\ Writes(c)'
    BY <1>1, <1>11, <2>4, <2>5, <2>6 DEF PageInv, CapsPage, CapsOK, CarriesDraft, Writes, Carrying
  <2>8. Copies(c)'
    BY <1>1, <1>11, <2>4, SameShape DEF PageInv, Copies
  <2> QED  BY <2>2, <2>3, <2>4, <2>5, <2>6, <2>7, <2>8 DEF PageInv, DraftKept
<1>12. CASE AnswerSave(c)
  <2>1. saving[c].pc = "answer" /\ UNCHANGED <<shownSection, stored, replaced>>
    BY <1>12 DEF AnswerSave
  <2>2. CASE Tested
    <3>1. PICK row \in Servable : SaveSucceeds(c, ResolvedDto(row))
      BY <1>12, <2>2 DEF AnswerSave
    <3>2. row \in Settings /\ row.revision <= stored.revision
          /\ (shownSection = "runtime" => CapsOK(row.value))
      BY <1>3
    <3>3. ResolvedDto(row) \in Settings /\ ResolvedDto(row).revision = row.revision
          /\ (shownSection = "runtime" => CapsOK(ResolvedDto(row).value))
      BY <1>1, <3>2, SettingsOf, ResolvedCaps DEF ConsoleInv
    <3>4. row.revision = stored.revision => row = stored
      BY <1>1 DEF ConsoleInv, ConsoleTypes, Servable, Settings
    <3> QED  BY <1>1, <1>11, <2>1, <3>1, <3>2, <3>3, <3>4
  <2>3. CASE ~ Tested
    <3> DEFINE dto == [ value |-> saving[c].input, status |-> stored.status,
                        revision |-> saving[c].revision ]
    <3>1. SaveSucceeds(c, dto)
      BY <1>12, <2>3 DEF AnswerSave
    <3>2. /\ DOMAIN saving[c].input = Fields /\ saving[c].revision <= stored.revision
          /\ saving[c].revision = stored.revision => saving[c].input = stored.value
          /\ shownSection = "runtime" => CapsOK(saving[c].input)
      BY <1>1, <2>1, <2>3 DEF PageInv, Writes, CapsPage, Carrying
    <3>3. saving[c].input \in [Fields -> Nat]
      BY <1>1, <3>2 DEF Body
    <3>4. dto \in Settings
      BY <1>1, <3>3 DEF Settings, SavingState
    <3>5. dto.revision = stored.revision => dto = Dto(stored.value, stored)
      <4>1. Dto(stored.value, stored) = stored
        BY <1>1, <2>3, PlainDto
      <4> QED  BY <1>1, <3>2, <4>1 DEF Settings
    <3>6. dto.value = saving[c].input /\ dto.revision = saving[c].revision
      OBVIOUS
    <3> HIDE DEF dto
    <3> QED  BY <1>1, <1>11, <2>1, <3>1, <3>2, <3>4, <3>5, <3>6
  <2> QED  BY <2>1, <2>2, <2>3
<1>13. CASE SaveFails(c) \/ SaveRefetched(c)
  <2>1. /\ panel' = [panel EXCEPT ![c].pending = FALSE]
        /\ panel'[c] = [panel[c] EXCEPT !.pending = FALSE]
        /\ saving' = [saving EXCEPT ![c] = NoSaving] /\ saving'[c] = NoSaving
        /\ UNCHANGED <<shownSection, stored, replaced>>
    BY <1>1, <1>13 DEF SaveFails, SaveRefetched
  <2>2. /\ panel'[c] \in PanelState /\ ~ panel'[c].pending /\ saving'[c].pc = "none"
        /\ panel'[c].latest = panel[c].latest /\ panel'[c].baseline = panel[c].baseline
        /\ panel'[c].draft = panel[c].draft
    BY <1>1, <2>1 DEF PanelState, NoSaving
  <2>3. CapsPage(c)' /\ CarriesDraft(c)' /\ Writes(c)'
    BY <1>1, <2>1, <2>2 DEF PageInv, CapsPage, CapsOK, CarriesDraft, Writes, Carrying
  <2>4. Copies(c)'
    BY <1>1, <2>1, <2>2, SameShape DEF PageInv, Copies
  <2> QED  BY <1>1, <1>2, <2>1, <2>2, <2>3, <2>4 DEF PageInv, DraftKept
<1> QED  BY <1>5, <1>6, <1>7, <1>9, <1>10, <1>12, <1>13 DEF RowAdvances

LEMMA AdvancesKeep ==
    ASSUME ConsoleAssumption, ConsoleInv, NEW c \in Consoles, RowAdvances(c)
    PROVE  ConsoleInv' /\ \A d \in Consoles : DraftKept(d)
<1>1. /\ shownSection' = shownSection /\ stored' = stored /\ replaced' \in {replaced, {}}
      /\ panel' = [panel EXCEPT ![c] = panel'[c]] /\ panel'[c] \in PanelState
      /\ saving' = [saving EXCEPT ![c] = saving'[c]] /\ saving'[c] \in SavingState
      /\ panel \in [Consoles -> PanelState] /\ saving \in [Consoles -> SavingState]
      /\ PageInv(c)' /\ DraftKept(c)
  BY AdvancedRequest DEF ConsoleInv, ConsoleTypes
<1>2. \A d \in Consoles \ {c} : panel'[d] = panel[d] /\ saving'[d] = saving[d]
  BY <1>1
<1>3. ConsoleTypes'
  <2>1. panel' \in [Consoles -> PanelState] /\ saving' \in [Consoles -> SavingState]
    BY <1>1
  <2> QED  BY <1>1, <2>1, SameShape DEF ConsoleInv, ConsoleTypes
<1>4. \A d \in Consoles : PageInv(d)'
  BY <1>1, <1>2, OtherPage DEF ConsoleInv
<1>5. CapsRow' /\ \A row \in replaced' : row.revision < stored'.revision
  BY <1>1 DEF ConsoleInv, CapsRow, Servable, CapsOK
<1>6. \A d \in Consoles : DraftKept(d)
  BY <1>1, <1>2 DEF DraftKept
<1> QED  BY <1>3, <1>4, <1>5, <1>6 DEF ConsoleInv

\* The row itself: what is written agrees, and every copy of it is older now.
LEMMA UpdateKeeps ==
    ASSUME ConsoleAssumption, ConsoleInv, NEW c \in Consoles, UpdateRow(c)
    PROVE  ConsoleInv' /\ \A d \in Consoles : DraftKept(d)
<1>1. /\ panel \in [Consoles -> PanelState] /\ saving \in [Consoles -> SavingState]
      /\ saving[c] \in SavingState /\ stored \in Settings /\ replaced \subseteq Settings
      /\ stored.revision \in Nat /\ shownSection \in SectionId /\ PageInv(c)
      /\ saving[c].input \in Body /\ saving[c].value \in Body
  BY DEF ConsoleInv, ConsoleTypes, Settings, SavingState
<1>2. /\ saving[c].pc = "write" /\ UNCHANGED <<shownSection, panel>>
      /\ stored' = [ value |-> Written(saving[c].value), status |-> StatusOf(c),
                     revision |-> stored.revision + 1 ]
      /\ replaced' = replaced \cup {stored}
  BY DEF UpdateRow, NextRevision
<1>3. Written(saving[c].value) \in [Fields -> Nat] /\ StatusOf(c) \in ConnectionStatus
  BY <1>1, WrittenIs DEF StatusOf, ConnectionStatus, Settings, ConsoleInv
<1>4. stored' \in Settings /\ stored'.revision = stored.revision + 1
      /\ stored'.value = Written(saving[c].value)
  BY <1>1, <1>2, <1>3 DEF Settings
<1>5. /\ saving'[c] \in SavingState /\ saving' = [saving EXCEPT ![c] = saving'[c]]
      /\ saving'[c].pc = "mark" /\ saving'[c].input = saving[c].input
      /\ ~ Tested => saving'[c].revision = stored.revision + 1
  <2>1. NoSaving \in SavingState
    <3>1. NoBody \in [{} -> Nat]
      BY DEF NoBody
    <3>2. NoBody \in Body
      BY <3>1 DEF Body
    <3> QED  BY <3>2 DEF NoSaving, SavingState
  <2> DEFINE rev == IF Tested THEN 1 ELSE stored.revision + 1
  <2>2. rev \in Nat /\ (~ Tested => rev = stored.revision + 1)
    BY <1>1
  <2> HIDE DEF rev
  <2>3. saving' = [saving EXCEPT ![c] = [NoSaving EXCEPT !.pc = "mark", !.input = saving[c].input,
                                                        !.revision = rev]]
    BY DEF UpdateRow, rev
  <2>4. saving'[c] = [NoSaving EXCEPT !.pc = "mark", !.input = saving[c].input, !.revision = rev]
    BY <1>1, <2>3
  <2>5. saving'[c] \in SavingState /\ saving'[c].pc = "mark"
        /\ saving'[c].input = saving[c].input /\ saving'[c].revision = rev
    BY <1>1, <2>1, <2>2, <2>4 DEF SavingState
  <2> QED  BY <2>2, <2>3, <2>4, <2>5
<1>6. \A d \in Consoles : /\ panel[d] \in PanelState /\ saving[d] \in SavingState /\ PageInv(d)
                          /\ panel'[d] = panel[d] /\ ToInput(d)' = ToInput(d)
                          /\ d # c => saving'[d] = saving[d]
  BY <1>1, <1>2, <1>5, SameInput DEF ConsoleInv
<1>7. ConsoleTypes'
  <2>1. saving' \in [Consoles -> SavingState]
    BY <1>1, <1>5
  <2>2. replaced' \subseteq Settings
    BY <1>1, <1>2
  <2> QED  BY <1>1, <1>2, <1>4, <2>1, <2>2, SameShape DEF ConsoleTypes
<1>8. shownSection = "runtime" => CapsOK(stored'.value)
  <2> SUFFICES ASSUME shownSection = "runtime" PROVE CapsOK(stored'.value)
    OBVIOUS
  <2>1. ~ Tested
    BY DEF Tested
  <2>2. Written(saving[c].value) = saving[c].value
    BY <1>1, <1>2, <2>1, WrittenIs DEF PageInv, Writes, Carrying, ConsoleInv
  <2> QED  BY <1>1, <1>2, <1>4, <2>2 DEF PageInv, CapsPage
<1>9. CapsRow'
  BY <1>1, <1>2, <1>8 DEF ConsoleInv, CapsRow, Servable, CapsOK
<1>10. \A row \in replaced' : row.revision < stored'.revision
  BY <1>1, <1>2, <1>4 DEF ConsoleInv, Settings
<1>11. ASSUME NEW d \in Consoles
       PROVE  PageInv(d)'
  <2>1. panel'[d] = panel[d] /\ ToInput(d)' = ToInput(d) /\ PageInv(d) /\ saving[d] \in SavingState
        /\ panel[d] \in PanelState
    BY <1>6
  <2>2. saving'[d].input = saving[d].input /\ (Carrying(d)' => Carrying(d))
        /\ (saving'[d].pc \in {"write", "failed", "loaded"} => saving'[d] = saving[d])
    BY <1>2, <1>5, <1>6 DEF Carrying
  <2>3. CapsPage(d)'
    BY <1>2, <2>1, <2>2 DEF PageInv, CapsPage, CapsOK
  <2>4. CarriesDraft(d)'
    BY <1>2, <2>1, <2>2 DEF PageInv, CarriesDraft
  <2>5. Writes(d)'
    <3> SUFFICES ASSUME ~ Tested PROVE Writes(d)'
      BY <1>2, SameShape DEF Writes
    <3>1. (Carrying(d)' => DOMAIN saving'[d].input = Fields)
          /\ (saving'[d].pc = "write" => saving'[d].value = saving'[d].input)
      BY <2>1, <2>2 DEF PageInv, Writes
    <3>2. CASE d = c
      <4>1. stored'.value = saving[c].input
        BY <1>1, <1>2, <1>4, WrittenIs DEF PageInv, Writes, Carrying, ConsoleInv
      <4> QED  BY <1>1, <1>2, <1>4, <1>5, <3>1, <3>2, <4>1, SameShape DEF Writes
    <3>3. CASE d # c
      <4>1. saving'[d] = saving[d] /\ saving[d].revision \in Nat
        BY <1>6, <3>3 DEF SavingState
      <4>2. saving[d].pc \in {"mark", "answer"} => saving[d].revision < stored'.revision
        BY <1>1, <1>4, <2>1, <4>1 DEF PageInv, Writes
      <4> QED  BY <1>1, <1>2, <1>4, <3>1, <4>1, <4>2, SameShape DEF Writes
    <3> QED  BY <3>2, <3>3
  <2>6. Copies(d)'
    <3>1. panel[d].latest.revision \in Nat /\ panel[d].baseline.revision \in Nat
      BY <2>1 DEF PanelState, Settings
    <3>2. panel[d].latest.revision < stored'.revision /\ panel[d].baseline.revision < stored'.revision
      BY <1>1, <1>4, <2>1, <3>1 DEF PageInv, Copies
    <3> QED  BY <1>1, <1>2, <1>4, <2>1, <3>1, <3>2 DEF Copies
  <2> QED  BY <2>3, <2>4, <2>5, <2>6 DEF PageInv
<1>12. \A d \in Consoles : DraftKept(d)
  BY <1>6 DEF DraftKept
<1> QED  BY <1>7, <1>9, <1>10, <1>11, <1>12 DEF ConsoleInv

LEMMA ConsoleStep ==
    ASSUME ConsoleAssumption, ConsoleInv, [ConsoleNext]_consoleVars
    PROVE  ConsoleInv' /\ \A d \in Consoles : DraftKept(d)
<1>1. ASSUME shownSection' = shownSection, stored' = stored, panel' = panel, saving' = saving,
             replaced' \in {replaced, {}}
      PROVE  ConsoleInv' /\ \A d \in Consoles : DraftKept(d)
  <2>1. ConsoleTypes' /\ CapsRow' /\ \A row \in replaced' : row.revision < stored'.revision
    BY <1>1, SameShape DEF ConsoleInv, ConsoleTypes, CapsRow, Servable, CapsOK
  <2>2. \A d \in Consoles : PageInv(d)'
    BY <1>1, OtherPage DEF ConsoleInv
  <2> QED  BY <1>1, <2>1, <2>2 DEF ConsoleInv, DraftKept
<1>2. CASE EntriesExpire
  BY <1>1, <1>2 DEF EntriesExpire
<1>3. CASE UNCHANGED consoleVars
  BY <1>1, <1>3 DEF consoleVars
<1>4. ASSUME NEW c \in Consoles, Edits(c) \/ RowAdvances(c) \/ UpdateRow(c)
      PROVE  ConsoleInv' /\ \A d \in Consoles : DraftKept(d)
  BY <1>4, EditsKeep, AdvancesKeep, UpdateKeeps
<1>5. ConsoleNext => EntriesExpire \/ \E c \in Consoles : Edits(c) \/ RowAdvances(c) \/ UpdateRow(c)
  BY DEF ConsoleNext, Edits, RowAdvances
<1> QED  BY <1>2, <1>3, <1>4, <1>5
-----------------------------------------------------------------------------
LEMMA ConsoleInductive == ConsoleSpec => []ConsoleInv
<1>1. ConsoleInit => ConsoleInv
  BY ConsoleStart, ConsoleAssumption
<1>2. ConsoleInv /\ [ConsoleNext]_consoleVars => ConsoleInv'
  BY ConsoleStep, ConsoleAssumption
<1> QED  BY <1>1, <1>2, PTL DEF ConsoleSpec

\* Whatever two pages submit, and in whatever order, the total cap in the row of the runtime
\* settings is not below the cap of one image (setupRuntime, buildRuntimeInput).
THEOREM CapsAlwaysAgree == ConsoleSpec => []CapsAgree
<1>1. ConsoleInv => CapsAgree
  <2> SUFFICES ASSUME ConsoleInv, shownSection = "runtime" PROVE ~ TotalBelowImage(stored.value)
    BY DEF CapsAgree
  <2>1. CapsOK(stored.value) /\ stored.value \in [Fields -> Nat]
    BY DEF ConsoleInv, CapsRow, Servable, ConsoleTypes, Settings
  <2>2. Fields = {"maxImageBytes", "maxTotalBytes"}
    BY SectionFieldsOf DEF SectionId
  <2> QED  BY <2>1, <2>2 DEF CapsOK, TotalBelowImage
<1> QED  BY <1>1, ConsoleInductive, PTL

\* A revision names one state of the settings, in the row, in a cache, in a query and in a panel.
THEOREM RevisionsAlwaysTell == ConsoleSpec => []RevisionsTellChanges
<1>1. ConsoleInv => RevisionsTellChanges
  BY DEF ConsoleInv, PageInv, Copies, RevisionsTellChanges
<1> QED  BY <1>1, ConsoleInductive, PTL

\* Both at once.
THEOREM SettingsAlwaysAgree == ConsoleSpec => []SettingsAgree
<1>1. CapsAgree /\ RevisionsTellChanges => SettingsAgree
  BY DEF SettingsAgree
<1> QED  BY <1>1, CapsAlwaysAgree, RevisionsAlwaysTell, PTL

\* A draft is replaced by its operator or by the answer to the request that carried all of it.
THEOREM DraftsAreKept == ConsoleSpec => DraftsKept
<1>1. ConsoleInv /\ [ConsoleNext]_consoleVars => [\A c \in Consoles : DraftKept(c)]_consoleVars
  BY ConsoleStep, ConsoleAssumption
<1> QED  BY <1>1, ConsoleInductive, PTL DEF ConsoleSpec, DraftsKept
=============================================================================
