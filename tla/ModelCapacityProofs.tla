-------------------------- MODULE ModelCapacityProofs --------------------------
(***************************************************************************)
(* For every set of workers, jobs and limits: the types of ModelCapacity,  *)
(* and that it implements CapacitySemaphore.                               *)
(***************************************************************************)
EXTENDS ModelCapacity, FiniteSetTheorems, TLAPS

\* A row that, if its state is terminal, holds no capacity.
SoundRow == {row \in RunRow : row.state \in TerminalStates => ~row.reserved}

\* A worker in the middle of an acquisition has a token.
BoundTx == {x \in Tx : x.pc # "idle" => x.token \in Tokens}

\* What a transaction knows while it holds the lock is still true, except that
\* runs may have ended since it counted them.
Informed(w) ==
    /\ tx[w].pc \in {"locked", "counted"}
         => holder = w /\ tx[w].limit = limit
    /\ tx[w].pc = "counted" => Cardinality(Held) <= tx[w].count

Types ==
    /\ limit \in Limits
    /\ holder \in Workers \cup {NoWorker}
    /\ runs \in [Tokens -> SoundRow]
    /\ tx \in [Workers -> BoundTx]
    /\ queue \in Seq(Tokens)
    /\ failed \in SUBSET Tokens

\* The inductive invariant.
Inv == Types /\ \A w \in Workers : Informed(w)

-----------------------------------------------------------------------------
(* Writes of provider_runs keep a row sound (all of them: GenerationJobProofs). *)

\* A row that is inserted, or found by its client token, is sound.
LEMMA CreatedSound ==
    ASSUME NEW row \in SoundRow
    PROVE  createProviderRun(row) \in SoundRow
BY NoWorkerAssumption DEF createProviderRun, Exists, NewRun, SoundRow, RunRow,
       NonTerminalStates, TerminalStates

\* The next revision of a row is a number: what every write of a row needs.
LEMMA NextRevision ==
    ASSUME NEW row \in SoundRow
    PROVE  row \in RunRow /\ row.rev + 1 \in Nat
BY DEF SoundRow, RunRow

\* A compare-and-swap to a live state.
LEMMA MovedSound ==
    ASSUME NEW row \in SoundRow, NEW rev, NEW state \in NonTerminalStates,
           NEW due \in BOOLEAN
    PROVE  Moved(row, rev, state, due) \in SoundRow
<1>1. Moved(row, rev, state, due) \in RunRow
  BY NextRevision DEF Moved, RunRow
<1>2. row.rev = rev => Moved(row, rev, state, due).state = state
  BY NextRevision DEF Moved, RunRow
<1>3. row.rev # rev => Moved(row, rev, state, due) = row
  BY DEF Moved
<1> QED
  BY <1>1, <1>2, <1>3 DEF SoundRow, NonTerminalStates, TerminalStates

\* A compare-and-swap to a terminal state releases in the same statement.
LEMMA EndedSound ==
    ASSUME NEW row \in SoundRow, NEW rev, NEW state \in TerminalStates
    PROVE  Ended(row, rev, state) \in SoundRow
<1>1. Ended(row, rev, state) \in RunRow
  BY NextRevision DEF Ended, RunRow
<1>2. row.rev = rev => ~Ended(row, rev, state).reserved
  BY NextRevision DEF Ended, RunRow
<1>3. row.rev # rev => Ended(row, rev, state) = row
  BY DEF Ended
<1> QED
  BY <1>1, <1>2, <1>3 DEF SoundRow

\* The API's unguarded write moves live rows to a live state only.
LEMMA MarkedCancelingSound ==
    ASSUME NEW row \in SoundRow
    PROVE  MarkedCanceling(row) \in SoundRow
<1>1. MarkedCanceling(row) \in RunRow
  BY NextRevision DEF MarkedCanceling, RunRow, NonTerminalStates
<1>2. MarkedCanceling(row) # row => MarkedCanceling(row).state = "canceling"
  BY NextRevision DEF MarkedCanceling, RunRow
<1> QED
  BY <1>1, <1>2 DEF SoundRow, TerminalStates


-----------------------------------------------------------------------------
(* The runs that count *)

\* Finitely many tokens, so finitely many runs count.
LEMMA HeldFinite ==
    /\ IsFiniteSet(Held)
    /\ Cardinality(Held) \in Nat
<1>1. Held \subseteq Tokens
  BY DEF Held
<1>2. IsFiniteSet(Held)
  BY <1>1, CapacityAssumption, FS_Subset
<1> QED
  BY <1>2, FS_CardinalityType

\* The same in the next state.
LEMMA HeldFiniteNext ==
    /\ IsFiniteSet(Held')
    /\ Cardinality(Held') \in Nat
<1>1. Held' \subseteq Tokens
  BY DEF Held
<1>2. IsFiniteSet(Held')
  BY <1>1, CapacityAssumption, FS_Subset
<1> QED
  BY <1>2, FS_CardinalityType

\* A write of one run adds or removes at most that run.
LEMMA HeldAfter ==
    ASSUME runs \in [Tokens -> SoundRow],
           NEW t \in Tokens,
           NEW row,
           runs' = [runs EXCEPT ![t] = row]
    PROVE  Held' = IF Counts(row) THEN Held \cup {t} ELSE Held \ {t}
BY DEF Held, Counts, isNonTerminalRunState

\* A write after which no run counts that did not count before.
LEMMA NothingGranted ==
    ASSUME runs \in [Tokens -> SoundRow],
           NEW t \in Tokens,
           NEW row,
           runs' = [runs EXCEPT ![t] = row],
           Counts(row) => Counts(runs[t])
    PROVE  /\ Held' = Held \/ (t \in Held /\ Held' = Held \ {t})
           /\ Cardinality(Held') <= Cardinality(Held)
<1>1. Held' = IF Counts(row) THEN Held \cup {t} ELSE Held \ {t}
  BY HeldAfter
<1>2. Counts(row) => t \in Held
  BY DEF Held
<1>3. Held' = Held \/ (t \in Held /\ Held' = Held \ {t})
  BY <1>1, <1>2
<1>4. t \in Held => Cardinality(Held \ {t}) = Cardinality(Held) - 1
  BY HeldFinite, FS_RemoveElement
<1>5. CASE Held' = Held
  <2>1. Cardinality(Held') = Cardinality(Held)
    BY <1>5
  <2> QED
    BY <1>3, <2>1, HeldFinite
<1>6. CASE t \in Held /\ Held' = Held \ {t}
  <2>1. Cardinality(Held') = Cardinality(Held) - 1
    BY <1>4, <1>6
  <2> QED
    BY <1>3, <2>1, HeldFinite
<1> QED
  BY <1>3, <1>5, <1>6

\* A row that exists and is written by a worker or the API counts afterwards
\* only if it counted before: a terminal run holds nothing that a late write
\* could bring back.
LEMMA LiveWriteGrantsNothing ==
    ASSUME NEW row \in SoundRow, Exists(row)
    PROVE  /\ Counts(Moved(row, row.rev, "importing", TRUE)) => Counts(row)
           /\ Counts(MarkedCanceling(row)) => Counts(row)
<1>1. row \in RunRow /\ row.state # "none"
  BY DEF SoundRow, Exists
<1>2. row.reserved => row.state \in NonTerminalStates
  BY <1>1 DEF SoundRow, RunRow
<1>3. Moved(row, row.rev, "importing", TRUE).reserved = row.reserved
  BY <1>1 DEF Moved, RunRow
<1>4. MarkedCanceling(row).reserved = row.reserved
  BY <1>1 DEF MarkedCanceling, RunRow
<1> QED
  BY <1>2, <1>3, <1>4 DEF Counts, isNonTerminalRunState

\* A run that ends stops counting.
LEMMA EndGrantsNothing ==
    ASSUME NEW row \in SoundRow, NEW state \in TerminalStates
    PROVE  ~Counts(Ended(row, row.rev, state))
BY DEF Ended, Counts, SoundRow, RunRow

-----------------------------------------------------------------------------
(* The invariant *)

\* The initial state satisfies the invariant.
LEMMA InitInv == Init => Inv
<1> SUFFICES ASSUME Init PROVE Inv
  OBVIOUS
<1>1. NoRun \in SoundRow
  BY DEF NoRun, SoundRow, RunRow, TerminalStates
<1>2. Idle \in BoundTx
  BY DEF Idle, BoundTx, Tx
<1>3. Types
  BY <1>1, <1>2 DEF Init, Types
<1>4. \A w \in Workers : tx[w].pc = "idle"
  BY DEF Init, Idle
<1> QED
  BY <1>3, <1>4 DEF Inv, Informed

\* The steps of a transaction: what it learned stays true while it holds the
\* lock, and no other transaction holds it.
LEMMA TransactionSteps ==
    ASSUME Inv, NEW w \in Workers, WorkerStep(w) \/ AcquireThrows(w)
    PROVE  Inv'
<1> USE DEF Inv, Types
<1>1. /\ tx[w] \in Tx
      /\ tx[w].pc # "idle" => tx[w].token \in Tokens
  BY DEF BoundTx
<1>2. Idle \in BoundTx
  BY DEF Idle, BoundTx, Tx
<1>3. ASSUME ClaimJob(w) PROVE Inv'
  <2> USE <1>3 DEF ClaimJob
  <2>1. Head(queue) \in Tokens /\ Tail(queue) \in Seq(Tokens)
    OBVIOUS
  <2>2. [tx[w] EXCEPT !.pc = "claimed", !.token = Head(queue)] \in BoundTx
    BY <1>1, <2>1 DEF BoundTx, Tx
  <2>3. tx' \in [Workers -> BoundTx]
    BY <2>2
  <2>4. \A v \in Workers : v # w => tx'[v] = tx[v]
    OBVIOUS
  <2>5. tx'[w].pc = "claimed"
    BY <1>1 DEF Tx
  <2>6. Held' = Held
    BY DEF Held
  <2> QED
    BY <2>1, <2>3, <2>4, <2>5, <2>6 DEF Informed
<1>4. ASSUME LockModel(w) PROVE Inv'
  <2> USE <1>4 DEF LockModel
  <2>1. [tx[w] EXCEPT !.pc = "locked", !.limit = limit] \in BoundTx
    BY <1>1 DEF BoundTx, Tx
  <2>2. tx' \in [Workers -> BoundTx]
    BY <2>1
  <2>3. \A v \in Workers : v # w => tx'[v] = tx[v]
    OBVIOUS
  <2>4. tx'[w].pc = "locked" /\ tx'[w].limit = limit
    BY <1>1 DEF Tx
  <2>5. \A v \in Workers : tx[v].pc \notin {"locked", "counted"}
    BY NoWorkerAssumption DEF Informed
  <2> QED
    BY <2>2, <2>3, <2>4, <2>5 DEF Informed
<1>5. ASSUME CountRuns(w) PROVE Inv'
  <2> USE <1>5 DEF CountRuns
  <2>1. [tx[w] EXCEPT !.pc = "counted", !.count = Cardinality(Held)] \in BoundTx
    BY <1>1, HeldFinite DEF BoundTx, Tx
  <2>2. tx' \in [Workers -> BoundTx]
    BY <2>1
  <2>3. \A v \in Workers : v # w => tx'[v] = tx[v]
    OBVIOUS
  <2>4. /\ tx'[w].pc = "counted"
        /\ tx'[w].limit = tx[w].limit
        /\ tx'[w].count = Cardinality(Held)
    BY <1>1 DEF Tx
  <2>5. Held' = Held
    BY DEF Held
  <2> QED
    BY <2>2, <2>3, <2>4, <2>5, HeldFinite DEF Informed
<1>6. ASSUME NEW x \in BoundTx, x.pc \in {"idle", "denied"},
             tx' = [tx EXCEPT ![w] = x],
             tx[w].pc \in {"locked", "counted"}, holder' = NoWorker,
             limit' = limit
      PROVE  \A v \in Workers : Informed(v)'
  <2>1. \A v \in Workers : v # w => tx'[v] = tx[v]
    BY <1>6
  <2>2. \A v \in Workers : v # w => tx[v].pc \notin {"locked", "counted"}
    BY <1>6 DEF Informed
  <2>3. tx'[w] = x
    BY <1>6
  <2> QED
    BY <1>6, <2>1, <2>2, <2>3 DEF Informed
<1>7. ASSUME DenyCapacity(w) PROVE Inv'
  <2> DEFINE x == [Idle EXCEPT !.pc = "denied", !.token = tx[w].token]
  <2>1. x \in BoundTx /\ x.pc = "denied"
    BY <1>1, <1>7 DEF DenyCapacity, Idle, BoundTx, Tx
  <2>2. \A v \in Workers : Informed(v)'
    BY <1>6, <1>7, <2>1 DEF DenyCapacity
  <2> QED
    BY <1>7, <2>1, <2>2 DEF DenyCapacity
<1>8. ASSUME Requeue(w) PROVE Inv'
  <2> USE <1>8 DEF Requeue
  <2>1. Append(queue, tx[w].token) \in Seq(Tokens)
    BY <1>1
  <2>2. tx' \in [Workers -> BoundTx]
    BY <1>2
  <2>3. \A v \in Workers : v # w => tx'[v] = tx[v]
    OBVIOUS
  <2>4. tx'[w].pc = "idle"
    BY DEF Idle
  <2>5. Held' = Held
    BY DEF Held
  <2> QED
    BY <2>1, <2>2, <2>3, <2>4, <2>5 DEF Informed
<1>9. ASSUME Acquire(w) PROVE Inv'
  <2>1. createProviderRun(runs[tx[w].token]) \in SoundRow
    BY <1>1, <1>9, CreatedSound DEF Acquire
  <2>2. runs' \in [Tokens -> SoundRow]
    BY <1>1, <1>9, <2>1 DEF Acquire
  <2>3. Idle.pc = "idle"
    BY DEF Idle
  <2>4. \A v \in Workers : Informed(v)'
    BY <1>2, <1>6, <1>9, <2>3 DEF Acquire
  <2> QED
    BY <1>2, <1>9, <2>2, <2>4 DEF Acquire
<1>10. ASSUME AcquireThrows(w) PROVE Inv'
  <2>1. Idle.pc = "idle"
    BY DEF Idle
  <2>2. \A v \in Workers : Informed(v)'
    BY <1>2, <1>6, <1>10, <2>1 DEF AcquireThrows
  <2>3. failed' \in SUBSET Tokens
    BY <1>1, <1>10 DEF AcquireThrows
  <2> QED
    BY <1>2, <1>10, <2>2, <2>3 DEF AcquireThrows
<1> QED
  BY <1>3, <1>4, <1>5, <1>7, <1>8, <1>9, <1>10 DEF WorkerStep

\* The rest of the system writes runs, the queue and the limit; the limit only
\* while nobody holds the lock.
LEMMA OtherSteps ==
    ASSUME Inv,
           \/ \E t \in Tokens : EnqueueJob(t) \/ RunMoves(t) \/ RunEnds(t)
           \/ \E n \in Limits : upsertModel(n)
    PROVE  Inv'
<1> USE DEF Inv, Types
<1>1. ASSUME NEW t \in Tokens, EnqueueJob(t) PROVE Inv'
  <2>1. Held' = Held
    BY <1>1 DEF EnqueueJob, Held
  <2> QED
    BY <1>1, <2>1 DEF EnqueueJob, Informed
<1>2. ASSUME NEW t \in Tokens, NEW row \in SoundRow,
             runs' = [runs EXCEPT ![t] = row],
             Counts(row) => Counts(runs[t]),
             UNCHANGED <<limit, holder, tx, queue, failed>>
      PROVE  Inv'
  <2>1. Cardinality(Held') <= Cardinality(Held)
    BY <1>2, NothingGranted
  <2>2. ASSUME NEW w \in Workers PROVE Informed(w)'
    <3>1. tx[w].count \in Nat
      BY DEF BoundTx, Tx
    <3>2. tx'[w] = tx[w]
      BY <1>2
    <3>3. tx[w].pc = "counted" => Cardinality(Held') <= tx[w].count
      BY <2>1, <3>1, HeldFinite, HeldFiniteNext DEF Informed
    <3> QED
      BY <1>2, <3>2, <3>3 DEF Informed
  <2>3. runs' \in [Tokens -> SoundRow]
    BY <1>2
  <2> QED
    BY <1>2, <2>2, <2>3
<1>3. ASSUME NEW t \in Tokens, RunMoves(t) PROVE Inv'
  <2>1. runs[t] \in SoundRow /\ Exists(runs[t])
    BY <1>3 DEF RunMoves
  <2>2. PICK row \in { Moved(runs[t], runs[t].rev, "importing", TRUE),
                      MarkedCanceling(runs[t]) } :
          runs' = [runs EXCEPT ![t] = row]
    BY <1>3 DEF RunMoves
  <2>3. row \in SoundRow
    BY <2>1, MovedSound, MarkedCancelingSound DEF NonTerminalStates
  <2>4. Counts(row) => Counts(runs[t])
    BY <2>1, LiveWriteGrantsNothing
  <2> QED
    BY <1>2, <1>3, <2>2, <2>3, <2>4 DEF RunMoves
<1>4. ASSUME NEW t \in Tokens, RunEnds(t) PROVE Inv'
  <2> DEFINE row == Ended(runs[t], runs[t].rev, "succeeded")
  <2>1. runs[t] \in SoundRow
    OBVIOUS
  <2>2. runs' = [runs EXCEPT ![t] = row]
    BY <1>4 DEF RunEnds
  <2>3. row \in SoundRow /\ ~Counts(row)
    BY <2>1, EndedSound, EndGrantsNothing DEF TerminalStates
  <2> QED
    BY <1>2, <1>4, <2>2, <2>3 DEF RunEnds
<1>5. ASSUME NEW n \in Limits, upsertModel(n) PROVE Inv'
  <2>1. Held' = Held
    BY <1>5 DEF upsertModel, Held
  <2>2. \A w \in Workers : tx[w].pc \notin {"locked", "counted"}
    BY <1>5, NoWorkerAssumption DEF upsertModel, Informed
  <2> QED
    BY <1>5, <2>1, <2>2 DEF upsertModel, Informed
<1> QED
  BY <1>1, <1>3, <1>4, <1>5

\* Every step keeps the invariant.
LEMMA StepInv == Inv /\ [Next]_vars => Inv'
<1> SUFFICES ASSUME Inv, [Next]_vars PROVE Inv'
  OBVIOUS
<1>1. CASE Next
  BY <1>1, TransactionSteps, OtherSteps DEF Next
<1>2. CASE UNCHANGED vars
  BY <1>2 DEF vars, Inv, Types, Informed, Held
<1> QED
  BY <1>1, <1>2

\* The inductive invariant holds in every reachable state.
THEOREM Invariance == Spec => []Inv
<1>1. Init => Inv
  BY InitInv
<1>2. Inv /\ [Next]_vars => Inv'
  BY StepInv
<1> QED
  BY <1>1, <1>2, PTL DEF Spec

\* Every reachable state is well typed: rows, transactions, queue.
THEOREM CapacityTyping == Spec => []TypeOK
<1>1. Inv => TypeOK
  BY DEF Inv, Types, TypeOK, SoundRow, BoundTx
<1> QED
  BY <1>1, Invariance, PTL

-----------------------------------------------------------------------------
(* The refinement *)

\* Both modules count with FiniteSets.
LEMMA SameCardinality == \A S : Sem!Cardinality(S) = Cardinality(S)
BY DEF Cardinality, Sem!Cardinality

\* A write of one run that grants nothing is a release or nothing.
LEMMA WriteRefines ==
    ASSUME Types, NEW t \in Tokens, NEW row,
           runs' = [runs EXCEPT ![t] = row],
           Counts(row) => Counts(runs[t]),
           limit' = limit
    PROVE  [Sem!Next]_<<limit, Held>>
<1>1. Held' = Held \/ (t \in Held /\ Held' = Held \ {t})
  BY NothingGranted DEF Types
<1>2. CASE Held' = Held
  BY <1>2
<1>3. CASE t \in Held /\ Held' = Held \ {t}
  <2>1. Sem!Release(t)
    BY <1>3 DEF Sem!Release
  <2> QED
    BY <2>1 DEF Sem!Next
<1> QED
  BY <1>1, <1>2, <1>3

\* Every step grants below the limit in force, releases, changes the limit, or
\* leaves the semaphore alone.
LEMMA StepRefines == Inv /\ [Next]_vars => [Sem!Next]_<<limit, Held>>
<1> SUFFICES ASSUME Inv, [Next]_vars PROVE [Sem!Next]_<<limit, Held>>
  OBVIOUS
<1> USE DEF Inv
<1>1. ASSUME UNCHANGED <<limit, runs>> PROVE [Sem!Next]_<<limit, Held>>
  BY <1>1 DEF Held
<1>2. ASSUME NEW w \in Workers, Acquire(w) PROVE [Sem!Next]_<<limit, Held>>
  <2> DEFINE t == tx[w].token
             row == createProviderRun(runs[t])
  <2>1. t \in Tokens /\ tx[w].count \in Nat
    BY <1>2 DEF Acquire, Types, BoundTx, Tx
  <2>2. runs' = [runs EXCEPT ![t] = row] /\ limit' = limit
    BY <1>2 DEF Acquire
  <2>3. CASE Exists(runs[t])
    <3>1. row = runs[t]
      BY <2>3 DEF createProviderRun
    <3> QED
      BY <2>1, <2>2, <3>1, WriteRefines
  <2>4. CASE ~Exists(runs[t])
    <3>1. row = NewRun
      BY <2>4 DEF createProviderRun
    <3>2. Counts(row)
      BY <3>1 DEF NewRun, Counts, isNonTerminalRunState, NonTerminalStates
    <3>3. t \notin Held
      BY <2>4 DEF Held, Counts, isNonTerminalRunState, NonTerminalStates, Exists
    <3>4. Held' = Held \cup {t}
      BY <2>1, <2>2, <3>2, HeldAfter DEF Types
    <3>5. Cardinality(Held) < limit
      <4>1. tx[w].limit = limit /\ Cardinality(Held) <= tx[w].count
        BY <1>2 DEF Acquire, Informed
      <4>2. tx[w].count < tx[w].limit
        BY <1>2 DEF Acquire
      <4>3. limit \in Nat
        BY CapacityAssumption DEF Types
      <4> QED
        BY <2>1, <4>1, <4>2, <4>3, HeldFinite
    <3>6. Sem!Grant(t)
      BY <2>2, <3>3, <3>4, <3>5, SameCardinality DEF Sem!Grant
    <3> QED
      BY <2>1, <3>6 DEF Sem!Next
  <2> QED
    BY <2>3, <2>4
<1>3. ASSUME NEW t \in Tokens, RunMoves(t) PROVE [Sem!Next]_<<limit, Held>>
  <2>1. runs[t] \in SoundRow /\ Exists(runs[t]) /\ limit' = limit
    BY <1>3 DEF RunMoves, Types
  <2>2. PICK row \in { Moved(runs[t], runs[t].rev, "importing", TRUE),
                      MarkedCanceling(runs[t]) } :
          runs' = [runs EXCEPT ![t] = row]
    BY <1>3 DEF RunMoves
  <2>3. Counts(row) => Counts(runs[t])
    BY <2>1, LiveWriteGrantsNothing
  <2> QED
    BY <2>1, <2>2, <2>3, WriteRefines
<1>4. ASSUME NEW t \in Tokens, RunEnds(t) PROVE [Sem!Next]_<<limit, Held>>
  <2> DEFINE row == Ended(runs[t], runs[t].rev, "succeeded")
  <2>1. runs[t] \in SoundRow /\ limit' = limit
    BY <1>4 DEF RunEnds, Types
  <2>2. runs' = [runs EXCEPT ![t] = row]
    BY <1>4 DEF RunEnds
  <2>3. ~Counts(row)
    BY <2>1, EndGrantsNothing DEF TerminalStates
  <2> QED
    BY <2>1, <2>2, <2>3, WriteRefines
<1>5. ASSUME NEW n \in Limits, upsertModel(n) PROVE [Sem!Next]_<<limit, Held>>
  <2>1. Sem!SetLimit(n)
    BY <1>5 DEF upsertModel, Held, Sem!SetLimit
  <2> QED
    BY <2>1 DEF Sem!Next
<1>6. ASSUME NEW w \in Workers,
             \/ ClaimJob(w) \/ LockModel(w) \/ CountRuns(w)
             \/ DenyCapacity(w) \/ Requeue(w) \/ AcquireThrows(w)
      PROVE  UNCHANGED <<limit, runs>>
  BY <1>6 DEF ClaimJob, LockModel, CountRuns, DenyCapacity, Requeue, AcquireThrows
<1>7. ASSUME NEW t \in Tokens, EnqueueJob(t) PROVE UNCHANGED <<limit, runs>>
  BY <1>7 DEF EnqueueJob
<1>8. CASE UNCHANGED vars
  BY <1>1, <1>8 DEF vars
<1> QED
  BY <1>1, <1>2, <1>3, <1>4, <1>5, <1>6, <1>7, <1>8 DEF Next, WorkerStep

\* The transactions of acquireModelCapacity, the writes that end runs and the
\* administrator's updates implement the counting semaphore.
THEOREM Semaphore == Spec => ImplementsSemaphore
<1>1. Init => Sem!Init
  BY DEF Init, Sem!Init, Held, Counts, NoRun
<1>2. Inv /\ [Next]_vars => [Sem!Next]_<<limit, Held>>
  BY StepRefines
<1> QED
  BY <1>1, <1>2, Invariance, PTL DEF Spec, ImplementsSemaphore, Sem!Spec
=============================================================================
