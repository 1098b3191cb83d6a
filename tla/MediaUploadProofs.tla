-------------------------- MODULE MediaUploadProofs -------------------------
(***************************************************************************)
(* For every number of uploads, overlapping completions, requests and          *)
(* idempotency keys: an input that was whole when its job was committed keeps   *)
(* its object and feeds no second job, and no object outlives the rows that     *)
(* name it.                                                                     *)
(***************************************************************************)
EXTENDS MediaUploads, TLAPS

Moving == completing \in [Uploads -> [Completions -> Stages]]
Types ==
    /\ legacy \in [Uploads -> Row] /\ mirror \in [Uploads -> Row]
    /\ stored \in [Uploads -> {"unsent", "good", "bad", "gone"}]
    /\ posting \in SUBSET Uploads /\ expired \in SUBSET Uploads
    /\ Moving
    /\ deleting \in [Uploads -> {"no", "mirror", "object"}]
    /\ creating \in [Requests -> Creating]
    /\ jobs \in SUBSET Job
    /\ sweeping \in [Tables -> [Uploads -> Sweeps]]
    /\ account \in {"active", "waiting", "removing"}

\* What a sweep has selected, removed or written as purged cannot be posted any more.
OutOfReach(t, u) ==
    /\ sweeping[t][u] # NoSweep => u \notin posting /\ Table(t)[u].status # "none"
    /\ sweeping[t][u] \in {"expiredRemoved", "softDeletedRemoved"} => ~ Present(u)
    /\ Table(t)[u].purged => u \notin posting /\ ~ Present(u) /\ Table(t)[u].status # "none"
Swept ==
    /\ \A u \in Uploads : OutOfReach("legacy", u) /\ OutOfReach("mirror", u)
    /\ \A u \in expired : u \notin posting /\ mirror[u].status # "none"

\* Where the calls under way may be, given the two rows.
Calls ==
    /\ \A u \in Uploads :
        /\ deleting[u] # "no" => legacy[u].status \in {"deleted", "attached"}
        /\ mirror[u].status \in {"ready", "attached"} => legacy[u].status \notin {"none", "pending"}
    /\ \A u \in Uploads, c \in Completions :
        /\ completing[u][c] # "no" => legacy[u].status # "none"
        /\ completing[u][c] = "readied" => legacy[u].status # "pending"
        /\ completing[u][c] = "rejectMirror" => legacy[u].status \in {"deleted", "attached"}

\* A row that is neither deleted nor expired: no sweep has it, and its mirror is alike.
Whole(u) == account = "active" /\ u \notin expired /\ Open(legacy[u])
Unhurt ==
    \A u \in Uploads : Whole(u) =>
        /\ sweeping["legacy"][u] = NoSweep /\ sweeping["mirror"][u] = NoSweep
        /\ Open(mirror[u])

\* The transactions that hold inputs, and the keys of all.
Transactions ==
    /\ \A r \in Requests : creating[r].pc = "locked" =>
           \A u \in creating[r].inputs : mirror[u].status = "ready"
    /\ \A r \in Requests : creating[r].pc # "idle" =>
           creating[r].key \in Keys /\ \A j \in jobs : j.key # creating[r].key
    /\ \A r, q \in Requests : r # q /\ creating[r].pc # "idle" /\ creating[q].pc # "idle" =>
           creating[r].key # creating[q].key
    /\ \A r, q \in Requests : r # q /\ creating[r].pc = "locked" /\ creating[q].pc = "locked" =>
           creating[r].inputs \cap creating[q].inputs = {}

\* What the whole inputs of a committed job are like ever after.
Attached(u) ==
    /\ Present(u) /\ legacy[u].status = "attached" /\ mirror[u].status = "attached"
    /\ deleting[u] = "no" /\ Settled(u)
    /\ sweeping["legacy"][u] = NoSweep /\ sweeping["mirror"][u] = NoSweep
Inputs ==
    /\ \A j \in jobs : \A u \in j.inputs : mirror[u].status \in {"attached", "deleted"}
    /\ account = "active" => \A j \in jobs : \A u \in j.live : Attached(u)
    /\ InputsNotShared

\* The inductive invariant.
Inv == Types /\ Swept /\ Calls /\ Unhurt /\ Transactions /\ Inputs

-----------------------------------------------------------------------------
(* What the steps write                                                      *)
Status == {"none", "pending", "ready", "attached", "deleted"}

\* A status written to one row of a table.
LEMMA RowWritten ==
    ASSUME NEW table \in [Uploads -> Row], NEW u \in Uploads, NEW status \in Status
    PROVE  /\ [table EXCEPT ![u].status = status] \in [Uploads -> Row]
           /\ [table EXCEPT ![u].status = status][u].status = status
           /\ [table EXCEPT ![u].status = status][u].purged = table[u].purged
           /\ \A v \in Uploads \ {u} : [table EXCEPT ![u].status = status][v] = table[v]
<1> QED
  BY DEF Status, Row

\* One cell of `sweeping` is written.
LEMMA SweepWritten ==
    ASSUME Types, NEW t \in Tables, NEW u \in Uploads, NEW s \in Sweeps, Sweeping(t, u, s)
    PROVE  /\ sweeping' \in [Tables -> [Uploads -> Sweeps]]
           /\ sweeping'[t][u] = s
           /\ \A x \in Tables, v \in Uploads : x # t \/ v # u => sweeping'[x][v] = sweeping[x][v]
           /\ UNCHANGED <<time, calls, creating, jobs, account>>
<1> QED
  BY DEF Types, Sweeping

\* One completion takes a step; the others stay where they are.
LEMMA CompletionMoved ==
    ASSUME Types, NEW u \in Uploads, NEW c \in Completions, NEW from, NEW to \in Stages,
           Completing(u, c, from, to)
    PROVE  /\ completing' \in [Uploads -> [Completions -> Stages]]
           /\ completing[u][c] = from /\ completing'[u][c] = to
           /\ \A v \in Uploads, d \in Completions : v # u \/ d # c => completing'[v][d] = completing[v][d]
           /\ UNCHANGED <<posting, expired, deleting, creating, jobs, sweeping, account>>
<1> QED
  BY DEF Types, Moving, Completing

\* DeleteObject: the object is gone, or was never there; no other one is touched.
LEMMA ObjectDeleted ==
    ASSUME Types, NEW u \in Uploads
    PROVE  /\ WithoutObject(u) \in [Uploads -> {"unsent", "good", "bad", "gone"}]
           /\ WithoutObject(u)[u] \notin {"good", "bad"}
           /\ \A v \in Uploads \ {u} : WithoutObject(u)[v] = stored[v]
<1> QED
  BY DEF Types, WithoutObject, Present

\* Inputs that were whole stay so if the step keeps each of them, and jobs have theirs.
LEMMA InputsKept ==
    ASSUME Types, Inputs, UNCHANGED jobs, account' = "active" => account = "active",
           \A v \in Uploads : mirror[v].status \in {"attached", "deleted"}
                              => mirror'[v].status \in {"attached", "deleted"},
           account' = "active" => \A v \in Uploads : Attached(v) => Attached(v)'
    PROVE  Inputs'
<1>1. \A j \in jobs : j.inputs \subseteq Uploads /\ j.live \subseteq Uploads
  BY DEF Types, Job
<1>2. ASSUME account' = "active", NEW j \in jobs, NEW v \in j.live PROVE Attached(v)'
  <2>1. v \in Uploads /\ Attached(v)
    BY <1>1, <1>2 DEF Inputs
  <2> QED
    BY <1>2, <2>1
<1>3. \A j \in jobs' : \A v \in j.inputs : mirror'[v].status \in {"attached", "deleted"}
  BY <1>1 DEF Inputs
<1>4. InputsNotShared'
  BY DEF Inputs, InputsNotShared
<1> QED
  BY <1>2, <1>3, <1>4 DEF Inputs

\* A new upload enters both tables at once, with nothing under way for it.
LEMMA CreateGenerationUploadStep ==
    ASSUME Inv, NEW u \in Uploads, createGenerationUpload(u)
    PROVE  Inv'
<1> USE DEF Inv, createGenerationUpload, Absent, tables, time, calls, Types
<1>1. Types'
  BY DEF Row, Creating, Sweeps, Idle, Job, Moving
<1>2. Swept'
  BY DEF Row, Swept, OutOfReach, Table, Present, Open, NoSweep
<1>3. Calls'
  BY DEF Row, Calls, Open
<1>4. Unhurt'
  BY DEF Row, Unhurt, Whole, Open, Calls, Swept, OutOfReach, Table, NoSweep
<1>5. Transactions'
  BY DEF Row, Transactions, Replays, Locked, Creating, Idle
<1>6. Inputs'
  BY DEF Row, Inputs, Attached, Settled, Present, InputsNotShared, Job, Calls, Unhurt, Whole, Open
<1> QED
  BY <1>1, <1>2, <1>3, <1>4, <1>5, <1>6

\* When signing fails only the mirror row stays, and nobody can post to it.
LEMMA SigningFailsStep ==
    ASSUME Inv, NEW u \in Uploads, SigningFails(u)
    PROVE  Inv'
<1> USE DEF Inv, SigningFails, Absent, tables, time, calls, Types
<1>1. Types'
  BY DEF Row, Creating, Sweeps, Idle, Job, Moving
<1>2. Swept'
  BY DEF Row, Swept, OutOfReach, Table, Present, Open, NoSweep
<1>3. Calls'
  BY DEF Row, Calls, Open
<1>4. Unhurt'
  BY DEF Row, Unhurt, Whole, Open, Calls, Swept, OutOfReach, Table, NoSweep
<1>5. Transactions'
  BY DEF Row, Transactions, Replays, Locked, Creating, Idle
<1>6. Inputs'
  BY DEF Row, Inputs, Attached, Settled, Present, InputsNotShared, Job, Calls, Unhurt, Whole, Open
<1> QED
  BY <1>1, <1>2, <1>3, <1>4, <1>5, <1>6

\* Bytes arrive only for an upload whose signature still holds, so for none a sweep took.
LEMMA PostStep ==
    ASSUME Inv, NEW u \in Uploads, Post(u)
    PROVE  Inv'
<1> USE DEF Inv, tables, time, calls, Types
<1>0. /\ stored' \in [Uploads -> {"unsent", "good", "bad", "gone"}]
      /\ \A v \in Uploads \ {u} : stored'[v] = stored[v]
      /\ u \in posting /\ stored'[u] \in {"good", "bad"}
      /\ UNCHANGED <<tables, time, calls, creating, jobs, sweeping, account>>
  BY DEF Post
<1>1. Types'
  BY <1>0 DEF Row, Creating, Sweeps, Idle, Job, Moving
<1>2. Swept'
  BY <1>0 DEF Row, Swept, OutOfReach, Table, Present, Open, NoSweep
<1>3. Calls'
  BY <1>0 DEF Row, Calls, Open
<1>4. Unhurt'
  BY <1>0 DEF Row, Unhurt, Whole, Open, Calls, Swept, OutOfReach, Table, NoSweep
<1>5. Transactions'
  BY <1>0 DEF Row, Transactions, Replays, Locked, Creating, Idle
<1>6. Inputs'
  BY <1>0 DEF Row, Inputs, Attached, Settled, Present, InputsNotShared, Job, Calls, Unhurt, Whole, Open
<1> QED
  BY <1>1, <1>2, <1>3, <1>4, <1>5, <1>6

\* A completion that starts finds a pending row, which no job has as an input.
LEMMA ReadUploadStep ==
    ASSUME Inv, NEW u \in Uploads, NEW c \in Completions, ReadUpload(u, c)
    PROVE  Inv'
<1> USE DEF Inv, tables, time, calls, Types
<1>0. /\ completing' \in [Uploads -> [Completions -> Stages]]
      /\ completing[u][c] = "no" /\ completing'[u][c] # "readied" /\ completing'[u][c] # "rejectMirror"
      /\ \A v \in Uploads, d \in Completions : v # u \/ d # c => completing'[v][d] = completing[v][d]
      /\ UNCHANGED <<posting, expired, deleting, creating, jobs, sweeping, account>>
      /\ legacy[u].status = "pending" /\ UNCHANGED <<legacy, mirror, stored>>
  BY CompletionMoved DEF ReadUpload, Stages
<1>1. Types'
  BY <1>0 DEF Row, Creating, Sweeps, Idle, Job, Moving
<1>2. Swept'
  BY <1>0 DEF Row, Swept, OutOfReach, Table, Present, Open, NoSweep
<1>3. Calls'
  <2>1. ASSUME NEW v \in Uploads
        PROVE  /\ deleting'[v] # "no" => legacy'[v].status \in {"deleted", "attached"}
               /\ mirror'[v].status \in {"ready", "attached"} => legacy'[v].status \notin {"none", "pending"}
    BY <1>0 DEF Calls
  <2>2. ASSUME NEW v \in Uploads, NEW d \in Completions
        PROVE  /\ completing'[v][d] # "no" => legacy'[v].status # "none"
               /\ completing'[v][d] = "readied" => legacy'[v].status # "pending"
               /\ completing'[v][d] = "rejectMirror" => legacy'[v].status \in {"deleted", "attached"}
    <3>1. CASE v = u /\ d = c
      BY <1>0, <3>1 DEF Calls
    <3>2. CASE v # u \/ d # c
      <4>1. completing'[v][d] = completing[v][d]
        BY <1>0, <3>2
      <4>2. /\ completing[v][d] # "no" => legacy[v].status # "none"
            /\ completing[v][d] = "readied" => legacy[v].status # "pending"
            /\ completing[v][d] = "rejectMirror" => legacy[v].status \in {"deleted", "attached"}
        BY DEF Calls
      <4>3. v = u \/ legacy'[v] = legacy[v]
        BY <1>0
      <4> HIDE DEF Inv, Types
      <4> QED
        BY <1>0, <4>1, <4>2, <4>3
    <3> QED
      BY <3>1, <3>2
  <2> QED
    BY <2>1, <2>2 DEF Calls
<1>4. Unhurt'
  <2>1. ASSUME NEW v \in Uploads, Whole(v)'
        PROVE  /\ sweeping'["legacy"][v] = NoSweep /\ sweeping'["mirror"][v] = NoSweep
               /\ Open(mirror'[v])
    <3>1. Whole(v)
      BY <1>0, <2>1 DEF Whole, Open
    <3>2. /\ sweeping["legacy"][v] = NoSweep /\ sweeping["mirror"][v] = NoSweep
          /\ Open(mirror[v])
      BY <3>1 DEF Unhurt
    <3>3. Open(mirror'[v])
      BY <1>0, <3>1, <3>2 DEF Whole, Open, Calls
    <3> QED
      BY <1>0, <3>2, <3>3
  <2> QED
    BY <2>1 DEF Unhurt
<1>5. Transactions'
  BY <1>0 DEF Row, Transactions, Replays, Locked, Creating, Idle
<1>6. Inputs'
  <2>1. ASSUME NEW v \in Uploads, Attached(v) PROVE Attached(v)'
    <3>1. v # u \/ completing[u][c] \in {"no", "validated", "readied"}
      BY <2>1 DEF Attached, Settled
    <3>2. Settled(v)'
      BY <1>0, <2>1, <3>1 DEF Attached, Settled
    <3> QED
      BY <1>0, <2>1, <3>1, <3>2 DEF Attached, Present
  <2>2. ASSUME NEW v \in Uploads, mirror[v].status \in {"attached", "deleted"}
        PROVE  mirror'[v].status \in {"attached", "deleted"}
    BY <1>0, <2>2
  <2> QED
    BY <1>0, <2>1, <2>2, InputsKept
<1> QED
  BY <1>1, <1>2, <1>3, <1>4, <1>5, <1>6

\* A completion that has read the bytes rejects the upload or goes on; no whole input is
\* being read.
LEMMA InspectBytesStep ==
    ASSUME Inv, NEW u \in Uploads, NEW c \in Completions, InspectBytes(u, c)
    PROVE  Inv'
<1> USE DEF Inv, tables, time, calls, Types
<1>0. /\ completing' \in [Uploads -> [Completions -> Stages]]
      /\ completing[u][c] = "reading" /\ completing'[u][c] # "readied" /\ completing'[u][c] # "rejectMirror"
      /\ \A v \in Uploads, d \in Completions : v # u \/ d # c => completing'[v][d] = completing[v][d]
      /\ UNCHANGED <<posting, expired, deleting, creating, jobs, sweeping, account>>
      /\ UNCHANGED <<legacy, mirror, stored>>
  <2>1. PICK to \in {"validated", "rejecting", "no"} : Completing(u, c, "reading", to)
    BY DEF InspectBytes
  <2> QED
    BY <2>1, CompletionMoved DEF InspectBytes, Stages
<1>1. Types'
  BY <1>0 DEF Row, Creating, Sweeps, Idle, Job, Moving
<1>2. Swept'
  BY <1>0 DEF Row, Swept, OutOfReach, Table, Present, Open, NoSweep
<1>3. Calls'
  <2>1. ASSUME NEW v \in Uploads
        PROVE  /\ deleting'[v] # "no" => legacy'[v].status \in {"deleted", "attached"}
               /\ mirror'[v].status \in {"ready", "attached"} => legacy'[v].status \notin {"none", "pending"}
    BY <1>0 DEF Calls
  <2>2. ASSUME NEW v \in Uploads, NEW d \in Completions
        PROVE  /\ completing'[v][d] # "no" => legacy'[v].status # "none"
               /\ completing'[v][d] = "readied" => legacy'[v].status # "pending"
               /\ completing'[v][d] = "rejectMirror" => legacy'[v].status \in {"deleted", "attached"}
    <3>1. CASE v = u /\ d = c
      BY <1>0, <3>1 DEF Calls
    <3>2. CASE v # u \/ d # c
      <4>1. completing'[v][d] = completing[v][d]
        BY <1>0, <3>2
      <4>2. /\ completing[v][d] # "no" => legacy[v].status # "none"
            /\ completing[v][d] = "readied" => legacy[v].status # "pending"
            /\ completing[v][d] = "rejectMirror" => legacy[v].status \in {"deleted", "attached"}
        BY DEF Calls
      <4>3. v = u \/ legacy'[v] = legacy[v]
        BY <1>0
      <4> HIDE DEF Inv, Types
      <4> QED
        BY <1>0, <4>1, <4>2, <4>3
    <3> QED
      BY <3>1, <3>2
  <2> QED
    BY <2>1, <2>2 DEF Calls
<1>4. Unhurt'
  <2>1. ASSUME NEW v \in Uploads, Whole(v)'
        PROVE  /\ sweeping'["legacy"][v] = NoSweep /\ sweeping'["mirror"][v] = NoSweep
               /\ Open(mirror'[v])
    <3>1. Whole(v)
      BY <1>0, <2>1 DEF Whole, Open
    <3>2. /\ sweeping["legacy"][v] = NoSweep /\ sweeping["mirror"][v] = NoSweep
          /\ Open(mirror[v])
      BY <3>1 DEF Unhurt
    <3>3. Open(mirror'[v])
      BY <1>0, <3>1, <3>2 DEF Whole, Open, Calls
    <3> QED
      BY <1>0, <3>2, <3>3
  <2> QED
    BY <2>1 DEF Unhurt
<1>5. Transactions'
  BY <1>0 DEF Row, Transactions, Replays, Locked, Creating, Idle
<1>6. Inputs'
  <2>1. ASSUME NEW v \in Uploads, Attached(v) PROVE Attached(v)'
    <3>1. v # u \/ completing[u][c] \in {"no", "validated", "readied"}
      BY <2>1 DEF Attached, Settled
    <3>2. Settled(v)'
      BY <1>0, <2>1, <3>1 DEF Attached, Settled
    <3> QED
      BY <1>0, <2>1, <3>1, <3>2 DEF Attached, Present
  <2>2. ASSUME NEW v \in Uploads, mirror[v].status \in {"attached", "deleted"}
        PROVE  mirror'[v].status \in {"attached", "deleted"}
    BY <1>0, <2>2
  <2> QED
    BY <1>0, <2>1, <2>2, InputsKept
<1> QED
  BY <1>1, <1>2, <1>3, <1>4, <1>5, <1>6

\* The row is ready only if it was still pending, and the bytes were found good.
LEMMA SetLegacyReadyStep ==
    ASSUME Inv, NEW u \in Uploads, NEW c \in Completions, SetLegacyReady(u, c)
    PROVE  Inv'
<1> USE DEF Inv, tables, time, calls, Types
<1> DEFINE status == IF legacy[u].status = "pending" THEN "ready" ELSE legacy[u].status
<1>a. /\ status \in Status /\ legacy' = [legacy EXCEPT ![u].status = status] /\ legacy \in [Uploads -> Row]
  BY DEF SetLegacyReady, Completing, Row, Status
<1>b. status = IF legacy[u].status = "pending" THEN "ready" ELSE legacy[u].status
  OBVIOUS
<1> HIDE DEF status
<1>c. /\ legacy' \in [Uploads -> Row] /\ legacy'[u].status = status /\ legacy'[u].purged = legacy[u].purged
      /\ \A v \in Uploads \ {u} : legacy'[v] = legacy[v]
  <2> HIDE DEF Inv, Types
  <2> QED
    BY <1>a, RowWritten
<1>0. /\ legacy' \in [Uploads -> Row]
      /\ \A v \in Uploads \ {u} : legacy'[v] = legacy[v]
      /\ legacy'[u].purged = legacy[u].purged
      /\ legacy'[u].status = IF legacy[u].status = "pending" THEN "ready" ELSE legacy[u].status
      /\ completing' \in [Uploads -> [Completions -> Stages]]
      /\ completing[u][c] = "validated" /\ completing'[u][c] = "readied"
      /\ \A v \in Uploads, d \in Completions : v # u \/ d # c => completing'[v][d] = completing[v][d]
      /\ UNCHANGED <<posting, expired, deleting, creating, jobs, sweeping, account, stored, mirror>>
  BY <1>b, <1>c, CompletionMoved DEF SetLegacyReady, Stages
<1>1. Types'
  BY <1>0 DEF Row, Creating, Sweeps, Idle, Job, Moving
<1>2. Swept'
  <2>1. ASSUME NEW v \in Uploads PROVE OutOfReach("legacy", v)'
    BY <1>0 DEF Swept, OutOfReach, Table, Present, NoSweep
  <2>2. ASSUME NEW v \in Uploads PROVE OutOfReach("mirror", v)'
    BY <1>0 DEF Swept, OutOfReach, Table, Present, NoSweep
  <2>3. \A v \in expired' : v \notin posting' /\ mirror'[v].status # "none"
    BY <1>0 DEF Swept
  <2> QED
    BY <2>1, <2>2, <2>3 DEF Swept
<1>3. Calls'
  <2>1. ASSUME NEW v \in Uploads
        PROVE  /\ deleting'[v] # "no" => legacy'[v].status \in {"deleted", "attached"}
               /\ mirror'[v].status \in {"ready", "attached"} => legacy'[v].status \notin {"none", "pending"}
    BY <1>0 DEF Calls
  <2>2. ASSUME NEW v \in Uploads, NEW d \in Completions
        PROVE  /\ completing'[v][d] # "no" => legacy'[v].status # "none"
               /\ completing'[v][d] = "readied" => legacy'[v].status # "pending"
               /\ completing'[v][d] = "rejectMirror" => legacy'[v].status \in {"deleted", "attached"}
    <3>1. CASE v = u /\ d = c
      BY <1>0, <3>1 DEF Calls
    <3>2. CASE v # u \/ d # c
      <4>1. completing'[v][d] = completing[v][d]
        BY <1>0, <3>2
      <4>2. /\ completing[v][d] # "no" => legacy[v].status # "none"
            /\ completing[v][d] = "readied" => legacy[v].status # "pending"
            /\ completing[v][d] = "rejectMirror" => legacy[v].status \in {"deleted", "attached"}
        BY DEF Calls
      <4>3. v = u \/ legacy'[v] = legacy[v]
        BY <1>0
      <4> HIDE DEF Inv, Types
      <4> QED
        BY <1>0, <4>1, <4>2, <4>3
    <3> QED
      BY <3>1, <3>2
  <2> QED
    BY <2>1, <2>2 DEF Calls
<1>4. Unhurt'
  <2>1. ASSUME NEW v \in Uploads, Whole(v)'
        PROVE  /\ sweeping'["legacy"][v] = NoSweep /\ sweeping'["mirror"][v] = NoSweep
               /\ Open(mirror'[v])
    <3>1. Whole(v)
      BY <1>0, <2>1 DEF Whole, Open
    <3>2. /\ sweeping["legacy"][v] = NoSweep /\ sweeping["mirror"][v] = NoSweep
          /\ Open(mirror[v])
      BY <3>1 DEF Unhurt
    <3>3. Open(mirror'[v])
      BY <1>0, <3>1, <3>2 DEF Whole, Open, Calls
    <3> QED
      BY <1>0, <3>2, <3>3
  <2> QED
    BY <2>1 DEF Unhurt
<1>5. Transactions'
  BY <1>0 DEF Row, Transactions, Replays, Locked, Creating, Idle
<1>6. Inputs'
  <2>1. ASSUME NEW v \in Uploads, Attached(v) PROVE Attached(v)'
    <3>1. v # u \/ completing[u][c] \in {"no", "validated", "readied"}
      BY <2>1 DEF Attached, Settled
    <3>2. Settled(v)'
      BY <1>0, <2>1, <3>1 DEF Attached, Settled
    <3> QED
      BY <1>0, <2>1, <3>1, <3>2 DEF Attached, Present
  <2>2. ASSUME NEW v \in Uploads, mirror[v].status \in {"attached", "deleted"}
        PROVE  mirror'[v].status \in {"attached", "deleted"}
    BY <1>0, <2>2
  <2> QED
    BY <1>0, <2>1, <2>2, InputsKept
<1> QED
  BY <1>1, <1>2, <1>3, <1>4, <1>5, <1>6

\* The mirror follows the legacy row; a deletion in between is not undone.
LEMMA SetMirrorReadyStep ==
    ASSUME Inv, NEW u \in Uploads, NEW c \in Completions, SetMirrorReady(u, c)
    PROVE  Inv'
<1> USE DEF Inv, tables, time, calls, Types
<1> DEFINE status == IF mirror[u].status = "pending" THEN "ready" ELSE mirror[u].status
<1>a. /\ status \in Status /\ mirror' = [mirror EXCEPT ![u].status = status] /\ mirror \in [Uploads -> Row]
  BY DEF SetMirrorReady, Completing, Row, Status
<1>b. status = IF mirror[u].status = "pending" THEN "ready" ELSE mirror[u].status
  OBVIOUS
<1> HIDE DEF status
<1>c. /\ mirror' \in [Uploads -> Row] /\ mirror'[u].status = status /\ mirror'[u].purged = mirror[u].purged
      /\ \A v \in Uploads \ {u} : mirror'[v] = mirror[v]
  <2> HIDE DEF Inv, Types
  <2> QED
    BY <1>a, RowWritten
<1>0. /\ mirror' \in [Uploads -> Row]
      /\ \A v \in Uploads \ {u} : mirror'[v] = mirror[v]
      /\ mirror'[u].purged = mirror[u].purged
      /\ mirror'[u].status = IF mirror[u].status = "pending" THEN "ready" ELSE mirror[u].status
      /\ ~ Locked(u)
      /\ completing' \in [Uploads -> [Completions -> Stages]]
      /\ completing[u][c] = "readied" /\ completing'[u][c] = "no"
      /\ \A v \in Uploads, d \in Completions : v # u \/ d # c => completing'[v][d] = completing[v][d]
      /\ UNCHANGED <<posting, expired, deleting, creating, jobs, sweeping, account, stored, legacy>>
  BY <1>b, <1>c, CompletionMoved DEF SetMirrorReady, Stages
<1>1. Types'
  BY <1>0 DEF Row, Creating, Sweeps, Idle, Job, Moving
<1>2. Swept'
  <2>1. ASSUME NEW v \in Uploads PROVE OutOfReach("legacy", v)'
    BY <1>0 DEF Swept, OutOfReach, Table, Present, NoSweep
  <2>2. ASSUME NEW v \in Uploads PROVE OutOfReach("mirror", v)'
    BY <1>0 DEF Swept, OutOfReach, Table, Present, NoSweep
  <2>3. \A v \in expired' : v \notin posting' /\ mirror'[v].status # "none"
    BY <1>0 DEF Swept
  <2> QED
    BY <2>1, <2>2, <2>3 DEF Swept
<1>3. Calls'
  <2>1. ASSUME NEW v \in Uploads
        PROVE  /\ deleting'[v] # "no" => legacy'[v].status \in {"deleted", "attached"}
               /\ mirror'[v].status \in {"ready", "attached"} => legacy'[v].status \notin {"none", "pending"}
    BY <1>0 DEF Calls
  <2>2. ASSUME NEW v \in Uploads, NEW d \in Completions
        PROVE  /\ completing'[v][d] # "no" => legacy'[v].status # "none"
               /\ completing'[v][d] = "readied" => legacy'[v].status # "pending"
               /\ completing'[v][d] = "rejectMirror" => legacy'[v].status \in {"deleted", "attached"}
    <3>1. CASE v = u /\ d = c
      BY <1>0, <3>1 DEF Calls
    <3>2. CASE v # u \/ d # c
      <4>1. completing'[v][d] = completing[v][d]
        BY <1>0, <3>2
      <4>2. /\ completing[v][d] # "no" => legacy[v].status # "none"
            /\ completing[v][d] = "readied" => legacy[v].status # "pending"
            /\ completing[v][d] = "rejectMirror" => legacy[v].status \in {"deleted", "attached"}
        BY DEF Calls
      <4>3. v = u \/ legacy'[v] = legacy[v]
        BY <1>0
      <4> HIDE DEF Inv, Types
      <4> QED
        BY <1>0, <4>1, <4>2, <4>3
    <3> QED
      BY <3>1, <3>2
  <2> QED
    BY <2>1, <2>2 DEF Calls
<1>4. Unhurt'
  <2>1. ASSUME NEW v \in Uploads, Whole(v)'
        PROVE  /\ sweeping'["legacy"][v] = NoSweep /\ sweeping'["mirror"][v] = NoSweep
               /\ Open(mirror'[v])
    <3>1. Whole(v)
      BY <1>0, <2>1 DEF Whole, Open
    <3>2. /\ sweeping["legacy"][v] = NoSweep /\ sweeping["mirror"][v] = NoSweep
          /\ Open(mirror[v])
      BY <3>1 DEF Unhurt
    <3>3. Open(mirror'[v])
      BY <1>0, <3>1, <3>2 DEF Whole, Open, Calls
    <3> QED
      BY <1>0, <3>2, <3>3
  <2> QED
    BY <2>1 DEF Unhurt
<1>5. Transactions'
  <2>1. \A q \in Requests : creating'[q].pc = "locked" =>
           \A v \in creating'[q].inputs : mirror'[v].status = "ready"
    <3>1. ASSUME NEW q \in Requests, creating[q].pc = "locked", NEW v \in creating[q].inputs
          PROVE  mirror'[v].status = "ready"
      <4>1. mirror[v].status = "ready" /\ v # u /\ v \in Uploads
        BY <1>0, <3>1 DEF Transactions, Locked, Creating
      <4> QED
        BY <1>0, <4>1
    <3> QED
      BY <1>0, <3>1
  <2> QED
    BY <1>0, <2>1 DEF Transactions
<1>6. Inputs'
  <2>1. ASSUME NEW v \in Uploads, Attached(v) PROVE Attached(v)'
    <3>1. v # u \/ completing[u][c] \in {"no", "validated", "readied"}
      BY <2>1 DEF Attached, Settled
    <3>2. Settled(v)'
      BY <1>0, <2>1, <3>1 DEF Attached, Settled
    <3> QED
      BY <1>0, <2>1, <3>1, <3>2 DEF Attached, Present
  <2>2. ASSUME NEW v \in Uploads, mirror[v].status \in {"attached", "deleted"}
        PROVE  mirror'[v].status \in {"attached", "deleted"}
    BY <1>0, <2>2
  <2> QED
    BY <1>0, <2>1, <2>2, InputsKept
<1> QED
  BY <1>1, <1>2, <1>3, <1>4, <1>5, <1>6

\* The object of a rejected upload goes: no job has it, its legacy row is not ready.
LEMMA RejectObjectStep ==
    ASSUME Inv, NEW u \in Uploads, NEW c \in Completions, RejectObject(u, c)
    PROVE  Inv'
<1> USE DEF Inv, tables, time, calls, Types
<1>0. /\ stored' \in [Uploads -> {"unsent", "good", "bad", "gone"}]
      /\ \A v \in Uploads \ {u} : stored'[v] = stored[v]
      /\ ~ (stored[u] \in {"unsent", "gone"} /\ stored'[u] \in {"good", "bad"})
      /\ completing' \in [Uploads -> [Completions -> Stages]]
      /\ completing[u][c] = "rejecting" /\ completing'[u][c] = "rejectLegacy"
      /\ \A v \in Uploads, d \in Completions : v # u \/ d # c => completing'[v][d] = completing[v][d]
      /\ UNCHANGED <<posting, expired, deleting, creating, jobs, sweeping, account, legacy, mirror>>
  BY ObjectDeleted, CompletionMoved DEF RejectObject, Stages
<1>1. Types'
  BY <1>0 DEF Row, Creating, Sweeps, Idle, Job, Moving
<1>2. Swept'
  BY <1>0 DEF Row, Swept, OutOfReach, Table, Present, Open, NoSweep
<1>3. Calls'
  <2>1. ASSUME NEW v \in Uploads
        PROVE  /\ deleting'[v] # "no" => legacy'[v].status \in {"deleted", "attached"}
               /\ mirror'[v].status \in {"ready", "attached"} => legacy'[v].status \notin {"none", "pending"}
    BY <1>0 DEF Calls
  <2>2. ASSUME NEW v \in Uploads, NEW d \in Completions
        PROVE  /\ completing'[v][d] # "no" => legacy'[v].status # "none"
               /\ completing'[v][d] = "readied" => legacy'[v].status # "pending"
               /\ completing'[v][d] = "rejectMirror" => legacy'[v].status \in {"deleted", "attached"}
    <3>1. CASE v = u /\ d = c
      BY <1>0, <3>1 DEF Calls
    <3>2. CASE v # u \/ d # c
      <4>1. completing'[v][d] = completing[v][d]
        BY <1>0, <3>2
      <4>2. /\ completing[v][d] # "no" => legacy[v].status # "none"
            /\ completing[v][d] = "readied" => legacy[v].status # "pending"
            /\ completing[v][d] = "rejectMirror" => legacy[v].status \in {"deleted", "attached"}
        BY DEF Calls
      <4>3. v = u \/ legacy'[v] = legacy[v]
        BY <1>0
      <4> HIDE DEF Inv, Types
      <4> QED
        BY <1>0, <4>1, <4>2, <4>3
    <3> QED
      BY <3>1, <3>2
  <2> QED
    BY <2>1, <2>2 DEF Calls
<1>4. Unhurt'
  <2>1. ASSUME NEW v \in Uploads, Whole(v)'
        PROVE  /\ sweeping'["legacy"][v] = NoSweep /\ sweeping'["mirror"][v] = NoSweep
               /\ Open(mirror'[v])
    <3>1. Whole(v)
      BY <1>0, <2>1 DEF Whole, Open
    <3>2. /\ sweeping["legacy"][v] = NoSweep /\ sweeping["mirror"][v] = NoSweep
          /\ Open(mirror[v])
      BY <3>1 DEF Unhurt
    <3>3. Open(mirror'[v])
      BY <1>0, <3>1, <3>2 DEF Whole, Open, Calls
    <3> QED
      BY <1>0, <3>2, <3>3
  <2> QED
    BY <2>1 DEF Unhurt
<1>5. Transactions'
  BY <1>0 DEF Row, Transactions, Replays, Locked, Creating, Idle
<1>6. Inputs'
  <2>1. ASSUME NEW v \in Uploads, Attached(v) PROVE Attached(v)'
    <3>1. v # u \/ completing[u][c] \in {"no", "validated", "readied"}
      BY <2>1 DEF Attached, Settled
    <3>2. Settled(v)'
      BY <1>0, <2>1, <3>1 DEF Attached, Settled
    <3> QED
      BY <1>0, <2>1, <3>1, <3>2 DEF Attached, Present
  <2>2. ASSUME NEW v \in Uploads, mirror[v].status \in {"attached", "deleted"}
        PROVE  mirror'[v].status \in {"attached", "deleted"}
    BY <1>0, <2>2
  <2> QED
    BY <1>0, <2>1, <2>2, InputsKept
<1> QED
  BY <1>1, <1>2, <1>3, <1>4, <1>5, <1>6

\* A rejection writes the legacy row of an upload that was never ready.
LEMMA RejectLegacyStep ==
    ASSUME Inv, NEW u \in Uploads, NEW c \in Completions, RejectLegacy(u, c)
    PROVE  Inv'
<1> USE DEF Inv, tables, time, calls, Types
<1> DEFINE status == IF legacy[u].status = "none" THEN legacy[u].status ELSE "deleted"
<1>a. /\ status \in Status /\ legacy' = [legacy EXCEPT ![u].status = status] /\ legacy \in [Uploads -> Row]
  BY DEF RejectLegacy, Completing, Row, Status
<1>b. status = IF legacy[u].status = "none" THEN legacy[u].status ELSE "deleted"
  OBVIOUS
<1> HIDE DEF status
<1>c. /\ legacy' \in [Uploads -> Row] /\ legacy'[u].status = status /\ legacy'[u].purged = legacy[u].purged
      /\ \A v \in Uploads \ {u} : legacy'[v] = legacy[v]
  <2> HIDE DEF Inv, Types
  <2> QED
    BY <1>a, RowWritten
<1>0. /\ legacy' \in [Uploads -> Row]
      /\ \A v \in Uploads \ {u} : legacy'[v] = legacy[v]
      /\ legacy'[u].purged = legacy[u].purged
      /\ legacy'[u].status = IF legacy[u].status = "none" THEN legacy[u].status ELSE "deleted"
      /\ completing' \in [Uploads -> [Completions -> Stages]]
      /\ completing[u][c] = "rejectLegacy" /\ completing'[u][c] = "rejectMirror"
      /\ \A v \in Uploads, d \in Completions : v # u \/ d # c => completing'[v][d] = completing[v][d]
      /\ UNCHANGED <<posting, expired, deleting, creating, jobs, sweeping, account, stored, mirror>>
  BY <1>b, <1>c, CompletionMoved DEF RejectLegacy, Stages
<1>1. Types'
  BY <1>0 DEF Row, Creating, Sweeps, Idle, Job, Moving
<1>2. Swept'
  BY <1>0 DEF Row, Swept, OutOfReach, Table, Present, Open, NoSweep
<1>3. Calls'
  <2>1. ASSUME NEW v \in Uploads
        PROVE  /\ deleting'[v] # "no" => legacy'[v].status \in {"deleted", "attached"}
               /\ mirror'[v].status \in {"ready", "attached"} => legacy'[v].status \notin {"none", "pending"}
    BY <1>0 DEF Calls
  <2>2. ASSUME NEW v \in Uploads, NEW d \in Completions
        PROVE  /\ completing'[v][d] # "no" => legacy'[v].status # "none"
               /\ completing'[v][d] = "readied" => legacy'[v].status # "pending"
               /\ completing'[v][d] = "rejectMirror" => legacy'[v].status \in {"deleted", "attached"}
    <3>1. CASE v = u /\ d = c
      BY <1>0, <3>1 DEF Calls
    <3>2. CASE v # u \/ d # c
      <4>1. completing'[v][d] = completing[v][d]
        BY <1>0, <3>2
      <4>2. /\ completing[v][d] # "no" => legacy[v].status # "none"
            /\ completing[v][d] = "readied" => legacy[v].status # "pending"
            /\ completing[v][d] = "rejectMirror" => legacy[v].status \in {"deleted", "attached"}
        BY DEF Calls
      <4>3. v = u \/ legacy'[v] = legacy[v]
        BY <1>0
      <4> HIDE DEF Inv, Types
      <4> QED
        BY <1>0, <4>1, <4>2, <4>3
    <3> QED
      BY <3>1, <3>2
  <2> QED
    BY <2>1, <2>2 DEF Calls
<1>4. Unhurt'
  <2>1. ASSUME NEW v \in Uploads, Whole(v)'
        PROVE  /\ sweeping'["legacy"][v] = NoSweep /\ sweeping'["mirror"][v] = NoSweep
               /\ Open(mirror'[v])
    <3>1. Whole(v)
      BY <1>0, <2>1 DEF Whole, Open
    <3>2. /\ sweeping["legacy"][v] = NoSweep /\ sweeping["mirror"][v] = NoSweep
          /\ Open(mirror[v])
      BY <3>1 DEF Unhurt
    <3>3. Open(mirror'[v])
      BY <1>0, <3>1, <3>2 DEF Whole, Open, Calls
    <3> QED
      BY <1>0, <3>2, <3>3
  <2> QED
    BY <2>1 DEF Unhurt
<1>5. Transactions'
  BY <1>0 DEF Row, Transactions, Replays, Locked, Creating, Idle
<1>6. Inputs'
  <2>1. ASSUME NEW v \in Uploads, Attached(v) PROVE Attached(v)'
    <3>1. v # u \/ completing[u][c] \in {"no", "validated", "readied"}
      BY <2>1 DEF Attached, Settled
    <3>2. Settled(v)'
      BY <1>0, <2>1, <3>1 DEF Attached, Settled
    <3> QED
      BY <1>0, <2>1, <3>1, <3>2 DEF Attached, Present
  <2>2. ASSUME NEW v \in Uploads, mirror[v].status \in {"attached", "deleted"}
        PROVE  mirror'[v].status \in {"attached", "deleted"}
    BY <1>0, <2>2
  <2> QED
    BY <1>0, <2>1, <2>2, InputsKept
<1> QED
  BY <1>1, <1>2, <1>3, <1>4, <1>5, <1>6

\* A rejection writes the mirror row, which is neither ready nor attached.
LEMMA RejectMirrorStep ==
    ASSUME Inv, NEW u \in Uploads, NEW c \in Completions, RejectMirror(u, c)
    PROVE  Inv'
<1> USE DEF Inv, tables, time, calls, Types
<1>a. mirror' \in [Uploads -> Row] /\ mirror'[u].status = "deleted" /\ mirror'[u].purged = mirror[u].purged
      /\ \A v \in Uploads \ {u} : mirror'[v] = mirror[v]
  <2>1. mirror \in [Uploads -> Row] /\ mirror' = [mirror EXCEPT ![u].status = "deleted"]
    BY DEF RejectMirror
  <2>2. "deleted" \in Status
    BY DEF Status
  <2> HIDE DEF Inv, Types
  <2> QED
    BY <2>1, <2>2, RowWritten
<1>0. /\ completing' \in [Uploads -> [Completions -> Stages]]
      /\ completing[u][c] = "rejectMirror" /\ completing'[u][c] = "no"
      /\ \A v \in Uploads, d \in Completions : v # u \/ d # c => completing'[v][d] = completing[v][d]
      /\ UNCHANGED <<posting, expired, deleting, creating, jobs, sweeping, account>>
      /\ ~ Locked(u)
      /\ UNCHANGED <<legacy, stored>>
  BY CompletionMoved DEF RejectMirror, Stages
<1>1. Types'
  BY <1>0, <1>a DEF Row, Creating, Sweeps, Idle, Job, Moving
<1>2. Swept'
  <2>1. ASSUME NEW v \in Uploads PROVE OutOfReach("legacy", v)'
    BY <1>0, <1>a DEF Swept, OutOfReach, Table, Present, NoSweep
  <2>2. ASSUME NEW v \in Uploads PROVE OutOfReach("mirror", v)'
    BY <1>0, <1>a DEF Swept, OutOfReach, Table, Present, NoSweep
  <2>3. \A v \in expired' : v \notin posting' /\ mirror'[v].status # "none"
    BY <1>0, <1>a DEF Swept
  <2> QED
    BY <2>1, <2>2, <2>3 DEF Swept
<1>3. Calls'
  <2>1. ASSUME NEW v \in Uploads
        PROVE  /\ deleting'[v] # "no" => legacy'[v].status \in {"deleted", "attached"}
               /\ mirror'[v].status \in {"ready", "attached"} => legacy'[v].status \notin {"none", "pending"}
    BY <1>0, <1>a DEF Calls
  <2>2. ASSUME NEW v \in Uploads, NEW d \in Completions
        PROVE  /\ completing'[v][d] # "no" => legacy'[v].status # "none"
               /\ completing'[v][d] = "readied" => legacy'[v].status # "pending"
               /\ completing'[v][d] = "rejectMirror" => legacy'[v].status \in {"deleted", "attached"}
    <3>1. CASE v = u /\ d = c
      BY <1>0, <1>a, <3>1 DEF Calls
    <3>2. CASE v # u \/ d # c
      <4>1. completing'[v][d] = completing[v][d]
        BY <1>0, <3>2
      <4>2. /\ completing[v][d] # "no" => legacy[v].status # "none"
            /\ completing[v][d] = "readied" => legacy[v].status # "pending"
            /\ completing[v][d] = "rejectMirror" => legacy[v].status \in {"deleted", "attached"}
        BY DEF Calls
      <4>3. v = u \/ legacy'[v] = legacy[v]
        BY <1>0
      <4> HIDE DEF Inv, Types
      <4> QED
        BY <1>0, <4>1, <4>2, <4>3
    <3> QED
      BY <3>1, <3>2
  <2> QED
    BY <2>1, <2>2 DEF Calls
<1>4. Unhurt'
  <2>1. ASSUME NEW v \in Uploads, Whole(v)'
        PROVE  /\ sweeping'["legacy"][v] = NoSweep /\ sweeping'["mirror"][v] = NoSweep
               /\ Open(mirror'[v])
    <3>1. Whole(v)
      BY <1>0, <1>a, <2>1 DEF Whole, Open
    <3>2. /\ sweeping["legacy"][v] = NoSweep /\ sweeping["mirror"][v] = NoSweep
          /\ Open(mirror[v])
      BY <3>1 DEF Unhurt
    <3>3. Open(mirror'[v])
      BY <1>0, <1>a, <3>1, <3>2 DEF Whole, Open, Calls
    <3> QED
      BY <1>0, <3>2, <3>3
  <2> QED
    BY <2>1 DEF Unhurt
<1>5. Transactions'
  <2>1. \A q \in Requests : creating'[q].pc = "locked" =>
           \A v \in creating'[q].inputs : mirror'[v].status = "ready"
    <3>1. ASSUME NEW q \in Requests, creating[q].pc = "locked", NEW v \in creating[q].inputs
          PROVE  mirror'[v].status = "ready"
      <4>1. mirror[v].status = "ready" /\ v # u /\ v \in Uploads
        BY <1>0, <3>1 DEF Transactions, Locked, Creating
      <4> QED
        BY <1>0, <1>a, <4>1
    <3> QED
      BY <1>0, <3>1
  <2> QED
    BY <1>0, <2>1 DEF Transactions
<1>6. Inputs'
  <2>1. ASSUME NEW v \in Uploads, Attached(v) PROVE Attached(v)'
    <3>1. v # u \/ completing[u][c] \in {"no", "validated", "readied"}
      BY <2>1 DEF Attached, Settled
    <3>2. Settled(v)'
      BY <1>0, <2>1, <3>1 DEF Attached, Settled
    <3> QED
      BY <1>0, <1>a, <2>1, <3>1, <3>2 DEF Attached, Present
  <2>2. ASSUME NEW v \in Uploads, mirror[v].status \in {"attached", "deleted"}
        PROVE  mirror'[v].status \in {"attached", "deleted"}
    BY <1>0, <1>a, <2>2
  <2> QED
    BY <1>0, <2>1, <2>2, InputsKept
<1> QED
  BY <1>1, <1>2, <1>3, <1>4, <1>5, <1>6

\* A deletion starts with the row it finds pending or ready; whole it is no more.
LEMMA DeleteLegacyStep ==
    ASSUME Inv, NEW u \in Uploads, DeleteLegacy(u)
    PROVE  Inv'
<1> USE DEF Inv, DeleteLegacy, Deleting, Open, tables, time, calls, Types
<1>1. Types'
  BY DEF Row, Creating, Sweeps, Idle, Job, Moving
<1>2. Swept'
  BY DEF Row, Swept, OutOfReach, Table, Present, Open, NoSweep
<1>3. Calls'
  BY DEF Row, Calls, Open
<1>4. Unhurt'
  BY DEF Row, Unhurt, Whole, Open, Calls, Swept, OutOfReach, Table, NoSweep
<1>5. Transactions'
  BY DEF Row, Transactions, Replays, Locked, Creating, Idle
<1>6. Inputs'
  BY DEF Row, Inputs, Attached, Settled, Present, InputsNotShared, Job, Calls, Unhurt, Whole, Open
<1> QED
  BY <1>1, <1>2, <1>3, <1>4, <1>5, <1>6

\* A deletion leaves an attached mirror row as it is.
LEMMA DeleteMirrorStep ==
    ASSUME Inv, NEW u \in Uploads, DeleteMirror(u)
    PROVE  Inv'
<1> USE DEF Inv, DeleteMirror, Deleting, Locked, Open, tables, time, calls, Types
<1>1. Types'
  <2>1. Moving'
    BY DEF Moving
  <2> QED
    BY <2>1, SMTT(30) DEF Row, Creating, Sweeps, Idle, Job
<1>2. Swept'
  BY DEF Row, Swept, OutOfReach, Table, Present, Open, NoSweep
<1>3. Calls'
  BY DEF Row, Calls, Open
<1>4. Unhurt'
  BY SMTT(30) DEF Row, Unhurt, Whole, Open, Calls, Swept, OutOfReach, Table, NoSweep
<1>5. Transactions'
  BY DEF Row, Transactions, Replays, Locked, Creating, Idle
<1>6. Inputs'
  BY DEF Row, Inputs, Attached, Settled, Present, InputsNotShared, Job, Calls, Unhurt, Whole, Open
<1> QED
  BY <1>1, <1>2, <1>3, <1>4, <1>5, <1>6

\* The object a deletion removes is not the one of a live input.
LEMMA DeleteObjectStep ==
    ASSUME Inv, NEW u \in Uploads, DeleteObject(u)
    PROVE  Inv'
<1> USE DEF Inv, tables, time, calls, Types
<1>0. /\ stored' \in [Uploads -> {"unsent", "good", "bad", "gone"}]
      /\ \A v \in Uploads \ {u} : stored'[v] = stored[v]
      /\ ~ (stored[u] \in {"unsent", "gone"} /\ stored'[u] \in {"good", "bad"})
      /\ deleting[u] = "object" /\ deleting' = [deleting EXCEPT ![u] = "no"]
      /\ UNCHANGED <<posting, expired, completing, creating, jobs, sweeping, account, legacy, mirror>>
  BY ObjectDeleted DEF DeleteObject, Deleting
<1>a. legacy[u].status \in {"deleted", "attached"}
  BY <1>0 DEF Calls
<1>1. Types'
  BY <1>0 DEF Row, Creating, Sweeps, Idle, Job, Moving
<1>2. Swept'
  BY <1>0 DEF Row, Swept, OutOfReach, Table, Present, Open, NoSweep
<1>3. Calls'
  BY <1>0 DEF Row, Calls, Open
<1>4. Unhurt'
  BY <1>0, <1>a DEF Row, Unhurt, Whole, Open
<1>5. Transactions'
  BY <1>0 DEF Row, Transactions, Replays, Locked, Creating, Idle
<1>6. Inputs'
  BY <1>0 DEF Row, Inputs, Attached, Settled, Present, InputsNotShared, Job, Calls, Unhurt, Whole, Open
<1> QED
  BY <1>1, <1>2, <1>3, <1>4, <1>5, <1>6

\* A call that stops half way leaves what it had written so far.
LEMMA CallStopsStep ==
    ASSUME Inv, NEW u \in Uploads, CallStops(u)
    PROVE  Inv'
<1> USE DEF Inv, tables, time, calls, Types
<1>0. /\ completing' \in [Uploads -> [Completions -> Stages]]
      /\ deleting' \in [Uploads -> {"no", "mirror", "object"}]
      /\ \A v \in Uploads, d \in Completions : completing'[v][d] \in {"no", completing[v][d]}
      /\ \A v \in Uploads : deleting'[v] \in {"no", deleting[v]}
      /\ UNCHANGED <<tables, stored, time, creating, jobs, sweeping, account>>
  <2>1. CASE UNCHANGED deleting /\ \E c \in Completions : completing' = [completing EXCEPT ![u][c] = "no"]
    BY <2>1 DEF CallStops, Moving, Stages
  <2>2. CASE deleting' = [deleting EXCEPT ![u] = "no"] /\ UNCHANGED completing
    BY <2>2 DEF CallStops, Moving, Stages
  <2> QED
    BY <2>1, <2>2 DEF CallStops
<1>1. Types'
  BY <1>0 DEF Row, Creating, Sweeps, Idle, Job, Moving
<1>2. Swept'
  BY <1>0 DEF Row, Swept, OutOfReach, Table, Present, Open, NoSweep
<1>3. Calls'
  <2>1. ASSUME NEW v \in Uploads
        PROVE  /\ deleting'[v] # "no" => legacy'[v].status \in {"deleted", "attached"}
               /\ mirror'[v].status \in {"ready", "attached"} => legacy'[v].status \notin {"none", "pending"}
    BY <1>0 DEF Calls
  <2>2. ASSUME NEW v \in Uploads, NEW d \in Completions
        PROVE  /\ completing'[v][d] # "no" => legacy'[v].status # "none"
               /\ completing'[v][d] = "readied" => legacy'[v].status # "pending"
               /\ completing'[v][d] = "rejectMirror" => legacy'[v].status \in {"deleted", "attached"}
    <3>1. completing'[v][d] \in {"no", completing[v][d]}
      BY <1>0
    <3> QED
      BY <1>0, <3>1 DEF Calls
  <2> QED
    BY <2>1, <2>2 DEF Calls
<1>4. Unhurt'
  BY <1>0 DEF Row, Unhurt, Whole, Open, Calls, Swept, OutOfReach, Table, NoSweep
<1>5. Transactions'
  BY <1>0 DEF Row, Transactions, Replays, Locked, Creating, Idle
<1>6. Inputs'
  <2>1. ASSUME NEW v \in Uploads, Attached(v) PROVE Attached(v)'
    <3>1. Settled(v)'
      BY <1>0, <2>1 DEF Attached, Settled
    <3> QED
      BY <1>0, <2>1, <3>1 DEF Attached, Present
  <2> QED
    BY <1>0, <2>1, InputsKept
<1> QED
  BY <1>1, <1>2, <1>3, <1>4, <1>5, <1>6

\* A signature ends.
LEMMA PostEndsStep ==
    ASSUME Inv, NEW u \in Uploads, PostEnds(u)
    PROVE  Inv'
<1> USE DEF Inv, PostEnds, tables, time, calls, Types
<1>1. Types'
  BY DEF Row, Creating, Sweeps, Idle, Job, Moving
<1>2. Swept'
  BY DEF Row, Swept, OutOfReach, Table, Present, Open, NoSweep
<1>3. Calls'
  BY DEF Row, Calls, Open
<1>4. Unhurt'
  BY DEF Row, Unhurt, Whole, Open, Calls, Swept, OutOfReach, Table, NoSweep
<1>5. Transactions'
  BY DEF Row, Transactions, Replays, Locked, Creating, Idle
<1>6. Inputs'
  BY DEF Row, Inputs, Attached, Settled, Present, InputsNotShared, Job, Calls, Unhurt, Whole, Open
<1> QED
  BY <1>1, <1>2, <1>3, <1>4, <1>5, <1>6

\* Time passes for an upload: its inputs count as live no more unless attached.
LEMMA ExpiresStep ==
    ASSUME Inv, NEW u \in Uploads, Expires(u)
    PROVE  Inv'
<1> USE DEF Inv, Expires, tables, time, calls, Types
<1>1. Types'
  BY DEF Row, Creating, Sweeps, Idle, Job, Moving
<1>2. Swept'
  BY DEF Row, Swept, OutOfReach, Table, Present, Open, NoSweep
<1>3. Calls'
  BY DEF Row, Calls, Open
<1>4. Unhurt'
  BY DEF Row, Unhurt, Whole, Open, Calls, Swept, OutOfReach, Table, NoSweep
<1>5. Transactions'
  BY DEF Row, Transactions, Replays, Locked, Creating, Idle
<1>6. Inputs'
  BY DEF Row, Inputs, Attached, Settled, Present, InputsNotShared, Job, Calls, Unhurt, Whole, Open
<1> QED
  BY <1>1, <1>2, <1>3, <1>4, <1>5, <1>6

\* An account that is purged is not active.
LEMMA PurgeObjectStep ==
    ASSUME Inv, NEW u \in Uploads, PurgeObject(u)
    PROVE  Inv'
<1> USE DEF Inv, tables, time, calls, Types
<1>0. /\ stored' \in [Uploads -> {"unsent", "good", "bad", "gone"}]
      /\ \A v \in Uploads \ {u} : stored'[v] = stored[v]
      /\ stored'[u] \notin {"good", "bad"} /\ account = "removing"
      /\ UNCHANGED <<tables, time, calls, creating, jobs, sweeping, account>>
  BY ObjectDeleted DEF PurgeObject
<1>1. Types'
  BY <1>0 DEF Row, Creating, Sweeps, Idle, Job, Moving
<1>2. Swept'
  BY <1>0 DEF Row, Swept, OutOfReach, Table, Present, Open, NoSweep
<1>3. Calls'
  BY <1>0 DEF Row, Calls, Open
<1>4. Unhurt'
  BY <1>0 DEF Row, Unhurt, Whole, Open, Calls, Swept, OutOfReach, Table, NoSweep
<1>5. Transactions'
  BY <1>0 DEF Row, Transactions, Replays, Locked, Creating, Idle
<1>6. Inputs'
  BY <1>0 DEF Row, Inputs, Attached, Settled, Present, InputsNotShared, Job, Calls, Unhurt, Whole, Open
<1> QED
  BY <1>1, <1>2, <1>3, <1>4, <1>5, <1>6

\* A request holds its key alone.
LEMMA InsertJobStep ==
    ASSUME Inv, NEW r \in Requests, NEW k \in Keys, NEW S \in SUBSET Uploads, InsertJob(r, k, S)
    PROVE  Inv'
<1> USE DEF Inv, tables, time, calls, Types
<1>0. /\ creating'[r] = [pc |-> "inserted", key |-> k, inputs |-> S]
      /\ creating[r] = Idle /\ ~ Replays(k) /\ \A q \in Requests : creating[q].key # k
      /\ \A q \in Requests \ {r} : creating'[q] = creating[q]
      /\ creating' \in [Requests -> Creating]
      /\ UNCHANGED <<tables, stored, time, calls, jobs, sweeping, account>>
  BY DEF InsertJob, InTransaction, Creating
<1>1. Types'
  BY <1>0 DEF Row, Creating, Sweeps, Idle, Job, Moving
<1>2. Swept'
  BY <1>0 DEF Row, Swept, OutOfReach, Table, Present, Open, NoSweep
<1>3. Calls'
  BY <1>0 DEF Row, Calls, Open
<1>4. Unhurt'
  BY <1>0 DEF Row, Unhurt, Whole, Open, Calls, Swept, OutOfReach, Table, NoSweep
<1>5. Transactions'
  <2>1. \A q \in Requests : creating'[q].pc = "locked" =>
           \A v \in creating'[q].inputs : mirror'[v].status = "ready"
    BY <1>0 DEF Transactions, Idle, Creating, Locked
  <2>3. \A q \in Requests : creating'[q].pc # "idle" =>
           creating'[q].key \in Keys /\ \A j \in jobs' : j.key # creating'[q].key
    BY <1>0 DEF Transactions, Replays, Creating, Idle
  <2>4. \A p, q \in Requests : p # q /\ creating'[p].pc # "idle" /\ creating'[q].pc # "idle" =>
           creating'[p].key # creating'[q].key
    BY <1>0, SMTT(30) DEF Transactions, Idle, Creating
  <2>5. \A p, q \in Requests : p # q /\ creating'[p].pc = "locked" /\ creating'[q].pc = "locked" =>
           creating'[p].inputs \cap creating'[q].inputs = {}
    BY <1>0 DEF Transactions, Idle, Locked
  <2> QED
    BY <2>1, <2>3, <2>4, <2>5 DEF Transactions
<1>6. Inputs'
  BY <1>0 DEF Row, Inputs, Attached, Settled, Present, InputsNotShared, Job, Calls, Unhurt, Whole, Open
<1> QED
  BY <1>1, <1>2, <1>3, <1>4, <1>5, <1>6

\* The inputs a transaction locks were ready, and no other transaction has them.
LEMMA LockInputsStep ==
    ASSUME Inv, NEW r \in Requests, LockInputs(r)
    PROVE  Inv'
<1> USE DEF Inv, tables, time, calls, Types
<1>0. /\ creating[r].pc = "inserted" /\ \A u \in creating[r].inputs : ~ Locked(u)
      /\ \/ creating'[r] = Idle
         \/ /\ creating'[r].pc = "locked" /\ creating'[r].key = creating[r].key
            /\ creating'[r].inputs = creating[r].inputs
            /\ \A u \in creating[r].inputs : mirror[u].status = "ready"
      /\ creating'[r].pc # "idle" => creating'[r].key = creating[r].key
      /\ \A q \in Requests \ {r} : creating'[q] = creating[q]
      /\ creating' \in [Requests -> Creating]
      /\ UNCHANGED <<tables, stored, time, calls, jobs, sweeping, account>>
  BY DEF LockInputs, InTransaction, Creating, Attachable, Idle
<1>1. Types'
  BY <1>0 DEF Row, Creating, Sweeps, Idle, Job, Moving
<1>2. Swept'
  BY <1>0 DEF Row, Swept, OutOfReach, Table, Present, Open, NoSweep
<1>3. Calls'
  BY <1>0 DEF Row, Calls, Open
<1>4. Unhurt'
  BY <1>0 DEF Row, Unhurt, Whole, Open, Calls, Swept, OutOfReach, Table, NoSweep
<1>5. Transactions'
  <2>1. \A q \in Requests : creating'[q].pc = "locked" =>
           \A v \in creating'[q].inputs : mirror'[v].status = "ready"
    BY <1>0 DEF Transactions, Idle, Creating, Locked
  <2>3. \A q \in Requests : creating'[q].pc # "idle" =>
           creating'[q].key \in Keys /\ \A j \in jobs' : j.key # creating'[q].key
    BY <1>0 DEF Transactions, Replays, Creating, Idle
  <2>4. \A p, q \in Requests : p # q /\ creating'[p].pc # "idle" /\ creating'[q].pc # "idle" =>
           creating'[p].key # creating'[q].key
    <3>1. \A q \in Requests : creating'[q].pc # "idle" => creating[q].pc # "idle" /\ creating'[q].key = creating[q].key
      BY <1>0 DEF Idle
    <3> QED
      BY <3>1 DEF Transactions
  <2>5. \A p, q \in Requests : p # q /\ creating'[p].pc = "locked" /\ creating'[q].pc = "locked" =>
           creating'[p].inputs \cap creating'[q].inputs = {}
    BY <1>0 DEF Transactions, Idle, Locked
  <2> QED
    BY <2>1, <2>3, <2>4, <2>5 DEF Transactions
<1>6. Inputs'
  BY <1>0 DEF Row, Inputs, Attached, Settled, Present, InputsNotShared, Job, Calls, Unhurt, Whole, Open
<1> QED
  BY <1>1, <1>2, <1>3, <1>4, <1>5, <1>6

\* A transaction that is rolled back lets its key and its inputs go.
LEMMA RollBackStep ==
    ASSUME Inv, NEW r \in Requests, RollBack(r)
    PROVE  Inv'
<1> USE DEF Inv, tables, time, calls, Types
<1>0. /\ creating'[r] = Idle
      /\ \A q \in Requests \ {r} : creating'[q] = creating[q]
      /\ creating' \in [Requests -> Creating]
      /\ UNCHANGED <<tables, stored, time, calls, jobs, sweeping, account>>
  BY DEF RollBack, InTransaction, Creating, Idle
<1>1. Types'
  BY <1>0 DEF Row, Creating, Sweeps, Idle, Job, Moving
<1>2. Swept'
  BY <1>0 DEF Row, Swept, OutOfReach, Table, Present, Open, NoSweep
<1>3. Calls'
  BY <1>0 DEF Row, Calls, Open
<1>4. Unhurt'
  BY <1>0 DEF Row, Unhurt, Whole, Open, Calls, Swept, OutOfReach, Table, NoSweep
<1>5. Transactions'
  <2>1. \A q \in Requests : creating'[q].pc = "locked" =>
           \A v \in creating'[q].inputs : mirror'[v].status = "ready"
    BY <1>0 DEF Transactions, Idle, Creating, Locked
  <2>3. \A q \in Requests : creating'[q].pc # "idle" =>
           creating'[q].key \in Keys /\ \A j \in jobs' : j.key # creating'[q].key
    BY <1>0 DEF Transactions, Replays, Creating, Idle
  <2>4. \A p, q \in Requests : p # q /\ creating'[p].pc # "idle" /\ creating'[q].pc # "idle" =>
           creating'[p].key # creating'[q].key
    BY <1>0 DEF Transactions, Idle, Creating
  <2>5. \A p, q \in Requests : p # q /\ creating'[p].pc = "locked" /\ creating'[q].pc = "locked" =>
           creating'[p].inputs \cap creating'[q].inputs = {}
    BY <1>0 DEF Transactions, Idle, Locked
  <2> QED
    BY <2>1, <2>3, <2>4, <2>5 DEF Transactions
<1>6. Inputs'
  BY <1>0 DEF Row, Inputs, Attached, Settled, Present, InputsNotShared, Job, Calls, Unhurt, Whole, Open
<1> QED
  BY <1>1, <1>2, <1>3, <1>4, <1>5, <1>6

\* Deleting an account deletes the legacy rows and ends what was promised of live inputs.
LEMMA DeleteUserStep ==
    ASSUME Inv, deleteUser
    PROVE  Inv'
<1> USE DEF Inv, tables, time, calls, Types
<1>a. /\ legacy \in [Uploads -> Row] /\ Absent \in Row /\ Absent.status = "none" /\ Absent.purged = FALSE
      /\ \A row \in Row : /\ [row EXCEPT !.status = "deleted"] \in Row
                           /\ [row EXCEPT !.status = "deleted"].status = "deleted"
                           /\ [row EXCEPT !.status = "deleted"].purged = row.purged
  BY DEF Row, Absent
<1>b. /\ legacy' = [u \in Uploads |-> IF legacy[u] = Absent THEN Absent
                                      ELSE [legacy[u] EXCEPT !.status = "deleted"]]
      /\ account' = "waiting"
      /\ UNCHANGED <<mirror, stored, time, calls, creating, jobs, sweeping>>
  BY DEF deleteUser
<1>0. /\ legacy' \in [Uploads -> Row] /\ account' = "waiting"
      /\ \A u \in Uploads : \/ legacy'[u] = legacy[u] /\ legacy[u] = Absent
                            \/ legacy[u] # Absent /\ legacy'[u].status = "deleted"
                               /\ legacy'[u].purged = legacy[u].purged
      /\ UNCHANGED <<mirror, stored, time, calls, creating, jobs, sweeping>>
  <2>1. \A u \in Uploads : legacy[u] \in Row
    BY <1>a
  <2> HIDE DEF Absent, Row
  <2> QED
    BY <1>a, <1>b, <2>1
<1>1. Types'
  BY <1>0 DEF Row, Creating, Sweeps, Idle, Job, Moving
<1>2. Swept'
  BY <1>0 DEF Row, Swept, OutOfReach, Table, Present, Open, NoSweep
<1>3. Calls'
  BY <1>0 DEF Row, Calls, Open
<1>4. Unhurt'
  BY <1>0 DEF Row, Unhurt, Whole, Open, Calls, Swept, OutOfReach, Table, NoSweep
<1>5. Transactions'
  BY <1>0 DEF Row, Transactions, Replays, Locked, Creating, Idle
<1>6. Inputs'
  BY <1>0 DEF Row, Inputs, Attached, Settled, Present, InputsNotShared, Job, Calls, Unhurt, Whole, Open
<1> QED
  BY <1>1, <1>2, <1>3, <1>4, <1>5, <1>6

\* The worker takes up the deletion.
LEMMA PurgeAccountStep ==
    ASSUME Inv, PurgeAccount
    PROVE  Inv'
<1> USE DEF Inv, PurgeAccount, tables, time, calls, Types
<1>1. Types'
  BY DEF Row, Creating, Sweeps, Idle, Job, Moving
<1>2. Swept'
  BY DEF Row, Swept, OutOfReach, Table, Present, Open, NoSweep
<1>3. Calls'
  BY DEF Row, Calls, Open
<1>4. Unhurt'
  BY DEF Row, Unhurt, Whole, Open, Calls, Swept, OutOfReach, Table, NoSweep
<1>5. Transactions'
  BY DEF Row, Transactions, Replays, Locked, Creating, Idle
<1>6. Inputs'
  BY DEF Row, Inputs, Attached, Settled, Present, InputsNotShared, Job, Calls, Unhurt, Whole, Open
<1> QED
  BY <1>1, <1>2, <1>3, <1>4, <1>5, <1>6

\* The purge is given up, to be tried again.
LEMMA PurgeAbortsStep ==
    ASSUME Inv, PurgeAborts
    PROVE  Inv'
<1> USE DEF Inv, PurgeAborts, tables, time, calls, Types
<1>1. Types'
  BY DEF Row, Creating, Sweeps, Idle, Job, Moving
<1>2. Swept'
  BY DEF Row, Swept, OutOfReach, Table, Present, Open, NoSweep
<1>3. Calls'
  BY DEF Row, Calls, Open
<1>4. Unhurt'
  BY DEF Row, Unhurt, Whole, Open, Calls, Swept, OutOfReach, Table, NoSweep
<1>5. Transactions'
  BY DEF Row, Transactions, Replays, Locked, Creating, Idle
<1>6. Inputs'
  BY DEF Row, Inputs, Attached, Settled, Present, InputsNotShared, Job, Calls, Unhurt, Whole, Open
<1> QED
  BY <1>1, <1>2, <1>3, <1>4, <1>5, <1>6

\* An expired row that is neither attached nor deleted is taken by a sweep.
LEMMA SelectExpiredStep ==
    ASSUME Inv, NEW t \in Tables, NEW u \in Uploads, SelectExpired(t, u)
    PROVE  Inv'
<1> USE DEF Inv, SelectExpired, Sweeping, Table, NoSweep, Tables, Open, tables, time, calls, Types
<1>1. Types'
  BY DEF Row, Creating, Sweeps, Idle, Job, Moving
<1>2. Swept'
  BY DEF Row, Swept, OutOfReach, Table, Present, Open, NoSweep
<1>3. Calls'
  BY DEF Row, Calls, Open
<1>4. Unhurt'
  BY DEF Row, Unhurt, Whole, Open, Calls, Swept, OutOfReach, Table, NoSweep
<1>5. Transactions'
  BY DEF Row, Transactions, Replays, Locked, Creating, Idle
<1>6. Inputs'
  BY DEF Row, Inputs, Attached, Settled, Present, InputsNotShared, Job, Calls, Unhurt, Whole, Open
<1> QED
  BY <1>1, <1>2, <1>3, <1>4, <1>5, <1>6

\* A deleted row is taken once its signature has ended.
LEMMA SelectSoftDeletedStep ==
    ASSUME Inv, NEW t \in Tables, NEW u \in Uploads, SelectSoftDeleted(t, u)
    PROVE  Inv'
<1> USE DEF Inv, SelectSoftDeleted, Sweeping, Table, NoSweep, Tables, tables, time, calls, Types
<1>1. Types'
  BY DEF Row, Creating, Sweeps, Idle, Job, Moving
<1>2. Swept'
  BY DEF Row, Swept, OutOfReach, Table, Present, Open, NoSweep
<1>3. Calls'
  BY DEF Row, Calls, Open
<1>4. Unhurt'
  BY DEF Row, Unhurt, Whole, Open, Calls, Swept, OutOfReach, Table, NoSweep
<1>5. Transactions'
  BY DEF Row, Transactions, Replays, Locked, Creating, Idle
<1>6. Inputs'
  BY DEF Row, Inputs, Attached, Settled, Present, InputsNotShared, Job, Calls, Unhurt, Whole, Open
<1> QED
  BY <1>1, <1>2, <1>3, <1>4, <1>5, <1>6

\* A sweep that stops selects the row again later.
LEMMA SweepStopsStep ==
    ASSUME Inv, NEW t \in Tables, NEW u \in Uploads, SweepStops(t, u)
    PROVE  Inv'
<1> USE DEF Inv, SweepStops, Sweeping, NoSweep, Tables, tables, time, calls, Types
<1>1. Types'
  BY DEF Row, Creating, Sweeps, Idle, Job, Moving
<1>2. Swept'
  BY DEF Row, Swept, OutOfReach, Table, Present, Open, NoSweep
<1>3. Calls'
  BY DEF Row, Calls, Open
<1>4. Unhurt'
  BY DEF Row, Unhurt, Whole, Open, Calls, Swept, OutOfReach, Table, NoSweep
<1>5. Transactions'
  BY DEF Row, Transactions, Replays, Locked, Creating, Idle
<1>6. Inputs'
  BY DEF Row, Inputs, Attached, Settled, Present, InputsNotShared, Job, Calls, Unhurt, Whole, Open
<1> QED
  BY <1>1, <1>2, <1>3, <1>4, <1>5, <1>6

\* A sweep removes an object only when its row was out of use when it was selected.
LEMMA RemoveSweptStep ==
    ASSUME Inv, NEW t \in Tables, NEW u \in Uploads, RemoveSwept(t, u)
    PROVE  Inv'
<1> USE DEF Inv, Tables, NoSweep, tables, time, calls, Types
<1>a. PICK s \in {"expiredRemoved", "softDeletedRemoved"} :
         Sweeping(t, u, s) /\ sweeping[t][u] # NoSweep /\ stored' = WithoutObject(u) /\ UNCHANGED tables
  BY DEF RemoveSwept
<1>0. /\ sweeping[t][u] # NoSweep /\ sweeping'[t][u] # NoSweep
      /\ sweeping' \in [Tables -> [Uploads -> Sweeps]]
      /\ \A x \in Tables, v \in Uploads : x # t \/ v # u => sweeping'[x][v] = sweeping[x][v]
      /\ stored' \in [Uploads -> {"unsent", "good", "bad", "gone"}]
      /\ \A v \in Uploads \ {u} : stored'[v] = stored[v]
      /\ stored'[u] \notin {"good", "bad"}
      /\ UNCHANGED <<tables, time, calls, creating, jobs, account>>
  BY <1>a, ObjectDeleted, SweepWritten DEF Sweeps
<1>1. Types'
  BY <1>0 DEF Row, Creating, Sweeps, Idle, Job, Moving
<1>2. Swept'
  BY <1>0 DEF Row, Swept, OutOfReach, Table, Present, Open, NoSweep
<1>3. Calls'
  BY <1>0 DEF Row, Calls, Open
<1>4. Unhurt'
  BY <1>0 DEF Row, Unhurt, Whole, Open, Calls, Swept, OutOfReach, Table, NoSweep
<1>5. Transactions'
  BY <1>0 DEF Row, Transactions, Replays, Locked, Creating, Idle
<1>6. Inputs'
  BY <1>0 DEF Row, Inputs, Attached, Settled, Present, InputsNotShared, Job, Calls, Unhurt, Whole, Open
<1> QED
  BY <1>1, <1>2, <1>3, <1>4, <1>5, <1>6

\* What a sweep writes keeps a row a row, and touches no other one.
LEMMA PurgeWritten ==
    ASSUME NEW table \in [Uploads -> Row], NEW u \in Uploads, NEW s
    PROVE  /\ [table EXCEPT ![u] = Purged(@, s)] \in [Uploads -> Row]
           /\ [table EXCEPT ![u] = Purged(@, s)][u].status \in {table[u].status, "deleted"}
           /\ \A v \in Uploads \ {u} : [table EXCEPT ![u] = Purged(@, s)][v] = table[v]
<1>1. Purged(table[u], s) \in Row /\ Purged(table[u], s).status \in {table[u].status, "deleted"}
  <2>1. table[u] \in Row
    OBVIOUS
  <2>2. CASE s = "expiredRemoved"
    BY <2>1, <2>2 DEF Purged, Row
  <2>3. CASE s # "expiredRemoved"
    BY <2>1, <2>3 DEF Purged, Row
  <2> QED
    BY <2>2, <2>3
<1> QED
  BY <1>1

\* A row is written as purged when its object is gone for good.
LEMMA WritePurgedStep ==
    ASSUME Inv, NEW t \in Tables, NEW u \in Uploads, WritePurged(t, u)
    PROVE  Inv'
<1> USE DEF Inv, Tables, NoSweep, tables, time, calls, Types
<1>0. /\ sweeping[t][u] \in {"expiredRemoved", "softDeletedRemoved"} /\ sweeping'[t][u] = NoSweep
      /\ sweeping' \in [Tables -> [Uploads -> Sweeps]]
      /\ \A x \in Tables, v \in Uploads : x # t \/ v # u => sweeping'[x][v] = sweeping[x][v]
      /\ UNCHANGED <<stored, time, calls, creating, jobs, account>>
  BY SweepWritten DEF WritePurged, Sweeps
<1>a. /\ legacy' \in [Uploads -> Row] /\ mirror' \in [Uploads -> Row]
      /\ \A v \in Uploads \ {u} : legacy'[v] = legacy[v] /\ mirror'[v] = mirror[v]
      /\ t = "legacy" => mirror' = mirror
      /\ t = "mirror" => legacy' = legacy /\ ~ Locked(u)
  BY PurgeWritten DEF WritePurged
<1>b. /\ t = "legacy" => legacy'[u].status \in {legacy[u].status, "deleted"}
      /\ t = "mirror" => mirror'[u].status \in {mirror[u].status, "deleted"}
  BY PurgeWritten DEF WritePurged
<1>1. Types'
  BY <1>0, <1>a, <1>b DEF Row, Creating, Sweeps, Idle, Job, Moving
<1>2. Swept'
  <2>1. ASSUME NEW v \in Uploads PROVE OutOfReach("legacy", v)'
    BY <1>0, <1>a, <1>b DEF Swept, OutOfReach, Table, Present, NoSweep
  <2>2. ASSUME NEW v \in Uploads PROVE OutOfReach("mirror", v)'
    BY <1>0, <1>a, <1>b DEF Swept, OutOfReach, Table, Present, NoSweep
  <2>3. \A v \in expired' : v \notin posting' /\ mirror'[v].status # "none"
    BY <1>0, <1>a, <1>b DEF Swept
  <2> QED
    BY <2>1, <2>2, <2>3 DEF Swept
<1>3. Calls'
  <2>1. ASSUME NEW v \in Uploads
        PROVE  /\ deleting'[v] # "no" => legacy'[v].status \in {"deleted", "attached"}
               /\ mirror'[v].status \in {"ready", "attached"} => legacy'[v].status \notin {"none", "pending"}
    BY <1>0, <1>a, <1>b DEF Calls
  <2>2. ASSUME NEW v \in Uploads, NEW d \in Completions
        PROVE  /\ completing'[v][d] # "no" => legacy'[v].status # "none"
               /\ completing'[v][d] = "readied" => legacy'[v].status # "pending"
               /\ completing'[v][d] = "rejectMirror" => legacy'[v].status \in {"deleted", "attached"}
    <3>1. legacy'[v].status \in {legacy[v].status, "deleted"} /\ completing' = completing
      BY <1>0, <1>a, <1>b
    <3> QED
      BY <3>1 DEF Calls
  <2> QED
    BY <2>1, <2>2 DEF Calls
<1>4. Unhurt'
  BY <1>0, <1>a, <1>b DEF Row, Unhurt, Whole, Open, Calls, Swept, OutOfReach, Table, NoSweep
<1>5. Transactions'
  <2>1. \A q \in Requests : creating'[q].pc = "locked" =>
           \A v \in creating'[q].inputs : mirror'[v].status = "ready"
    BY <1>0, <1>a, <1>b DEF Transactions, Idle, Creating, Locked
  <2>3. \A q \in Requests : creating'[q].pc # "idle" =>
           creating'[q].key \in Keys /\ \A j \in jobs' : j.key # creating'[q].key
    BY <1>0, <1>a, <1>b DEF Transactions, Replays, Creating, Idle
  <2>4. \A p, q \in Requests : p # q /\ creating'[p].pc # "idle" /\ creating'[q].pc # "idle" =>
           creating'[p].key # creating'[q].key
    BY <1>0, <1>a, <1>b DEF Transactions, Idle, Creating
  <2>5. \A p, q \in Requests : p # q /\ creating'[p].pc = "locked" /\ creating'[q].pc = "locked" =>
           creating'[p].inputs \cap creating'[q].inputs = {}
    BY <1>0, <1>a, <1>b DEF Transactions, Idle, Locked
  <2> QED
    BY <2>1, <2>3, <2>4, <2>5 DEF Transactions
<1>6. Inputs'
  <2>1. \A j \in jobs' : \A v \in j.inputs : mirror'[v].status \in {"attached", "deleted"}
    BY <1>0, <1>a, <1>b DEF Inputs, Job
  <2>2. ASSUME account = "active", NEW j \in jobs, NEW v \in j.live PROVE Attached(v)'
    <3>1. Attached(v) /\ v \in Uploads
      BY <2>2 DEF Inputs, Job
    <3> QED
      BY <1>0, <1>a, <1>b, <3>1 DEF Attached, Settled, Present
  <2>3. InputsNotShared'
    BY <1>0, <1>a, <1>b DEF Inputs, InputsNotShared
  <2> QED
    BY <1>0, <1>a, <1>b, <2>1, <2>2, <2>3 DEF Inputs
<1> QED
  BY <1>1, <1>2, <1>3, <1>4, <1>5, <1>6

\* Both tables after a commit (CommitJob).
AttachedRows(table, S) == [u \in Uploads |-> IF u \in S /\ table[u].status # "none"
                                               THEN [table[u] EXCEPT !.status = "attached"]
                                               ELSE table[u]]

\* The inputs' rows become attached, the others stay.
LEMMA RowsAttached ==
    ASSUME NEW table \in [Uploads -> Row], NEW S \in SUBSET Uploads
    PROVE  /\ AttachedRows(table, S) \in [Uploads -> Row]
           /\ \A u \in Uploads \ S : AttachedRows(table, S)[u] = table[u]
           /\ \A u \in S : table[u].status # "none" =>
                  /\ AttachedRows(table, S)[u].status = "attached"
                  /\ AttachedRows(table, S)[u].purged = table[u].purged
<1>1. \A u \in Uploads : table[u] \in Row
  OBVIOUS
<1>2. \A row \in Row : /\ [row EXCEPT !.status = "attached"] \in Row
                       /\ [row EXCEPT !.status = "attached"].status = "attached"
                       /\ [row EXCEPT !.status = "attached"].purged = row.purged
  BY DEF Row
<1> QED
  BY <1>1, <1>2 DEF AttachedRows

\* The inputs of a committed job were ready: those that were live are attached for good.
LEMMA CommitJobStep ==
    ASSUME Inv, NEW r \in Requests, CommitJob(r)
    PROVE  Inv'
<1> USE DEF Inv, tables, time, calls, Types
<1> DEFINE S == creating[r].inputs
           live == {u \in S : legacy[u].status = "ready" /\ u \notin expired /\ Present(u) /\ Settled(u)}
           job == [key |-> creating[r].key, inputs |-> S, live |-> live]
<1>a. /\ creating[r].pc = "locked" /\ creating' = [creating EXCEPT ![r] = Idle]
      /\ mirror' = AttachedRows(mirror, S) /\ legacy' = AttachedRows(legacy, S)
      /\ jobs' = jobs \cup {job}
      /\ UNCHANGED <<stored, time, calls, sweeping, account>>
  BY DEF CommitJob, AttachedRows
<1>b. S \in SUBSET Uploads /\ creating[r].key \in Keys /\ creating' \in [Requests -> Creating]
  BY <1>a DEF Creating, Idle, Transactions
<1>c. \A u \in S : mirror[u].status = "ready" /\ legacy[u].status # "none"
  BY <1>a, <1>b DEF Transactions, Calls
<1>d. job \in Job /\ job.inputs = S /\ job.live = live /\ job.key = creating[r].key
  BY <1>b DEF Job
<1> HIDE DEF job
<1>0. /\ creating[r].pc = "locked" /\ creating' = [creating EXCEPT ![r] = Idle]
      /\ legacy' \in [Uploads -> Row] /\ mirror' \in [Uploads -> Row]
      /\ \A u \in Uploads \ S : legacy'[u] = legacy[u] /\ mirror'[u] = mirror[u]
      /\ \A u \in S : /\ mirror[u].status = "ready" /\ mirror'[u].status = "attached"
                      /\ legacy[u].status # "none" /\ legacy'[u].status = "attached"
                      /\ legacy'[u].purged = legacy[u].purged
                      /\ mirror'[u].purged = mirror[u].purged
      /\ jobs' = jobs \cup {job} /\ job \in Job /\ job.inputs = S /\ job.live = live
      /\ job.key = creating[r].key
      /\ S \subseteq Uploads /\ creating' \in [Requests -> Creating]
      /\ UNCHANGED <<stored, time, calls, sweeping, account>>
  BY <1>a, <1>b, <1>c, <1>d, RowsAttached
<1>1. Types'
  BY <1>0 DEF Row, Creating, Sweeps, Idle, Job, Moving
<1>2. Swept'
  <2>1. ASSUME NEW v \in Uploads PROVE OutOfReach("legacy", v)'
    BY <1>0 DEF Swept, OutOfReach, Table, Present, NoSweep
  <2>2. ASSUME NEW v \in Uploads PROVE OutOfReach("mirror", v)'
    BY <1>0 DEF Swept, OutOfReach, Table, Present, NoSweep
  <2>3. \A v \in expired' : v \notin posting' /\ mirror'[v].status # "none"
    BY <1>0 DEF Swept
  <2> QED
    BY <2>1, <2>2, <2>3 DEF Swept
<1>3. Calls'
  BY <1>0 DEF Row, Calls, Open
<1>4. Unhurt'
  BY <1>0 DEF Row, Unhurt, Whole, Open, Calls, Swept, OutOfReach, Table, NoSweep
<1>5. Transactions'
  <2>1. \A q \in Requests : creating'[q].pc = "locked" =>
           \A v \in creating'[q].inputs : mirror'[v].status = "ready"
    BY <1>0 DEF Transactions, Idle, Creating, Locked
  <2>3. \A q \in Requests : creating'[q].pc # "idle" =>
           creating'[q].key \in Keys /\ \A j \in jobs' : j.key # creating'[q].key
    BY <1>0 DEF Transactions, Replays, Creating, Idle
  <2>4. \A p, q \in Requests : p # q /\ creating'[p].pc # "idle" /\ creating'[q].pc # "idle" =>
           creating'[p].key # creating'[q].key
    BY <1>0 DEF Transactions, Idle, Creating
  <2>5. \A p, q \in Requests : p # q /\ creating'[p].pc = "locked" /\ creating'[q].pc = "locked" =>
           creating'[p].inputs \cap creating'[q].inputs = {}
    BY <1>0 DEF Transactions, Idle, Locked
  <2> QED
    BY <2>1, <2>3, <2>4, <2>5 DEF Transactions
<1>6. Inputs'
  <2>1. \A j \in jobs' : \A v \in j.inputs : mirror'[v].status \in {"attached", "deleted"}
    BY <1>0 DEF Inputs, Job
  <2>2. ASSUME account = "active", NEW j \in jobs, NEW v \in j.live PROVE Attached(v)'
    <3>1. Attached(v) /\ v \in Uploads
      BY <2>2 DEF Inputs, Job
    <3>2. v \notin S
      BY <1>0, <3>1 DEF Attached, Settled, Present
    <3> QED
      BY <1>0, <3>1, <3>2 DEF Attached, Settled, Present
  <2>3. ASSUME account = "active", NEW v \in live PROVE Attached(v)'
    <3>1. /\ v \in S /\ v \in Uploads /\ Whole(v) /\ legacy[v].status = "ready" /\ mirror[v].status = "ready"
      BY <1>0, <2>3 DEF Whole, Open
    <3>2. /\ Present(v) /\ sweeping["legacy"][v] = NoSweep /\ sweeping["mirror"][v] = NoSweep
          /\ Settled(v) /\ deleting[v] = "no"
      BY <2>3, <3>1 DEF Unhurt, Calls
    <3> QED
      BY <1>0, <3>1, <3>2 DEF Attached, Settled, Present
  <2>4. ASSUME NEW j \in jobs PROVE j.key # job.key /\ j.inputs \cap job.inputs = {}
    <3>1. j.key # job.key
      BY <1>0 DEF Transactions
    <3>2. ASSUME NEW v \in j.inputs PROVE v \notin S
      <4>1. mirror[v].status \in {"attached", "deleted"}
        BY DEF Inputs
      <4> QED
        BY <1>0, <4>1
    <3> QED
      BY <1>0, <3>1, <3>2
  <2>5. InputsNotShared'
    BY <1>0, <2>4 DEF Inputs, InputsNotShared
  <2> QED
    BY <1>0, <2>1, <2>2, <2>3, <2>5 DEF Inputs
<1> QED
  BY <1>1, <1>2, <1>3, <1>4, <1>5, <1>6

-----------------------------------------------------------------------------
(* The theorems                                                              *)

\* Nothing is under way at the start.
LEMMA UploadsInit == Init => Inv
<1> SUFFICES ASSUME Init PROVE Inv
  OBVIOUS
<1>1. Types
  BY DEF Init, Types, Moving, Stages, Row, Absent, Creating, Idle, Tables, Sweeps, NoSweep, Job
<1>a. /\ posting = {} /\ expired = {}
      /\ \A u \in Uploads : /\ legacy[u].status = "none" /\ mirror[u].status = "none"
                            /\ ~ legacy[u].purged /\ ~ mirror[u].purged
                            /\ deleting[u] = "no"
                            /\ \A c \in Completions : completing[u][c] = "no"
                            /\ sweeping["legacy"][u] = NoSweep /\ sweeping["mirror"][u] = NoSweep
  BY DEF Init, Absent, Tables
<1>2. Swept
  <2>1. ASSUME NEW u \in Uploads PROVE OutOfReach("legacy", u)
    BY <1>a DEF OutOfReach, Table, NoSweep
  <2>2. ASSUME NEW u \in Uploads PROVE OutOfReach("mirror", u)
    BY <1>a DEF OutOfReach, Table, NoSweep
  <2> QED
    BY <1>a, <2>1, <2>2 DEF Swept
<1>4. Calls
  BY <1>a DEF Calls
<1>3. Unhurt /\ Transactions /\ Inputs
  BY DEF Init, Unhurt, Whole, Open, Transactions, Inputs, InputsNotShared, Absent, Idle
<1> QED
  BY <1>1, <1>2, <1>3, <1>4 DEF Inv

\* No step leaves the invariant.
LEMMA UploadsStep ==
    ASSUME Inv, [Next]_vars
    PROVE  Inv'
<1>1. CASE \E u \in Uploads : Upload(u) \/ Delete(u) \/ CallStops(u)
  BY <1>1, CreateGenerationUploadStep, SigningFailsStep, PostStep,
     DeleteLegacyStep, DeleteMirrorStep, DeleteObjectStep, CallStopsStep DEF Upload, Delete
<1>7. CASE \E u \in Uploads, c \in Completions : Complete(u, c)
  BY <1>7, ReadUploadStep, InspectBytesStep, SetLegacyReadyStep, SetMirrorReadyStep,
     RejectObjectStep, RejectLegacyStep, RejectMirrorStep DEF Complete
<1>2. CASE \E r \in Requests : CreateJob(r)
  BY <1>2, InsertJobStep, LockInputsStep, CommitJobStep, RollBackStep DEF CreateJob
<1>3. CASE \E t \in Tables, u \in Uploads : Sweep(t, u)
  BY <1>3, SelectExpiredStep, SelectSoftDeletedStep, RemoveSweptStep, WritePurgedStep, SweepStopsStep
     DEF Sweep
<1>4. CASE \E u \in Uploads : PostEnds(u) \/ Expires(u) \/ PurgeObject(u)
  BY <1>4, PostEndsStep, ExpiresStep, PurgeObjectStep
<1>5. CASE deleteUser \/ PurgeAccount \/ PurgeAborts
  BY <1>5, DeleteUserStep, PurgeAccountStep, PurgeAbortsStep
<1>6. CASE UNCHANGED vars
  <2> USE <1>6 DEF vars, tables, time, calls, Inv
  <2>1. Types' /\ Swept' /\ Calls' /\ Unhurt'
    BY DEF Types, Moving, Swept, OutOfReach, Table, Present, Calls, Unhurt, Whole, Open
  <2>2. Transactions' /\ Inputs'
    BY DEF Transactions, Inputs, Attached, Settled, Present, InputsNotShared
  <2> QED
    BY <2>1, <2>2
<1> QED
  BY <1>1, <1>2, <1>3, <1>4, <1>5, <1>6, <1>7 DEF Next

\* It holds in every state.
LEMMA UploadsInvariant == Spec => []Inv
<1> QED
  BY UploadsInit, UploadsStep, PTL DEF Spec

\* Whatever POSTs, completions, deletions, sweeps and other transactions are or come under
\* way: the object of an input that was whole when its job was committed - there, not deleted
\* or expired, and with no completion that may still reject it - is never deleted, no second
\* job gets that input, and an idempotency key names one job.
THEOREM InputsStayProtected == Spec => []InputsProtected
<1>1. Inv => InputsProtected
  BY DEF Inv, Inputs, Attached, InputsProtected, LiveInputsKept
<1> QED
  BY <1>1, UploadsInvariant, PTL

\* An object is never left behind both rows that name it: a purged row's object is gone, and
\* nobody can post it again.
THEOREM ObjectsStayNamed == Spec => []NoForgottenObject
<1>1. Inv => NoForgottenObject
  BY DEF Inv, Swept, OutOfReach, Table, NoForgottenObject
<1> QED
  BY <1>1, UploadsInvariant, PTL
=============================================================================
