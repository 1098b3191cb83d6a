---------------------------- MODULE EventDelivery ----------------------------
(***************************************************************************)
(* The transactional outbox and the Redis stream between the API and the    *)
(* workers: dispatchOutbox publishes the committed events, consume reads     *)
(* them in batches, claimStalePending takes over what a dead worker left.    *)
(*                                                                          *)
(* A message is named by its position in the stream.  What processing an    *)
(* event does is GenerationJob's subject; here processJob returns or throws. *)
(***************************************************************************)
EXTENDS Naturals, Sequences, Functions, FiniteSets

CONSTANTS
    Events,      \* outbox_events
    Consumers,   \* worker processes
    Dispatchers, \* those whose maintenance tick dispatches: a subset bounds the model
    BatchSize,   \* COUNT of XREADGROUP and XAUTOCLAIM
    MaxFaults    \* bound on crashes, refused XADDs and updates, thrown jobs

ASSUME BatchAssumption == BatchSize \in Nat \ {0} /\ MaxFaults \in Nat

VARIABLES
    rows,        \* outbox_events: absent, new, or with dispatched_at
    stream,      \* muse:generation, the event of every message
    delivered,   \* how many messages the group has handed out
    pending,     \* the group's pending entries: delivered, not acknowledged
    quiet,       \* pending messages idle for STALE_PENDING_IDLE_MS
    beating,     \* messages whose heartbeat key exists
    publishing,  \* per worker: the rows its dispatchOutbox selected
    loop,        \* per worker: where its consume loop is
    handled,     \* events whose processJob has returned
    faults

vars == <<rows, stream, delivered, pending, quiet, beating, publishing, loop,
          handled, faults>>

Messages == 1 .. Len(stream)
Publishing == [todo : SUBSET Events, added : SUBSET Events]
Loop == [ at : {"claim", "check", "stale", "read", "new"},
          claimed : Seq(Messages), batch : Seq(Messages),
          run : {"no", "yes", "returned"} ]

Fresh == [at |-> "claim", claimed |-> <<>>, batch |-> <<>>, run |-> "no"]
NotPublishing == [todo |-> {}, added |-> {}]

\* Every variable has the shape the code gives it.
TypeOK ==
    /\ rows \in [Events -> {"none", "new", "dispatched"}]
    /\ stream \in Seq(Events)
    /\ delivered \in 0 .. Len(stream)
    /\ pending \subseteq 1 .. delivered
    /\ quiet \subseteq pending
    /\ beating \subseteq 1 .. delivered
    /\ publishing \in [Dispatchers -> Publishing]
    /\ loop \in [Consumers -> Loop]
    /\ handled \subseteq Events
    /\ faults \in 0 .. MaxFaults

Init ==
    /\ rows = [e \in Events |-> "none"]
    /\ stream = <<>>
    /\ delivered = 0
    /\ pending = {}
    /\ quiet = {}
    /\ beating = {}
    /\ publishing = [w \in Dispatchers |-> NotPublishing]
    /\ loop = [w \in Consumers |-> Fresh]
    /\ handled = {}
    /\ faults = 0

Fault == faults < MaxFaults /\ faults' = faults + 1

\* The messages XAUTOCLAIM returns of a set: the first BatchSize of them, in stream order.
Oldest(claimed, S) ==
    /\ \A i, j \in DOMAIN claimed : i < j => claimed[i] < claimed[j]
    /\ \A m \in S \ Range(claimed) :
           Len(claimed) = BatchSize /\ \A i \in DOMAIN claimed : claimed[i] < m

\* The messages XREADGROUP returns: the next ones of the stream, BatchSize at most.
Unread ==
    LET left == Len(stream) - delivered
    IN [i \in 1 .. (IF left < BatchSize THEN left ELSE BatchSize) |-> delivered + i]
-----------------------------------------------------------------------------
\* A transaction of the API or of a worker commits and its event with it.
Committed(e) ==
    /\ rows[e] = "none"
    /\ rows' = [rows EXCEPT ![e] = "new"]
    /\ UNCHANGED <<stream, delivered, pending, quiet, beating, publishing, loop, handled, faults>>

\* SELECT ... FOR UPDATE SKIP LOCKED outside a transaction: the locks end with the
\* statement, so the rows selected are not reserved.  The loop may take them in any order.
SelectDue(w) ==
    /\ publishing[w].todo = {}
    /\ \E e \in Events : rows[e] = "new"
    /\ publishing' = [publishing EXCEPT ![w].todo = {e \in Events : rows[e] = "new"}]
    /\ UNCHANGED <<rows, stream, delivered, pending, quiet, beating, loop, handled, faults>>

AddToStream(w, e) ==
    /\ e \in publishing[w].todo
    /\ publishing[w].added = {}
    /\ stream' = Append(stream, e)
    /\ publishing' = [publishing EXCEPT ![w].added = {e}]
    /\ UNCHANGED <<rows, delivered, pending, quiet, beating, loop, handled, faults>>

MarkDispatched(w, e) ==
    /\ e \in publishing[w].added
    /\ rows' = [rows EXCEPT ![e] = "dispatched"]
    /\ publishing' = [publishing EXCEPT ![w] = [todo |-> @.todo \ {e}, added |-> {}]]
    /\ UNCHANGED <<stream, delivered, pending, quiet, beating, loop, handled, faults>>

\* XADD, or the UPDATE after it, throws: attempts grows, dispatched_at stays NULL.
PublishFails(w, e) ==
    /\ Fault
    /\ e \in publishing[w].todo
    /\ publishing[w].added \subseteq {e}
    /\ publishing' = [publishing EXCEPT ![w] = [todo |-> @.todo \ {e}, added |-> {}]]
    /\ UNCHANGED <<rows, stream, delivered, pending, quiet, beating, loop, handled>>
-----------------------------------------------------------------------------
\* XAUTOCLAIM: idle pending messages change hands and are no longer idle.
ClaimStale(w) ==
    /\ loop[w].at = "claim"
    /\ \E n \in 0 .. BatchSize : \E claimed \in [1 .. n -> quiet] :
         /\ Oldest(claimed, quiet)
         /\ quiet' = quiet \ Range(claimed)
         /\ loop' = [loop EXCEPT ![w].claimed = claimed,
                                 ![w].at = IF claimed = <<>> THEN "read" ELSE "check"]
    /\ UNCHANGED <<rows, stream, delivered, pending, beating, publishing, handled, faults>>

\* EXISTS of the next claimed message's heartbeat: a live owner keeps it, others are run.
CheckHeartbeat(w) ==
    /\ loop[w].at = "check"
    /\ LET m == Head(loop[w].claimed)
           rest == Tail(loop[w].claimed)
           mine == IF m \in beating THEN loop[w].batch ELSE Append(loop[w].batch, m)
       IN loop' = [loop EXCEPT ![w].claimed = rest, ![w].batch = mine,
                       ![w].at = CASE rest # <<>> -> "check"
                                   [] rest = <<>> /\ mine = <<>> -> "read"
                                   [] OTHER -> "stale"]
    /\ UNCHANGED <<rows, stream, delivered, pending, quiet, beating, publishing, handled, faults>>

\* XREADGROUP '>' with COUNT: all of the batch is pending at once.
ReadGroup(w) ==
    /\ loop[w].at = "read"
    /\ delivered' = delivered + Len(Unread)
    /\ pending' = pending \cup Range(Unread)
    /\ loop' = [loop EXCEPT ![w].batch = Unread,
                            ![w].at = IF Unread = <<>> THEN "claim" ELSE "new"]
    /\ UNCHANGED <<rows, stream, quiet, beating, publishing, handled, faults>>

\* run: the heartbeat is written for the message in hand, not for the rest of the batch.
StartMessage(w) ==
    /\ loop[w].batch # <<>> /\ loop[w].at \in {"stale", "new"}
    /\ loop[w].run = "no"
    /\ beating' = beating \cup {Head(loop[w].batch)}
    /\ loop' = [loop EXCEPT ![w].run = "yes"]
    /\ UNCHANGED <<rows, stream, delivered, pending, quiet, publishing, handled, faults>>

Next1(l) ==
    LET rest == Tail(l.batch) IN
    [l EXCEPT !.batch = rest, !.run = "no",
              !.at = CASE rest # <<>> -> l.at
                       [] rest = <<>> /\ l.at = "stale" -> "read"
                       [] OTHER -> "claim"]

JobReturns(w) ==
    /\ loop[w].run = "yes"
    /\ handled' = handled \cup {stream[Head(loop[w].batch)]}
    /\ loop' = [loop EXCEPT ![w].run = "returned"]
    /\ UNCHANGED <<rows, stream, delivered, pending, quiet, beating, publishing, faults>>

\* XACK by message id, whoever the group thinks the owner is.  The heartbeat key of an
\* acknowledged message lives on and nobody looks at it again: the model drops it.
Acknowledge(w) ==
    /\ loop[w].run = "returned"
    /\ pending' = pending \ {Head(loop[w].batch)}
    /\ quiet' = quiet \ {Head(loop[w].batch)}
    /\ beating' = beating \ {Head(loop[w].batch)}
    /\ loop' = [loop EXCEPT ![w] = Next1(@)]
    /\ UNCHANGED <<rows, stream, delivered, publishing, handled, faults>>

\* Mutant: XACK in the finally block.
JobThrowsAcknowledged(w) ==
    /\ Fault
    /\ loop[w].run # "no"
    /\ pending' = pending \ {Head(loop[w].batch)}
    /\ quiet' = quiet \ {Head(loop[w].batch)}
    /\ loop' = [loop EXCEPT ![w] = Next1(@)]
    /\ UNCHANGED <<rows, stream, delivered, beating, publishing, handled>>

\* processJob or the XACK throws: the message stays pending and the loop goes on.
JobThrows(w) ==
    /\ Fault
    /\ loop[w].run # "no"
    /\ loop' = [loop EXCEPT ![w] = Next1(@)]
    /\ UNCHANGED <<rows, stream, delivered, pending, quiet, beating, publishing, handled>>
-----------------------------------------------------------------------------
Renewed(m) == \E w \in Consumers : loop[w].run # "no" /\ Head(loop[w].batch) = m

\* The key's TTL passes after the last renewal.
HeartbeatLapses(m) ==
    /\ m \in beating
    /\ ~ Renewed(m)
    /\ beating' = beating \ {m}
    /\ UNCHANGED <<rows, stream, delivered, pending, quiet, publishing, loop, handled, faults>>

\* Idle time counts from the last delivery or claim, heartbeats do not touch it.
TurnsQuiet(m) ==
    /\ m \in pending \ quiet
    /\ quiet' = quiet \cup {m}
    /\ UNCHANGED <<rows, stream, delivered, pending, beating, publishing, loop, handled, faults>>

\* A process dies and is started again under a new consumer name.
Crash(w) ==
    /\ Fault
    /\ loop' = [loop EXCEPT ![w] = Fresh]
    /\ publishing' = [d \in Dispatchers |-> IF d = w THEN NotPublishing ELSE publishing[d]]
    /\ UNCHANGED <<rows, stream, delivered, pending, quiet, beating, handled>>

Publish(w) == SelectDue(w) \/ \E e \in Events : AddToStream(w, e) \/ MarkDispatched(w, e)
Consume(w) == \/ ClaimStale(w) \/ CheckHeartbeat(w) \/ ReadGroup(w)
              \/ StartMessage(w) \/ JobReturns(w) \/ Acknowledge(w)
Time(m) == HeartbeatLapses(m) \/ TurnsQuiet(m)

Next ==
    \/ \E e \in Events : Committed(e)
    \/ \E w \in Dispatchers : Publish(w) \/ \E e \in Events : PublishFails(w, e)
    \/ \E w \in Consumers : Consume(w) \/ JobThrows(w) \/ Crash(w)
    \/ \E m \in Messages : Time(m)

\* Both loops of a process are driven by timers and a blocking read that returns;
\* processJob returns or throws; keys expire and idle time passes.
Fairness ==
    /\ \A w \in Dispatchers : WF_vars(Publish(w))
    /\ \A w \in Consumers : WF_vars(Consume(w))
    /\ \A m \in 1 .. (Cardinality(Events) * (Cardinality(Dispatchers) + MaxFaults)) :
           WF_vars(m \in Messages /\ HeartbeatLapses(m)) /\ WF_vars(m \in Messages /\ TurnsQuiet(m))

Spec == Init /\ [][Next]_vars /\ Fairness
-----------------------------------------------------------------------------
\* An event is settled when its row is dispatched and no message of it is left to be
\* read or acknowledged.
Settled == {e \in Events : /\ rows[e] = "dispatched"
                           /\ \A m \in Messages : stream[m] = e => m \in 1 .. delivered \ pending}

Promise == INSTANCE AtLeastOnce WITH promised <- {e \in Events : rows[e] # "none"},
                                     settled <- Settled

\* queue/index.ts: whatever crashes, throws or is delivered twice, a committed event is
\* processed at least once, and it is only forgotten after it was.
ImplementsAtLeastOnce == Promise!Spec
=============================================================================
