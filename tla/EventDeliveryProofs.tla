------------------------- MODULE EventDeliveryProofs -------------------------
(***************************************************************************)
(* For every set of events, workers and dispatchers, every batch size and   *)
(* any number of faults: EventDelivery implements the safety part of        *)
(* AtLeastOnce.  That every event is eventually handled stays with TLC.     *)
(***************************************************************************)
EXTENDS EventDelivery, SequenceTheorems, TLAPS

Given == 1 .. delivered

Turn == [ at : {"claim", "check", "stale", "read", "new"},
          claimed : Seq(Given), batch : Seq(Given),
          run : {"no", "yes", "returned"} ]

\* The types, with the messages in a worker's hands among those handed out.
Shapes ==
    /\ rows \in [Events -> {"none", "new", "dispatched"}]
    /\ stream \in Seq(Events)
    /\ delivered \in 0 .. Len(stream)
    /\ pending \in SUBSET Given
    /\ quiet \in SUBSET pending
    /\ beating \in SUBSET Given
    /\ publishing \in [Dispatchers -> Publishing]
    /\ loop \in [Consumers -> Turn]
    /\ handled \in SUBSET Events
    /\ faults \in 0 .. MaxFaults

\* A message, a selected row and a handled event all come from a committed one.
Promised ==
    /\ \A m \in Messages : rows[stream[m]] # "none"
    /\ \A d \in Dispatchers : \A e \in publishing[d].todo \cup publishing[d].added : rows[e] # "none"
    /\ \A e \in handled : rows[e] # "none"

\* A row is marked dispatched only after a message of it was added.
InStream(e) == \E m \in Messages : stream[m] = e
Added ==
    /\ \A d \in Dispatchers : \A e \in publishing[d].added : InStream(e)
    /\ \A e \in Events : rows[e] = "dispatched" => InStream(e)

\* A message leaves the pending entries only after its event was handled.
Acknowledged == \A m \in Given \ pending : stream[m] \in handled

\* Where a loop may be while a message of its batch runs.
Running ==
    \A w \in Consumers :
        /\ loop[w].at = "check" => loop[w].claimed # <<>>
        /\ loop[w].run # "no" => loop[w].batch # <<>> /\ loop[w].at \in {"stale", "new"}
        /\ loop[w].run = "returned" => stream[Head(loop[w].batch)] \in handled

\* The inductive invariant.
Inv == Shapes /\ Promised /\ Added /\ Acknowledged /\ Running
-----------------------------------------------------------------------------
(* The outbox *)

\* More messages handed out: what is in hand stays among them.
LEMMA TurnsKept ==
    ASSUME Shapes, delivered' \in Nat, delivered <= delivered'
    PROVE  /\ loop \in [Consumers -> Turn']
           /\ Turn \subseteq Turn'
<1>1. Given \subseteq Given'
  BY DEF Given, Shapes
<1>2. Seq(Given) \subseteq Seq(Given')
  BY <1>1, SeqMonotonic
<1> QED
  BY <1>2 DEF Turn, Shapes

\* A transaction commits an event.
LEMMA CommitStep ==
    ASSUME Inv, NEW e \in Events, Committed(e)
    PROVE  Inv'
<1> USE DEF Inv
<1>0. /\ rows' \in [Events -> {"none", "new", "dispatched"}]
      /\ \A x \in Events : rows[x] # "none" => rows'[x] = rows[x]
      /\ \A x \in Events : rows'[x] = "dispatched" => rows[x] = "dispatched"
      /\ UNCHANGED <<stream, delivered, pending, quiet, beating, publishing, loop, handled, faults>>
  BY DEF Committed, Shapes
<1>1. Shapes'
  BY <1>0 DEF Shapes, Given, Turn
<1>2. Promised'
  BY <1>0 DEF Shapes, Promised, Messages, Publishing
<1>3. Added'
  BY <1>0 DEF Added, InStream, Messages
<1>4. Acknowledged' /\ Running'
  BY <1>0 DEF Acknowledged, Running, Given
<1> QED
  BY <1>1, <1>2, <1>3, <1>4

\* A message is added to the stream: every older one keeps its place.
LEMMA AddStep ==
    ASSUME Inv, NEW d \in Dispatchers, NEW e \in Events, AddToStream(d, e)
    PROVE  Inv'
<1> USE DEF Inv
<1>0. /\ stream' = Append(stream, e) /\ e \in publishing[d].todo
      /\ publishing' \in [Dispatchers -> Publishing]
      /\ \A c \in Dispatchers : publishing'[c].todo = publishing[c].todo
      /\ \A c \in Dispatchers : publishing'[c].added \subseteq publishing[c].added \cup {e}
      /\ UNCHANGED <<rows, delivered, pending, quiet, beating, loop, handled, faults>>
  BY DEF AddToStream, Shapes, Publishing
<1>1. /\ stream \in Seq(Events) /\ stream' \in Seq(Events)
      /\ Len(stream') = Len(stream) + 1 /\ Len(stream) \in Nat
      /\ \A m \in Messages : stream'[m] = stream[m]
      /\ stream'[Len(stream')] = e
      /\ Messages' = Messages \cup {Len(stream')}
  BY <1>0 DEF Shapes, Messages
<1>2. Shapes'
  <2>1. delivered' \in 0 .. Len(stream')
    BY <1>0, <1>1 DEF Shapes
  <2> QED
    BY <1>0, <1>1, <2>1 DEF Shapes, Given, Turn
<1>3. Promised'
  <2>1. rows[e] # "none"
    BY <1>0 DEF Promised
  <2> QED
    BY <1>0, <1>1, <2>1 DEF Promised
<1>4. Added'
  BY <1>0, <1>1, ZenonT(60) DEF Added, InStream
<1>5. Given \subseteq Messages
  BY <1>1 DEF Shapes, Given, Messages
<1>6. Acknowledged'
  BY <1>0, <1>1, <1>5 DEF Acknowledged, Given
<1>7. \A w \in Consumers : loop[w].batch # <<>> => Head(loop[w].batch) \in Given
  BY HeadTailProperties DEF Shapes, Turn
<1>8. Running'
  BY <1>0, <1>1, <1>5, <1>7 DEF Running
<1> QED
  BY <1>2, <1>3, <1>4, <1>6, <1>8

\* The other steps of dispatchOutbox.
LEMMA OutboxSteps ==
    ASSUME Inv, NEW d \in Dispatchers, NEW e \in Events,
           SelectDue(d) \/ MarkDispatched(d, e) \/ PublishFails(d, e)
    PROVE  Inv'
<1> USE DEF Inv
<1>1. /\ UNCHANGED <<stream, delivered, pending, quiet, beating, loop, handled>>
      /\ publishing' \in [Dispatchers -> Publishing]
      /\ rows' \in [Events -> {"none", "new", "dispatched"}]
      /\ faults' \in 0 .. MaxFaults
  <2> USE BatchAssumption DEF Shapes, Publishing
  <2>1. CASE SelectDue(d)
    BY <2>1 DEF SelectDue
  <2>2. CASE MarkDispatched(d, e)
    BY <2>2 DEF MarkDispatched
  <2>3. CASE PublishFails(d, e)
    BY <2>3 DEF PublishFails, Fault
  <2> QED
    BY <2>1, <2>2, <2>3
<1>2. /\ \A x \in Events : rows'[x] = "none" <=> rows[x] = "none"
      /\ \A x \in Events : rows'[x] = "dispatched" => rows[x] = "dispatched" \/ x \in publishing[d].added
      /\ \A c \in Dispatchers : publishing'[c].added \subseteq publishing[c].added
      /\ \A c \in Dispatchers : \A x \in publishing'[c].todo :
             x \in publishing[c].todo \/ rows[x] # "none"
  <2>1. CASE SelectDue(d)
    BY <2>1 DEF Shapes, SelectDue, Publishing
  <2>2. CASE MarkDispatched(d, e)
    BY <2>2 DEF Shapes, MarkDispatched, Publishing, Promised
  <2>3. CASE PublishFails(d, e)
    BY <2>3 DEF Shapes, PublishFails, Publishing
  <2> QED
    BY <2>1, <2>2, <2>3
<1>3. Shapes'
  BY <1>1 DEF Shapes, Given, Turn
<1>4. Promised'
  BY <1>1, <1>2 DEF Shapes, Promised, Messages, Publishing
<1>5. Added'
  BY <1>1, <1>2 DEF Added, InStream, Messages
<1>6. Acknowledged' /\ Running'
  BY <1>1 DEF Acknowledged, Running, Given
<1> QED
  BY <1>3, <1>4, <1>5, <1>6
-----------------------------------------------------------------------------
(* The consume loop *)

\* A step that moves one loop only, within its types.
LEMMA LoopStep ==
    ASSUME Inv, NEW w \in Consumers, NEW t \in Turn,
           loop' = [loop EXCEPT ![w] = t],
           quiet' \in SUBSET pending, beating' \in SUBSET Given,
           faults' \in 0 .. MaxFaults,
           t.at = "check" => t.claimed # <<>>,
           t.run # "no" => t.batch # <<>> /\ t.at \in {"stale", "new"},
           t.run = "returned" => stream[Head(t.batch)] \in handled,
           UNCHANGED <<rows, stream, delivered, pending, publishing, handled>>
    PROVE  Inv'
<1> USE DEF Inv
<1>1. Shapes'
  BY DEF Shapes, Given, Turn
<1>2. Promised' /\ Added' /\ Acknowledged'
  BY DEF Promised, Added, InStream, Acknowledged, Messages, Given
<1>3. Running'
  BY DEF Running, Shapes
<1> QED
  BY <1>1, <1>2, <1>3

\* XAUTOCLAIM returns some of the pending messages.
LEMMA ClaimStep ==
    ASSUME Inv, NEW w \in Consumers, ClaimStale(w)
    PROVE  Inv'
<1>1. PICK n \in 0 .. BatchSize : \E claimed \in [1 .. n -> quiet] :
           /\ quiet' = quiet \ Range(claimed)
           /\ loop' = [loop EXCEPT ![w].claimed = claimed,
                                   ![w].at = IF claimed = <<>> THEN "read" ELSE "check"]
  BY DEF ClaimStale
<1>2. PICK claimed \in [1 .. n -> quiet] :
           /\ quiet' = quiet \ Range(claimed)
           /\ loop' = [loop EXCEPT ![w].claimed = claimed,
                                   ![w].at = IF claimed = <<>> THEN "read" ELSE "check"]
  BY <1>1
<1>3. claimed \in Seq(Given)
  BY BatchAssumption DEF Inv, Shapes
<1> DEFINE t == [loop[w] EXCEPT !.claimed = claimed,
                                !.at = IF claimed = <<>> THEN "read" ELSE "check"]
<1>4. loop[w] \in Turn /\ loop[w].at = "claim" /\ loop[w].run = "no"
  BY DEF Inv, Shapes, ClaimStale, Running, Turn
<1>5. /\ t \in Turn /\ loop' = [loop EXCEPT ![w] = t] /\ t.run = "no"
      /\ t.at = "check" => t.claimed # <<>>
  BY <1>2, <1>3, <1>4 DEF Turn, Inv, Shapes
<1>6. /\ quiet' \in SUBSET pending /\ beating' \in SUBSET Given /\ faults' \in 0 .. MaxFaults
      /\ UNCHANGED <<rows, stream, delivered, pending, publishing, handled>>
  BY <1>2 DEF ClaimStale, Inv, Shapes
<1> HIDE DEF t
<1> QED
  BY <1>5, <1>6, LoopStep

\* A claimed message joins the batch unless its heartbeat is there.
LEMMA CheckStep ==
    ASSUME Inv, NEW w \in Consumers, CheckHeartbeat(w)
    PROVE  Inv'
<1> DEFINE l == loop[w]
           rest == Tail(l.claimed)
           mine == IF Head(l.claimed) \in beating THEN l.batch ELSE Append(l.batch, Head(l.claimed))
           t == [l EXCEPT !.claimed = rest, !.batch = mine,
                          !.at = CASE rest # <<>> -> "check"
                                   [] rest = <<>> /\ mine = <<>> -> "read"
                                   [] OTHER -> "stale"]
<1>1. l \in Turn /\ l.at = "check" /\ l.run = "no" /\ l.claimed # <<>>
  BY DEF Inv, Shapes, CheckHeartbeat, Running, Turn
<1>2. l.claimed \in Seq(Given) /\ l.batch \in Seq(Given)
  BY <1>1 DEF Turn
<1>3. rest \in Seq(Given) /\ Head(l.claimed) \in Given
  BY <1>1, <1>2, HeadTailProperties
<1>4. mine \in Seq(Given)
  BY <1>2, <1>3, AppendProperties
<1>5. loop' = [loop EXCEPT ![w] = t]
  BY DEF CheckHeartbeat, Inv, Shapes
<1> HIDE DEF rest, mine
<1>6. /\ t \in Turn /\ t.run = "no"
      /\ t.at = "check" => t.claimed # <<>>
  BY <1>1, <1>3, <1>4 DEF Turn
<1>7. /\ quiet' \in SUBSET pending /\ beating' \in SUBSET Given /\ faults' \in 0 .. MaxFaults
      /\ UNCHANGED <<rows, stream, delivered, pending, publishing, handled>>
  BY DEF CheckHeartbeat, Inv, Shapes
<1> HIDE DEF t
<1> QED
  BY <1>5, <1>6, <1>7, LoopStep

\* XREADGROUP hands out the next messages, and all of them are pending.
LEMMA ReadStep ==
    ASSUME Inv, NEW w \in Consumers, ReadGroup(w)
    PROVE  Inv'
<1> DEFINE left == Len(stream) - delivered
           n == IF left < BatchSize THEN left ELSE BatchSize
<1>1. left \in Nat /\ n \in Nat /\ n <= left /\ delivered \in Nat /\ Len(stream) \in Nat
  BY BatchAssumption DEF Inv, Shapes
<1>2. Unread = [i \in 1 .. n |-> delivered + i]
  BY DEF Unread
<1>3. Len(Unread) = n /\ delivered' = delivered + n
  BY <1>1, <1>2 DEF ReadGroup
<1>4. Unread \in Seq(Given')
  BY <1>1, <1>2, <1>3 DEF Given
<1>5. Range(Unread) = delivered + 1 .. delivered + n
  <2>1. ASSUME NEW m \in delivered + 1 .. delivered + n
        PROVE  m \in Range(Unread)
    <3>1. m - delivered \in 1 .. n /\ Unread[m - delivered] = m
      BY <1>1, <1>2
    <3> QED
      BY <1>1, <1>2, <3>1 DEF Range
  <2>2. ASSUME NEW m \in Range(Unread)
        PROVE  m \in delivered + 1 .. delivered + n
    BY <1>1, <1>2 DEF Range
  <2> QED
    BY <2>1, <2>2
<1>6. /\ delivered' \in 0 .. Len(stream)
      /\ pending' = pending \cup (delivered + 1 .. delivered + n)
      /\ UNCHANGED <<rows, stream, quiet, beating, publishing, handled, faults>>
  BY <1>1, <1>3, <1>5 DEF ReadGroup
<1> HIDE DEF left, n
<1>7. loop \in [Consumers -> Turn'] /\ Turn \subseteq Turn'
  BY <1>1, <1>3, TurnsKept DEF Inv
<1> DEFINE t == [loop[w] EXCEPT !.batch = Unread,
                                !.at = IF Unread = <<>> THEN "claim" ELSE "new"]
<1>8. loop[w].at = "read" /\ loop[w].run = "no" /\ loop' = [loop EXCEPT ![w] = t]
  BY DEF Inv, Shapes, ReadGroup, Running, Turn
<1>9. t \in Turn' /\ t.run = "no" /\ t.at # "check"
  BY <1>4, <1>7, <1>8 DEF Turn
<1>10. Given' = Given \cup (delivered + 1 .. delivered + n)
  BY <1>1, <1>3 DEF Given
<1> HIDE DEF t
<1>11. Shapes'
  BY <1>6, <1>7, <1>8, <1>9, <1>10 DEF Inv, Shapes
<1>12. Promised' /\ Added'
  BY <1>6 DEF Inv, Promised, Added, InStream, Messages
<1>13. Acknowledged'
  BY <1>6, <1>10 DEF Inv, Acknowledged
<1>14. Running'
  BY <1>6, <1>7, <1>8, <1>9 DEF Inv, Running, Shapes
<1> QED
  BY <1>11, <1>12, <1>13, <1>14 DEF Inv
\* The heartbeat of the next message of the batch is written and its job is run.
LEMMA StartStep ==
    ASSUME Inv, NEW w \in Consumers, StartMessage(w)
    PROVE  Inv'
<1> DEFINE t == [loop[w] EXCEPT !.run = "yes"]
<1>1. loop[w] \in Turn /\ loop[w].batch # <<>> /\ loop[w].at \in {"stale", "new"}
  BY DEF Inv, Shapes, StartMessage
<1>2. Head(loop[w].batch) \in Given
  BY <1>1, HeadTailProperties DEF Turn
<1>3. /\ t \in Turn /\ t.run = "yes" /\ t.batch = loop[w].batch /\ t.at = loop[w].at
      /\ loop' = [loop EXCEPT ![w] = t]
  BY <1>1 DEF Turn, Inv, Shapes, StartMessage
<1>4. /\ quiet' \in SUBSET pending /\ beating' \in SUBSET Given /\ faults' \in 0 .. MaxFaults
      /\ UNCHANGED <<rows, stream, delivered, pending, publishing, handled>>
  BY <1>2 DEF StartMessage, Inv, Shapes
<1> HIDE DEF t
<1> QED
  BY <1>1, <1>3, <1>4, LoopStep

\* The job of the message in hand returns: its event has been handled.
LEMMA ReturnStep ==
    ASSUME Inv, NEW w \in Consumers, JobReturns(w)
    PROVE  /\ Inv'
           /\ stream[Head(loop[w].batch)] \in Events
           /\ rows[stream[Head(loop[w].batch)]] # "none"
<1> DEFINE t == [loop[w] EXCEPT !.run = "returned"]
           h == Head(loop[w].batch)
<1>1. loop[w] \in Turn /\ loop[w].batch # <<>> /\ loop[w].at \in {"stale", "new"}
  BY DEF Inv, Shapes, Running, JobReturns
<1>2. h \in Given
  BY <1>1, HeadTailProperties DEF Turn
<1>3. h \in Messages /\ stream[h] \in Events /\ rows[stream[h]] # "none"
  BY <1>2 DEF Given, Messages, Inv, Shapes, Promised
<1>4. /\ t \in Turn /\ t.run = "returned" /\ t.batch = loop[w].batch /\ t.at = loop[w].at
      /\ loop' = [loop EXCEPT ![w] = t]
  BY <1>1 DEF Turn, Inv, Shapes, JobReturns
<1>5. /\ handled' = handled \cup {stream[h]}
      /\ UNCHANGED <<rows, stream, delivered, pending, quiet, beating, publishing, faults>>
  BY DEF JobReturns
<1> HIDE DEF t, h
<1>6. Shapes'
  BY <1>3, <1>4, <1>5 DEF Inv, Shapes, Given, Turn
<1>7. Promised' /\ Added' /\ Acknowledged'
  BY <1>3, <1>5 DEF Inv, Promised, Added, InStream, Acknowledged, Messages, Given
<1>8. Running'
  BY <1>1, <1>4, <1>5 DEF Inv, Running, Shapes, h
<1> QED
  BY <1>3, <1>6, <1>7, <1>8 DEF Inv, h

\* What follows a message, acknowledged or not.
LEMMA AfterMessage ==
    ASSUME Inv, NEW w \in Consumers, loop[w].run # "no"
    PROVE  /\ Next1(loop[w]) \in Turn
           /\ Next1(loop[w]).run = "no" /\ Next1(loop[w]).at # "check"
<1>1. loop[w] \in Turn /\ loop[w].batch # <<>> /\ loop[w].at \in {"stale", "new"}
  BY DEF Inv, Shapes, Running
<1>2. Tail(loop[w].batch) \in Seq(Given)
  BY <1>1, HeadTailProperties DEF Turn
<1> QED
  BY <1>1, <1>2 DEF Turn, Next1

\* XACK: the message leaves the pending entries.
LEMMA AckStep ==
    ASSUME Inv, NEW w \in Consumers, Acknowledge(w)
    PROVE  Inv'
<1> DEFINE t == Next1(loop[w])
           h == Head(loop[w].batch)
<1>1. t \in Turn /\ t.run = "no" /\ t.at # "check"
  BY AfterMessage DEF Acknowledge
<1>2. /\ loop' = [loop EXCEPT ![w] = t] /\ stream[h] \in handled
      /\ pending' = pending \ {h} /\ quiet' = quiet \ {h} /\ beating' = beating \ {h}
      /\ UNCHANGED <<rows, stream, delivered, publishing, handled, faults>>
  BY DEF Acknowledge, Inv, Running
<1> HIDE DEF t, h
<1>3. Shapes'
  BY <1>1, <1>2 DEF Inv, Shapes, Given, Turn
<1>4. Promised' /\ Added' /\ Acknowledged'
  BY <1>2 DEF Inv, Promised, Added, InStream, Acknowledged, Messages, Given
<1>5. Running'
  BY <1>1, <1>2 DEF Inv, Running, Shapes
<1> QED
  BY <1>3, <1>4, <1>5 DEF Inv

\* processJob throws: the message stays pending.
LEMMA ThrowStep ==
    ASSUME Inv, NEW w \in Consumers, JobThrows(w)
    PROVE  Inv'
<1> DEFINE t == Next1(loop[w])
<1>1. t \in Turn /\ t.run = "no" /\ t.at # "check"
  BY AfterMessage DEF JobThrows
<1>2. /\ loop' = [loop EXCEPT ![w] = t]
      /\ UNCHANGED <<rows, stream, delivered, pending, quiet, beating, publishing, handled>>
  BY DEF JobThrows
<1>3. quiet' \in SUBSET pending /\ beating' \in SUBSET Given /\ faults' \in 0 .. MaxFaults
  BY <1>2, BatchAssumption DEF JobThrows, Fault, Inv, Shapes
<1> HIDE DEF t
<1> QED
  BY <1>1, <1>2, <1>3, LoopStep

\* A process dies: its selection and its batch are gone, the group remembers the rest.
LEMMA CrashStep ==
    ASSUME Inv, NEW w \in Consumers, Crash(w)
    PROVE  Inv'
<1>1. Fresh \in Turn /\ Fresh.at = "claim" /\ Fresh.run = "no"
  BY EmptySeq DEF Fresh, Turn
<1>2. /\ loop' = [loop EXCEPT ![w] = Fresh]
      /\ UNCHANGED <<rows, stream, delivered, pending, quiet, beating, handled>>
  BY DEF Crash
<1>3. /\ publishing' \in [Dispatchers -> Publishing]
      /\ \A d \in Dispatchers : /\ publishing'[d].todo \subseteq publishing[d].todo
                                /\ publishing'[d].added \subseteq publishing[d].added
  BY DEF Crash, NotPublishing, Publishing, Inv, Shapes
<1>4. faults' \in 0 .. MaxFaults
  BY BatchAssumption DEF Crash, Fault, Inv, Shapes
<1> HIDE DEF Fresh
<1>5. Shapes'
  BY <1>1, <1>2, <1>3, <1>4 DEF Inv, Shapes, Given, Turn
<1>6. Promised' /\ Added' /\ Acknowledged'
  BY <1>2, <1>3 DEF Inv, Promised, Added, InStream, Acknowledged, Messages, Given
<1>7. Running'
  BY <1>1, <1>2 DEF Inv, Running, Shapes
<1> QED
  BY <1>5, <1>6, <1>7 DEF Inv

\* A heartbeat lapses or a pending message turns idle.
LEMMA TimeStep ==
    ASSUME Inv, NEW m \in Messages, Time(m)
    PROVE  Inv'
<1>1. /\ quiet' \in SUBSET pending /\ beating' \in SUBSET Given
      /\ UNCHANGED <<rows, stream, delivered, pending, publishing, loop, handled, faults>>
  BY DEF Time, HeartbeatLapses, TurnsQuiet, Inv, Shapes
<1>2. Shapes'
  BY <1>1 DEF Inv, Shapes, Given, Turn
<1> QED
  BY <1>1, <1>2 DEF Inv, Promised, Added, InStream, Acknowledged, Running, Messages, Given
-----------------------------------------------------------------------------
(* The invariant and the refinement *)

LEMMA DeliveryInit == Init => Inv
<1> SUFFICES ASSUME Init PROVE Inv
  OBVIOUS
<1>1. /\ Messages = {} /\ Given = {} /\ stream = <<>> /\ <<>> \in Seq(Events)
      /\ Len(stream) = 0 /\ <<>> \in Seq(Given)
  BY EmptySeq DEF Init, Messages, Given
<1>2. Shapes
  BY <1>1, BatchAssumption DEF Init, Shapes, Turn, Fresh, NotPublishing, Publishing
<1> QED
  BY <1>1, <1>2 DEF Init, Inv, Promised, Added, Acknowledged, Running, Fresh, NotPublishing

LEMMA DeliveryStep ==
    ASSUME Inv, [Next]_vars
    PROVE  Inv'
<1>1. CASE \E e \in Events : Committed(e)
  BY <1>1, CommitStep
<1>2. CASE \E d \in Dispatchers : Publish(d) \/ \E e \in Events : PublishFails(d, e)
  <2>1. PICK d \in Dispatchers : Publish(d) \/ \E e \in Events : PublishFails(d, e)
    BY <1>2
  <2>2. CASE SelectDue(d)
    BY <2>2, OutboxSteps DEF SelectDue
  <2>3. CASE \E e \in Events : AddToStream(d, e) \/ MarkDispatched(d, e) \/ PublishFails(d, e)
    BY <2>3, AddStep, OutboxSteps
  <2> QED
    BY <2>1, <2>2, <2>3 DEF Publish
<1>3. CASE \E w \in Consumers : Consume(w) \/ JobThrows(w) \/ Crash(w)
  <2>1. PICK w \in Consumers : Consume(w) \/ JobThrows(w) \/ Crash(w)
    BY <1>3
  <2> QED
    BY <2>1, ClaimStep, CheckStep, ReadStep, StartStep, ReturnStep, AckStep, ThrowStep, CrashStep
       DEF Consume
<1>4. CASE \E m \in Messages : Time(m)
  BY <1>4, TimeStep
<1>5. CASE UNCHANGED vars
  <2>1. Shapes'
    BY <1>5 DEF vars, Inv, Shapes, Given, Turn
  <2> QED
    BY <1>5, <2>1 DEF vars, Inv, Promised, Added, InStream, Acknowledged, Running, Messages, Given
<1> QED
  BY <1>1, <1>2, <1>3, <1>4, <1>5 DEF Next

LEMMA DeliveryInvariant == Spec => []Inv
<1> QED
  BY DeliveryInit, DeliveryStep, PTL DEF Spec

\* Whatever is settled was handled; the step lemma needs it of the next state.
LEMMA SettledHandledNext == Inv' => Settled' \subseteq handled'
<1> SUFFICES ASSUME Inv', NEW e \in Settled' PROVE e \in handled'
  OBVIOUS
<1>1. InStream(e)'
  BY DEF Settled, Inv, Added
<1>2. PICK m \in Messages' : stream'[m] = e
  BY <1>1 DEF InStream
<1> QED
  BY <1>2 DEF Settled, Inv, Acknowledged, Given

LEMMA PromiseInit == Init => Promise!Init
<1> SUFFICES ASSUME Init PROVE Promise!Init
  OBVIOUS
<1>1. Settled = {} /\ {e \in Events : rows[e] # "none"} = {}
  BY DEF Init, Settled
<1> QED
  BY <1>1 DEF Init, Promise!Init

\* Every step promises one event, handles one, or changes at most what is settled.
LEMMA PromiseStep ==
    ASSUME Inv, Inv', [Next]_vars
    PROVE  [Promise!Next]_<<{e \in Events : rows[e] # "none"}, handled, Settled>>
<1> DEFINE committed == {e \in Events : rows[e] # "none"}
<1>1. Settled' \in SUBSET Events /\ Settled' \subseteq handled'
  BY SettledHandledNext DEF Settled
<1>2. CASE \E e \in Events : Committed(e)
  <2>1. PICK e \in Events : Committed(e)
    BY <1>2
  <2>2. /\ e \notin committed /\ committed' = committed \cup {e}
        /\ handled' = handled /\ Settled' = Settled
    BY <2>1 DEF Committed, Settled, Messages, Inv, Shapes
  <2> QED
    BY <2>2 DEF Promise!Next, Promise!Promise
<1>3. CASE \E w \in Consumers : JobReturns(w)
  <2>1. PICK w \in Consumers : JobReturns(w)
    BY <1>3
  <2> DEFINE e == stream[Head(loop[w].batch)]
  <2>2. e \in Events /\ e \in committed
    BY <2>1, ReturnStep
  <2>3. handled' = handled \cup {e} /\ committed' = committed /\ Settled' = Settled
    BY <2>1 DEF JobReturns, Settled, Messages
  <2> QED
    BY <2>2, <2>3 DEF Promise!Next, Promise!Handle
<1>4. CASE /\ ~ \E e \in Events : Committed(e)
           /\ ~ \E w \in Consumers : JobReturns(w)
  <2>1. handled' = handled /\ committed' = committed
    <3>1. CASE \E d \in Dispatchers : Publish(d) \/ \E e \in Events : PublishFails(d, e)
      BY <3>1 DEF Publish, SelectDue, AddToStream, MarkDispatched, PublishFails,
                  Inv, Shapes, Promised
    <3>2. CASE \E w \in Consumers : Consume(w) \/ JobThrows(w) \/ Crash(w)
      BY <1>4, <3>2 DEF Consume, ClaimStale, CheckHeartbeat, ReadGroup, StartMessage,
                        Acknowledge, JobThrows, Crash
    <3>3. CASE \E m \in Messages : Time(m)
      BY <3>3 DEF Time, HeartbeatLapses, TurnsQuiet
    <3>4. CASE UNCHANGED vars
      BY <3>4 DEF vars
    <3> QED
      BY <1>4, <3>1, <3>2, <3>3, <3>4 DEF Next
  <2> QED
    BY <1>1, <2>1 DEF Promise!Next, Promise!Settle
<1> QED
  BY <1>2, <1>3, <1>4

\* Whatever crashes, throws, is delivered twice or taken over: an event is handled only
\* after its transaction committed, and it is only settled (dispatched, and none of its
\* messages left to read or to acknowledge) after it was handled.
THEOREM HandledBeforeSettled == Spec => Promise!Safety
<1>1. Inv /\ Inv' /\ [Next]_vars
        => [Promise!Next]_<<{e \in Events : rows[e] # "none"}, handled, Settled>>
  BY PromiseStep
<1> QED
  BY <1>1, PromiseInit, DeliveryInvariant, PTL DEF Spec, Promise!Safety
=============================================================================
