----------------------------- MODULE AtLeastOnce -----------------------------
(***************************************************************************)
(* What the outbox and the stream promise together: every event whose      *)
(* transaction committed is handled, perhaps more than once, and nothing   *)
(* is settled (acknowledged, so that nobody will be given it again) before *)
(* it was handled.                                                         *)
(***************************************************************************)
CONSTANT Events

VARIABLES
    promised,   \* events whose transaction committed
    handled,    \* events processed to the end at least once
    settled     \* events nobody will be given again

Init ==
    /\ promised \in SUBSET Events
    /\ handled = {}
    /\ settled = {}

Promise(e) ==
    /\ e \in Events \ promised
    /\ promised' = promised \cup {e}
    /\ UNCHANGED <<handled, settled>>

Handle(e) ==
    /\ e \in promised
    /\ handled' = handled \cup {e}
    /\ UNCHANGED <<promised, settled>>

Settle(S) ==
    /\ S \subseteq handled
    /\ settled' = S
    /\ UNCHANGED <<promised, handled>>

Next ==
    \/ \E e \in Events : Promise(e) \/ Handle(e)
    \/ \E S \in SUBSET Events : Settle(S)

\* Nothing is handled that was not promised, nothing settled that was not handled.
Safety == Init /\ [][Next]_<<promised, handled, settled>>

Spec ==
    /\ Safety
    /\ \A e \in Events : WF_<<promised, handled, settled>>(Handle(e))
=============================================================================
