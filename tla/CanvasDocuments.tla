--------------------------- MODULE CanvasDocuments ---------------------------
(***************************************************************************)
(* One canvas and the browser tabs that edit it.  A tab saves the whole     *)
(* scene it holds against the revision it read; the repository locks the     *)
(* row, compares the revision, validates the references and bumps it.        *)
(***************************************************************************)
EXTENDS Naturals, FiniteSets

CONSTANTS
    Tabs,         \* browser tabs, of whichever user session
    Edits,        \* changes a tab can make to the scene
    MaxRevision   \* bound on saves

ASSUME RevisionAssumption == MaxRevision \in Nat

VARIABLES
    doc,       \* the row of canvas_documents
    view,      \* per tab: the revision and the scene it shows
    updating,  \* per tab: its updateCanvasDocument transaction
    acked      \* edits whose save was answered with 200

docVars == <<doc, view, updating, acked>>

Document == [live : BOOLEAN, revision : 1 .. MaxRevision, scene : SUBSET Edits]
View == [revision : 1 .. MaxRevision, scene : SUBSET Edits]
NoUpdate == [open |-> FALSE, edit |-> {}]
Updating == [open : BOOLEAN, edit : SUBSET Edits]

DocTypeOK ==
    /\ doc \in Document
    /\ view \in [Tabs -> View]
    /\ updating \in [Tabs -> Updating]
    /\ acked \subseteq Edits

\* createCanvasDocument: revision 1.
DocInit ==
    /\ doc = [live |-> TRUE, revision |-> 1, scene |-> {}]
    /\ view = [t \in Tabs |-> [revision |-> 1, scene |-> {}]]
    /\ updating = [t \in Tabs |-> NoUpdate]
    /\ acked = {}

Shown == [revision |-> doc.revision, scene |-> doc.scene]
RowLocked == \E t \in Tabs : updating[t].open

getCanvas(t) ==
    /\ doc.live /\ ~ updating[t].open
    /\ view' = [view EXCEPT ![t] = Shown]
    /\ UNCHANGED <<doc, updating, acked>>

\* Mutant: neither the row lock nor the UPDATE looks at the revision.
AnyRevision(base) == doc.live

\* Compared after the SELECT ... FOR UPDATE, and once more by the UPDATE.
AtRevision(base) == doc.live /\ doc.revision = base

\* A tab that is behind is answered CANVAS_REVISION_CONFLICT and nothing changes.
BeginEdit(t, e) ==
    /\ ~ RowLocked
    /\ AtRevision(view[t].revision)
    /\ updating' = [updating EXCEPT ![t] = [open |-> TRUE, edit |-> {e}]]
    /\ UNCHANGED <<doc, view, acked>>

\* References to rows deleted meanwhile, or a lost connection, roll back.
AbandonUpdate(t) ==
    /\ updating[t].open
    /\ updating' = [updating EXCEPT ![t] = NoUpdate]
    /\ UNCHANGED <<doc, view, acked>>

CommitUpdate(t) ==
    /\ updating[t].open
    /\ AtRevision(view[t].revision)
    /\ doc.revision < MaxRevision
    /\ LET scene == view[t].scene \cup updating[t].edit IN
         /\ doc' = [doc EXCEPT !.revision = @ + 1, !.scene = scene]
         /\ view' = [view EXCEPT ![t] = [revision |-> doc.revision + 1, scene |-> scene]]
    /\ acked' = acked \cup updating[t].edit
    /\ updating' = [updating EXCEPT ![t] = NoUpdate]

deleteCanvasDocument ==
    /\ doc.live /\ ~ RowLocked
    /\ doc' = [doc EXCEPT !.live = FALSE]
    /\ UNCHANGED <<view, updating, acked>>

DocNext ==
    \/ \E t \in Tabs : \/ getCanvas(t) \/ AbandonUpdate(t) \/ CommitUpdate(t)
                       \/ \E e \in Edits : BeginEdit(t, e)
    \/ deleteCanvasDocument

DocSpec == DocInit /\ [][DocNext]_docVars
-----------------------------------------------------------------------------
\* canvas-documents.ts, "stale patches deterministically conflict": whatever two tabs
\* save at once, an edit answered with 200 is in the document and later saves keep it.
NoEditLost == acked \subseteq doc.scene
=============================================================================
