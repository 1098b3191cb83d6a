--------------------------- MODULE PromptTemplates ---------------------------
(***************************************************************************)
(* The versions of one prompt template set.  Versions are append-only: an       *)
(* edit of an entry forks the active version.  Transactions that swap the        *)
(* active version hold one advisory lock, those that only allocate a version      *)
(* another, which they take and give back within one step here.                   *)
(***************************************************************************)
EXTENDS Naturals, FiniteSets

CONSTANTS
    TemplateEditors,   \* requests of administrators under way
    TemplateEdits,     \* changes of entries: one created, replaced or removed
    MaxVersion         \* bound on versions

ASSUME TemplateAssumption == MaxVersion \in Nat \ {0}

VARIABLES
    versions,   \* rows of prompt_template_sets, with what their entries hold
    fork,       \* per request: the version its transaction locked, and the edit
    applied     \* edits answered with success since a version was activated or imported

templateVars == <<versions, fork, applied>>

Version == [version : 1 .. MaxVersion, active : BOOLEAN, holds : SUBSET TemplateEdits]
NoFork == {}
Fork == [from : Version, edit : TemplateEdits]

TemplateTypeOK ==
    /\ versions \subseteq Version
    /\ fork \in [TemplateEditors -> SUBSET Fork]
    /\ applied \subseteq TemplateEdits

\* The first import, activated.
TemplateInit ==
    /\ versions = {[version |-> 1, active |-> TRUE, holds |-> {}]}
    /\ fork = [e \in TemplateEditors |-> NoFork]
    /\ applied = {}

ActiveVersion == {v \in versions : v.active}
Deactivated == {[v EXCEPT !.active = FALSE] : v \in versions}
\* coalesce(max(version), 0) + 1, in a new version that is `active` and `holds` these edits.
Allocated(active, holds) ==
    {v \in [version : 1 .. MaxVersion, active : {active}, holds : {holds}] :
        /\ \A u \in versions : u.version < v.version
        /\ v.version = 1 \/ \E u \in versions : u.version + 1 = v.version}

\* Mutant: the active version is swapped without the lock.
SwapUnlocked == TRUE

\* lockPromptTemplateActiveSwap, held until the transaction ends.
SwapLockFree == \A e \in TemplateEditors : fork[e] = NoFork

\* createPromptTemplateSetWithEntries with activate, from the pages or from the setup.
ImportActive ==
    /\ SwapLockFree
    /\ \E v \in Allocated(TRUE, {}) : versions' = Deactivated \cup {v}
    /\ applied' = {}
    /\ UNCHANGED fork

\* Without activate only the version lock is taken.
ImportInactive ==
    /\ \E v \in Allocated(FALSE, {}) : versions' = versions \cup {v}
    /\ UNCHANGED <<fork, applied>>

activatePromptTemplateSet(v) ==
    /\ SwapLockFree
    /\ versions' = {[u EXCEPT !.active = (u = v)] : u \in versions}
    /\ applied' = v.holds
    /\ UNCHANGED fork

\* CANNOT_DELETE_ACTIVE_SET; the rows of its entries go with it.
deletePromptTemplateSet(v) ==
    /\ SwapLockFree
    /\ ~ v.active
    /\ versions' = versions \ {v}
    /\ UNCHANGED <<fork, applied>>

\* create-, update- and deletePromptTemplateEntry: the version a page showed is locked and
\* must still be active.
BeginFork(e, v, edit) ==
    /\ fork[e] = NoFork /\ SwapLockFree
    /\ v.active                               \* TEMPLATE_SET_NOT_ACTIVE
    /\ edit \notin v.holds                    \* DUPLICATE_TEMPLATE_NAME
    /\ fork' = [fork EXCEPT ![e] = {[from |-> v, edit |-> edit]}]
    /\ UNCHANGED <<versions, applied>>

\* forkPromptTemplateSet: a new version with every entry of the source, active as it was.
forkPromptTemplateSet(e) ==
    /\ \E f \in fork[e] :
         /\ \E v \in Allocated(TRUE, f.from.holds \cup {f.edit}) : versions' = Deactivated \cup {v}
         /\ applied' = applied \cup {f.edit}
    /\ fork' = [fork EXCEPT ![e] = NoFork]

\* INVALID_INPUT, or the connection is lost.
ForkRollsBack(e) ==
    /\ fork[e] # NoFork
    /\ fork' = [fork EXCEPT ![e] = NoFork]
    /\ UNCHANGED <<versions, applied>>

TemplateNext ==
    \/ ImportActive \/ ImportInactive
    \/ \E v \in versions : activatePromptTemplateSet(v) \/ deletePromptTemplateSet(v)
    \/ \E e \in TemplateEditors :
         \/ forkPromptTemplateSet(e) \/ ForkRollsBack(e)
         \/ \E v \in versions, edit \in TemplateEdits : BeginFork(e, v, edit)

TemplateSpec == TemplateInit /\ [][TemplateNext]_templateVars
-----------------------------------------------------------------------------
\* prompt-templates.ts: "concurrent imports/forks/activations cannot allocate duplicate
\* versions or leave two sets active", and an edit that was answered with success is in
\* the active version until another one is activated or imported.
TemplatesConsistent ==
    /\ Cardinality(ActiveVersion) = 1
    /\ \A u, v \in versions : u.version = v.version => u = v
    /\ \A v \in ActiveVersion : applied \subseteq v.holds
=============================================================================
