--------------------------- MODULE TemplateEntries ---------------------------
(***************************************************************************)
(* What the versions of the prompt templates hold: the doors an entry comes in   *)
(* by, with the checks of each, the page of the administration that edits the      *)
(* active version, and the preprocessing of a job, which picks an entry, keeps it   *)
(* as the job's snapshot and renders it.                                             *)
(*                                                                               *)
(* Names are numbers; descriptions and paths are left out.  How transactions         *)
(* exclude each other is PromptTemplates': here each is one step.                     *)
(***************************************************************************)
EXTENDS Naturals, Sequences, FiniteSets

CONSTANTS
    LastTemplateName,     \* the legal names are 1 to this; 0 is blank, above is too long
    MaxSortOrder,         \* PROMPT_TEMPLATE_MAX_SORT_ORDER
    MaxTemplates,         \* PROMPT_TEMPLATE_MAX_ENTRIES, MAX_TEMPLATES
    MaxInstructionBytes,  \* PROMPT_TEMPLATE_MAX_INSTRUCTION_BYTES
    MaxFileBytes,         \* MAX_TEMPLATE_BYTES
    KnownVariables,       \* PROMPT_TEMPLATE_VAR_LOOKUP
    Instructions,         \* texts, as far as they are told apart
    TemplateItems,        \* entries that are posted, typed or in the index
    TemplateLists,        \* lists that are posted, or in the file of the index
    Preprocessors,        \* workers that may preprocess the job
    MaxTemplateSets,      \* bound on versions
    MaxSwaps              \* bound on changes of the active version

ASSUME EntriesAssumption ==
    /\ LastTemplateName \in Nat /\ MaxSortOrder \in Nat /\ MaxTemplates \in Nat \ {0}
    /\ MaxTemplates <= MaxSortOrder + 1       \* 100 and 1000000
    /\ MaxInstructionBytes \in Nat /\ MaxFileBytes \in Nat
    /\ MaxTemplateSets \in Nat /\ MaxSwaps \in Nat
    /\ Instructions \subseteq [ blank : BOOLEAN, nul : BOOLEAN, stray : BOOLEAN, bytes : Nat,
                                variables : SUBSET STRING ]
    /\ TemplateItems \subseteq [name : Nat, text : Instructions, sort : SUBSET Nat]
    /\ \A item \in TemplateItems : \A m, n \in item.sort : m = n      \* one, or not given
    /\ TemplateLists \subseteq Seq(TemplateItems)

VARIABLES
    templateSets,   \* the versions in the order they were made
    activeSet,      \* the active one, 0 before the first
    swaps,          \* config_revision, as far as the templates move it
    templatePage,   \* the page: what it shows, a fetch and an edit under way
    snapshot,       \* template_instruction_snapshot of the job's optimization: none or one text
    finished,       \* it has its final prompt
    attempt         \* per worker: its preprocessing of the job

storeVars == <<templateSets, activeSet, swaps>>
jobVars == <<snapshot, finished, attempt>>
entryVars == <<storeVars, templatePage, jobVars>>

TemplateEntry == [name : Nat, text : Instructions, sort : Nat]
TemplateSet == [live : BOOLEAN, entries : SUBSET TemplateEntry]
Versions == 0 .. MaxTemplateSets
Seen == [set : Versions, swaps : 0 .. MaxSwaps]
NoneSeen == [set |-> 0, swaps |-> 0]

Order == [set : Versions, entry : TemplateEntry]
Page ==
    [ shown : Seen, failed : BOOLEAN, fetch : {"none", "asked", "read"}, got : Seen,
      pc : {"idle", "create", "delete", "made", "refetch"}, target : SUBSET Order, order : SUBSET Order,
      made : Seen, from : Versions, edited : 0 .. MaxSwaps ]

Attempt == [ pc : {"idle", "templates", "select", "render", "optimize", "unrendered"}, cached : Versions,
             choices : SUBSET Instructions, kept : SUBSET Instructions, text : SUBSET Instructions ]
NoAttempt == [pc |-> "idle", cached |-> 0, choices |-> {}, kept |-> {}, text |-> {}]

EntriesTypeOK ==
    /\ templateSets \in Seq(TemplateSet) /\ Len(templateSets) <= MaxTemplateSets
    /\ activeSet \in 0 .. Len(templateSets) /\ swaps \in 0 .. MaxSwaps
    /\ templatePage \in Page
    /\ snapshot \in SUBSET Instructions /\ finished \in BOOLEAN
    /\ attempt \in [Preprocessors -> Attempt]
-----------------------------------------------------------------------------
(* The checks of the doors                                                     *)

\* validatePromptTemplateInstruction, and validateTemplateImport of the setup
LegalInstruction(text) ==
    /\ ~ text.blank /\ ~ text.nul /\ text.bytes <= MaxInstructionBytes
    /\ text.variables \subseteq KnownVariables /\ ~ text.stray

\* loadEntry: a file is bounded otherwise, and may be blank unless it is empty.
LegalFile(text) ==
    /\ text.bytes \in 1 .. MaxFileBytes /\ ~ text.nul
    /\ text.variables \subseteq KnownVariables /\ ~ text.stray

\* renderPromptTemplate throws PROMPT_TEMPLATE_FILE_INVALID for any other variable.
Renders(text) == text.variables \subseteq KnownVariables

LegalName(name) == name \in 1 .. LastTemplateName
LegalEntry(e) == LegalName(e.name) /\ LegalInstruction(e.text) /\ e.sort <= MaxSortOrder

\* An entry as it is stored; the sort order that is not given is `default`.
StoredEntry(item, sort, default) ==
    [ name |-> item.name, text |-> item.text,
      sort |-> IF sort = {} THEN default ELSE CHOOSE n \in sort : TRUE ]

DistinctNames(items) ==
    \A i, j \in DOMAIN items : items[i].name = items[j].name => i = j

Count(items) == Len(items) \in 1 .. MaxTemplates

\* The sort order of an entry of a list is its place there, unless it is given.
ImportedEntry(items, i) == StoredEntry(items[i], items[i].sort, i - 1)
ImportedEntries(items) == {ImportedEntry(items, i) : i \in DOMAIN items}

\* validatePromptTemplateImport
AcceptedImport(items) ==
    Count(items) /\ DistinctNames(items) /\ \A i \in DOMAIN items : LegalEntry(ImportedEntry(items, i))

\* validateTemplateImport of the setup, whose list has no use for a sort order
SetupEntries(items) == {StoredEntry(items[i], {}, i - 1) : i \in DOMAIN items}
AcceptedSetup(items) ==
    /\ Count(items) /\ DistinctNames(items)
    /\ \A i \in DOMAIN items : LegalName(items[i].name) /\ LegalInstruction(items[i].text)

\* loadPromptTemplateIndex: one entry that is not valid spoils the index.
ValidIndex(items) ==
    /\ Count(items) /\ DistinctNames(items)
    /\ \A i \in DOMAIN items : LegalName(items[i].name) /\ LegalFile(items[i].text)

\* buildPromptTemplateExportPayload, in any order.
Exported(e) == [name |-> e.name, text |-> e.text, sort |-> {e.sort}]
Exports(entries) ==
    {items \in [1 .. Cardinality(entries) -> {Exported(e) : e \in entries}] :
        /\ \A i, j \in DOMAIN items : items[i] = items[j] => i = j
        /\ \A e \in entries : \E i \in DOMAIN items : items[i] = Exported(e)}
-----------------------------------------------------------------------------
(* The versions                                                                *)
EntriesOf(s) == templateSets[s].entries
Adds(entries) ==
    /\ Len(templateSets) < MaxTemplateSets
    /\ templateSets' = Append(templateSets, [live |-> TRUE, entries |-> entries])

\* bumpConfigRevision
Swaps(s) == activeSet' = s /\ swaps < MaxSwaps /\ swaps' = swaps + 1

setupTemplatesImport(items) ==
    /\ AcceptedSetup(items)
    /\ Adds(SetupEntries(items)) /\ Swaps(Len(templateSets) + 1)
    /\ UNCHANGED <<templatePage, jobVars>>

importPromptTemplates(items, activate) ==
    /\ AcceptedImport(items)
    /\ Adds(ImportedEntries(items))
    /\ IF activate THEN Swaps(Len(templateSets) + 1) ELSE UNCHANGED <<activeSet, swaps>>
    /\ UNCHANGED <<templatePage, jobVars>>

activateTemplates(s) ==
    /\ templateSets[s].live
    /\ Swaps(s)
    /\ UNCHANGED <<templateSets, templatePage, jobVars>>

\* CANNOT_DELETE_ACTIVE_SET.  What a page or a worker has read of it stays readable.
deleteTemplates(s) ==
    /\ templateSets[s].live /\ s # activeSet
    /\ templateSets' = [templateSets EXCEPT ![s].live = FALSE]
    /\ UNCHANGED <<activeSet, swaps, templatePage, jobVars>>

\* TEMPLATE_SET_NOT_ACTIVE
Editable(s) == s # 0 /\ s = activeSet

\* forkPromptTemplateSet of the active version
Forks(entries) ==
    /\ entries # {} /\ Cardinality(entries) <= MaxTemplates
    /\ Adds(entries) /\ Swaps(Len(templateSets) + 1)

CreatesEntry(s, e) ==
    /\ Editable(s) /\ LegalEntry(e)
    /\ \A other \in EntriesOf(s) : other.name # e.name          \* DUPLICATE_TEMPLATE_NAME
    /\ Forks(EntriesOf(s) \cup {e})

DeletesEntry(s, e) ==
    /\ Editable(s) /\ e \in EntriesOf(s)
    /\ Forks(EntriesOf(s) \ {e})

\* What a patch with some of an item's fields makes of an entry.
Patched(e, item) ==
    {new \in [name : {e.name, item.name}, text : {e.text, item.text}, sort : {e.sort} \cup item.sort] :
        /\ new.name # e.name => LegalName(new.name)
        /\ new.text # e.text => LegalInstruction(new.text)
        /\ new.sort # e.sort => new.sort <= MaxSortOrder}

\* The page has no form for it.
updatePromptTemplateEntry(s, e, item) ==
    /\ Editable(s) /\ e \in EntriesOf(s)
    /\ \E new \in Patched(e, item) :
         /\ \A other \in EntriesOf(s) \ {e} : other.name # new.name
         /\ Forks((EntriesOf(s) \ {e}) \cup {new})
    /\ UNCHANGED <<templatePage, jobVars>>

\* The sort order that is not given is 0, not the next: validatePromptTemplateEntryCreate.
createPromptTemplateEntry(s, item) ==
    CreatesEntry(s, StoredEntry(item, item.sort, 0)) /\ UNCHANGED <<templatePage, jobVars>>
deletePromptTemplateEntry(s, e) == DeletesEntry(s, e) /\ UNCHANGED <<templatePage, jobVars>>

DoorsNext ==
    \/ \E items \in TemplateLists :
         setupTemplatesImport(items) \/ \E activate \in BOOLEAN : importPromptTemplates(items, activate)
    \/ \E s \in DOMAIN templateSets :
         \/ activateTemplates(s) \/ deleteTemplates(s)
         \/ \E item \in TemplateItems : createPromptTemplateEntry(s, item)
         \/ \E e \in EntriesOf(s) :
              \/ deletePromptTemplateEntry(s, e)
              \/ \E item \in TemplateItems : updatePromptTemplateEntry(s, e, item)
-----------------------------------------------------------------------------
(* The page                                                                    *)
OnlyPage == UNCHANGED <<storeVars, jobVars>>

\* useQuery: once when the page opens, and by the button while nothing is being fetched.
RefetchTemplates ==
    /\ templatePage.fetch = "none"
    /\ templatePage' = [templatePage EXCEPT !.fetch = "asked"]
    /\ OnlyPage

\* getAdminPromptTemplates
ReadTemplates ==
    /\ templatePage.fetch = "asked"
    /\ templatePage' = [templatePage EXCEPT !.fetch = "read", !.got = [set |-> activeSet, swaps |-> swaps]]
    /\ OnlyPage

\* An edit is over when the fetch that followed it is: the lock is released, and the dialog of
\* an entry that was deleted closes.
EditOver(page) ==
    IF page.pc # "refetch" THEN page
    ELSE [page EXCEPT !.pc = "idle", !.order = {}, !.target = page.target \ page.order]
Fetched(page) == [EditOver(page) EXCEPT !.fetch = "none", !.got = NoneSeen]

ShowTemplates ==
    /\ templatePage.fetch = "read"
    /\ templatePage' = [Fetched(templatePage) EXCEPT !.shown = templatePage.got, !.failed = FALSE]
    /\ OnlyPage

\* What was shown stays known, and an entry may still be created from it.
FetchFails ==
    /\ templatePage.fetch # "none"
    /\ templatePage' = [Fetched(templatePage) EXCEPT !.failed = TRUE]
    /\ OnlyPage

\* The dialog of an entry stays open whatever is fetched.
OpenEntry(e) ==
    /\ ~ templatePage.failed
    /\ templatePage' = [templatePage EXCEPT !.target = {[set |-> templatePage.shown.set, entry |-> e]}]
    /\ OnlyPage

CloseEntry ==
    /\ templatePage' = [templatePage EXCEPT !.target = {}]
    /\ OnlyPage

\* One edit at a time: the lock of the actions and createMutation.isPending.
ConfirmDelete ==
    /\ templatePage.pc = "idle" /\ templatePage.target # {}
    /\ templatePage' = [templatePage EXCEPT !.pc = "delete", !.order = templatePage.target]
    /\ OnlyPage

SubmitEntry(item) ==
    /\ templatePage.pc = "idle" /\ templatePage.shown.set # 0
    /\ item.name # 0 /\ ~ item.text.blank
    /\ templatePage' = [templatePage EXCEPT !.pc = "create",
           !.order = {[set |-> templatePage.shown.set, entry |-> StoredEntry(item, {}, 0)]}]
    /\ OnlyPage

\* The request of the page is served.
EditServed ==
    /\ \E o \in templatePage.order :
         \/ templatePage.pc = "create" /\ CreatesEntry(o.set, o.entry)
         \/ templatePage.pc = "delete" /\ DeletesEntry(o.set, o.entry)
    /\ templatePage' = [templatePage EXCEPT !.pc = "made", !.from = activeSet,
                            !.made = [set |-> activeSet', swaps |-> swaps']]
    /\ UNCHANGED jobVars

\* An error, or no answer: the page says so and fetches nothing.
EditFails ==
    /\ templatePage.pc \in {"create", "delete", "made"}
    /\ templatePage' = [templatePage EXCEPT !.pc = "idle", !.order = {}, !.from = 0, !.made = NoneSeen]
    /\ OnlyPage

\* Mutant: a fetch that is under way is waited for.
Joined(fetch) == IF fetch = "none" THEN "asked" ELSE fetch

\* invalidateQueries: a fetch that is under way is given up for a new one.
Invalidated(fetch) == "asked"

EditAnswered ==
    /\ templatePage.pc = "made"
    /\ templatePage' = [templatePage EXCEPT !.pc = "refetch", !.fetch = Invalidated(templatePage.fetch),
           !.edited = templatePage.made.swaps, !.from = 0, !.made = NoneSeen]
    /\ OnlyPage

PageNext ==
    \/ RefetchTemplates \/ ReadTemplates \/ ShowTemplates \/ FetchFails
    \/ CloseEntry \/ ConfirmDelete \/ EditServed \/ EditFails \/ EditAnswered
    \/ \E s \in {templatePage.shown.set} \ {0} : \E e \in EntriesOf(s) : OpenEntry(e)
    \/ \E item \in TemplateItems : SubmitEntry(item)
-----------------------------------------------------------------------------
(* The preprocessing of the job                                                *)
AttemptAt(w, from, change) ==
    /\ attempt[w].pc = from
    /\ attempt' = [attempt EXCEPT ![w] = change]
    /\ UNCHANGED <<storeVars, templatePage>>

\* resolvePromptTemplates: the settings cache of the process is filled again at any time.
CacheFills(w) ==
    /\ AttemptAt(w, attempt[w].pc, [attempt[w] EXCEPT !.cached = activeSet])
    /\ UNCHANGED <<snapshot, finished>>

\* An attempt starts, unless there is a final prompt; a text that an earlier one kept is taken.
BeginAttempt(w) ==
    /\ ~ finished
    /\ AttemptAt(w, "idle",
           [attempt[w] EXCEPT !.pc = IF snapshot = {} THEN "templates" ELSE "render",
                              !.choices = {}, !.kept = snapshot, !.text = snapshot])
    /\ UNCHANGED <<snapshot, finished>>

StoredTexts(s) == IF s = 0 THEN {} ELSE {e.text : e \in EntriesOf(s)}
IndexTexts(items) == {items[i].text : i \in DOMAIN items}

\* The entries of the version that is cached; those of a valid index, or none, if there is no
\* version or it cannot be read.
TemplatesRead(w) ==
    /\ \E choices \in {StoredTexts(attempt[w].cached), {}}
                      \cup {IndexTexts(items) : items \in {l \in TemplateLists : ValidIndex(l)}} :
         AttemptAt(w, "templates",
             [attempt[w] EXCEPT !.pc = IF choices = {} THEN "render" ELSE "select", !.choices = choices])
    /\ UNCHANGED <<snapshot, finished>>

\* "AND template_instruction_snapshot IS NULL"
KeptText(text) == IF snapshot = {} THEN {text} ELSE snapshot

\* The language model names an entry, or says that none fits.
SelectTemplate(w) ==
    /\ \/ \E text \in attempt[w].choices :
            /\ AttemptAt(w, "select", [attempt[w] EXCEPT !.pc = "render", !.text = {text}])
            /\ snapshot' = KeptText(text)
       \/ /\ AttemptAt(w, "select", [attempt[w] EXCEPT !.pc = "render"])
          /\ UNCHANGED snapshot
    /\ UNCHANGED finished

RenderTemplate(w) ==
    /\ AttemptAt(w, "render",
           [attempt[w] EXCEPT !.pc = IF \A text \in attempt[w].text : Renders(text)
                                       THEN "optimize" ELSE "unrendered"])
    /\ UNCHANGED <<snapshot, finished>>

\* The answer, perhaps the repaired one, can be used.
OptimizePrompt(w) ==
    /\ AttemptAt(w, "optimize", [attempt[w] EXCEPT !.pc = "idle"])
    /\ finished' = TRUE
    /\ UNCHANGED snapshot

\* No credential, no answer, an answer that cannot be used, or the worker dies.
AttemptFails(w) ==
    /\ attempt[w].pc # "idle"
    /\ AttemptAt(w, attempt[w].pc, [attempt[w] EXCEPT !.pc = "idle"])
    /\ UNCHANGED <<snapshot, finished>>

JobNext ==
    \E w \in Preprocessors :
        \/ CacheFills(w) \/ BeginAttempt(w) \/ TemplatesRead(w) \/ SelectTemplate(w)
        \/ RenderTemplate(w) \/ OptimizePrompt(w) \/ AttemptFails(w)

EntriesInit ==
    /\ templateSets = <<>> /\ activeSet = 0 /\ swaps = 0
    /\ templatePage = [ shown |-> NoneSeen, failed |-> FALSE, fetch |-> "asked", got |-> NoneSeen,
                        pc |-> "idle", target |-> {}, order |-> {}, made |-> NoneSeen, from |-> 0,
                        edited |-> 0 ]
    /\ snapshot = {} /\ finished = FALSE
    /\ attempt = [w \in Preprocessors |-> NoAttempt]

EntriesNext == DoorsNext \/ PageNext \/ JobNext

EntriesSpec == EntriesInit /\ [][EntriesNext]_entryVars
-----------------------------------------------------------------------------
\* Whichever door an entry came in by, every version holds what the doors promise, and its
\* names are unique; so whatever is picked for a job, from a version or from the index, renders.
EntriesUsable ==
    /\ \A s \in DOMAIN templateSets :
         /\ EntriesOf(s) # {} /\ Cardinality(EntriesOf(s)) <= MaxTemplates
         /\ \A e \in EntriesOf(s) : LegalEntry(e)
         /\ \A e, f \in EntriesOf(s) : e.name = f.name => e = f
    /\ \A w \in Preprocessors : attempt[w].pc # "unrendered"

\* The export of a version is let in again, and is the same version: no edit makes an entry
\* that the import refuses or changes.
ExportsReturn ==
    \A s \in DOMAIN templateSets : \A items \in Exports(EntriesOf(s)) :
        AcceptedImport(items) /\ ImportedEntries(items) = EntriesOf(s)

\* admin-prompt-templates-view.tsx, "the whole active-set query must be refetched rather than
\* patched locally".  An edit of the page is made to the version it was ordered for, which was
\* the active one, so it undoes nobody's; and a page that is ready for the next shows what was
\* read after the last that was answered, unless it says that it could not be read.
PageFollows ==
    LET page == templatePage IN
    /\ page.pc = "made" =>
         \A o \in page.order :
             /\ page.from = o.set
             /\ EntriesOf(page.made.set) \ EntriesOf(o.set) \subseteq {o.entry}
             /\ \A e \in EntriesOf(o.set) \ EntriesOf(page.made.set) : e = o.entry
    /\ page.pc = "idle" /\ ~ page.failed => page.edited <= page.shown.swaps

\* preprocessing/index.ts, "A preserved job instruction snapshot always wins and is never
\* overwritten here": an attempt that found one goes by it, and it is still there.
SnapshotWins ==
    \A w \in Preprocessors :
        attempt[w].pc # "idle" /\ attempt[w].kept # {} =>
            attempt[w].text = attempt[w].kept /\ snapshot = attempt[w].kept

TemplateEntriesSound == EntriesUsable /\ ExportsReturn /\ PageFollows /\ SnapshotWins
=============================================================================
