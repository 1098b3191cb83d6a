--------------------------- MODULE ModelRevisions ---------------------------
(***************************************************************************)
(* One media model: its mutable row in model_configs, the immutable           *)
(* revisions that jobs are pinned to, and the administrators who save it.      *)
(*                                                                             *)
(* A save that names a plugin is one transaction.  A save through a preset, or  *)
(* one that only toggles a field, is a row update followed by a snapshot on      *)
(* separate connections of the pool.                                             *)
(***************************************************************************)
EXTENDS Naturals, Sequences, FiniteSets

CONSTANTS
    Editors,       \* requests of administrators under way
    Plugins,       \* plugin identities (id and version)
    Secrets,       \* ids of provider credentials
    MaxRevisions   \* bound on revisions

ASSUME ModelAssumption == MaxRevisions \in Nat \ {0} /\ "none" \notin Plugins /\ "keep" \notin Secrets

VARIABLES
    model,        \* the row
    revisions,    \* model_config_revisions by number
    catalog,      \* plugins the catalog resolves
    saving,       \* per editor: its call of upsertModel
    disturbed     \* a preset save overlapped another save, or stopped half way

modelVars == <<model, revisions, catalog, saving, disturbed>>

Contract == {"declared", "undeclared"}
Revision == [plugin : Plugins, credential : Secrets, contract : Contract]
Model == [live : BOOLEAN, plugin : Plugins, credential : Secrets, latest : 0 .. MaxRevisions]
Saving == [ pc : {"idle", "plugin", "preset", "look", "relink", "allocate", "insert", "link"},
            plugin : Plugins \cup {"none"}, credential : Secrets \cup {"keep"},
            seen : Secrets \cup {"keep"}, contract : Contract, number : 0 .. MaxRevisions + 1 ]
NotSaving == [ pc |-> "idle", plugin |-> "none", credential |-> "keep", seen |-> "keep",
               contract |-> "undeclared", number |-> 0 ]

ModelTypeOK ==
    /\ model \in Model
    /\ revisions \in Seq(Revision) /\ Len(revisions) <= MaxRevisions
    /\ catalog \subseteq Plugins
    /\ saving \in [Editors -> Saving]
    /\ disturbed \in BOOLEAN

\* A model that was created with a plugin: the row and revision 1.
ModelInit ==
    /\ \E p \in Plugins, c \in Secrets :
         /\ model = [live |-> TRUE, plugin |-> p, credential |-> c, latest |-> 1]
         /\ revisions = <<[plugin |-> p, credential |-> c, contract |-> "declared"]>>
         /\ catalog = Plugins
    /\ saving = [a \in Editors |-> NotSaving]
    /\ disturbed = FALSE

Begin(a, given) ==
    /\ saving[a] = NotSaving
    /\ model.live
    /\ saving' = [saving EXCEPT ![a] = given]
    /\ disturbed' = (disturbed \/ \E b \in Editors \ {a} :
                        /\ saving[b] # NotSaving
                        /\ "plugin" # given.pc \/ saving[b].pc # "plugin")
    /\ UNCHANGED <<model, revisions, catalog>>

Step(a, pc, next) ==
    /\ saving[a].pc = pc
    /\ saving' = [saving EXCEPT ![a] = next]
    /\ UNCHANGED <<catalog, disturbed>>

\* modelSavePath = 'plugin': the contract is read from the manifest of a plugin that the
\* catalog resolves; the credential is the one given or stays as it is.
BeginPluginSave(a, p, c) ==
    /\ p \in catalog
    /\ Begin(a, [ pc |-> "plugin", plugin |-> p, credential |-> c, seen |-> model.credential,
                  contract |-> "declared", number |-> 0 ])

\* modelSavePath = 'preset': with a preset (given, or stored and still matching) the
\* contract is its manifest's, undeclared when the catalog no longer resolves it; without
\* one it is read from the row, which carries none.
BeginPresetSave(a, p, c) ==
    Begin(a, [ pc |-> "preset", plugin |-> p, credential |-> c, seen |-> "keep",
               contract |-> IF p \in catalog THEN "declared" ELSE "undeclared", number |-> 0 ])

Given(x, otherwise) == IF x \in {"keep", "none"} THEN otherwise ELSE x

\* One transaction: the row and the next revision.  A credential that was not given comes
\* from the row as it was read before the transaction.
savePluginModel(a) ==
    /\ Step(a, "plugin", NotSaving)
    /\ \/ /\ model.live /\ Len(revisions) < MaxRevisions
          /\ revisions' = Append(revisions, [ plugin |-> saving[a].plugin, contract |-> "declared",
                                   credential |-> Given(saving[a].credential, saving[a].seen) ])
          /\ model' = [model EXCEPT !.plugin = saving[a].plugin, !.latest = Len(revisions) + 1,
                                    !.credential = Given(saving[a].credential, @)]
       \/ UNCHANGED <<model, revisions>>      \* refused, NOT_FOUND or rolled back

savePresetModel(a) ==
    LET row == [ model EXCEPT !.plugin = Given(saving[a].plugin, @),
                              !.credential = Given(saving[a].credential, @) ]
    IN \/ /\ model.live
          /\ Step(a, "preset", [saving[a] EXCEPT !.pc = "look", !.plugin = row.plugin,
                                                 !.credential = row.credential])
          /\ model' = row
          /\ UNCHANGED revisions
       \/ Step(a, "preset", NotSaving) /\ UNCHANGED <<model, revisions>>
-----------------------------------------------------------------------------
(* snapshotRevisionForRow, statement by statement                              *)
\* Mutant: revisions are matched by model alone.
SameContract(i, given) == TRUE

\* The digest names model, plugin, capabilities and defaults: neither the credential nor
\* the endpoint.
SameDigest(i, given) == revisions[i].plugin = given.plugin /\ revisions[i].contract = given.contract

LookForDigest(a) ==
    LET same == {i \in DOMAIN revisions : SameDigest(i, saving[a])} IN
    /\ \/ same = {} /\ Step(a, "look", [saving[a] EXCEPT !.pc = "allocate"])
       \/ \E i \in same :
             /\ \A j \in same : j <= i     \* ORDER BY revision DESC LIMIT 1
             /\ Step(a, "look", [NotSaving EXCEPT !.pc = "relink", !.number = i])
    /\ UNCHANGED <<model, revisions>>

\* createModelConfigRevision on the pool: its FOR UPDATE lock ends with the statement.
AllocateRevision(a) ==
    /\ Step(a, "allocate", [saving[a] EXCEPT !.pc = "insert", !.number = Len(revisions) + 1])
    /\ UNCHANGED <<model, revisions>>

\* UNIQUE(model_id, revision): MODEL_CONFIG_REVISION_CONFLICT, which presetRevisionOrRow
\* swallows.
InsertRevision(a) ==
    \/ /\ saving[a].number = Len(revisions) + 1 /\ Len(revisions) < MaxRevisions
       /\ revisions' = Append(revisions, [ plugin |-> saving[a].plugin, contract |-> saving[a].contract,
                                           credential |-> saving[a].credential ])
       /\ Step(a, "insert", [NotSaving EXCEPT !.pc = "link", !.number = saving[a].number])
       /\ UNCHANGED model
    \/ /\ saving[a].number <= Len(revisions)
       /\ Step(a, "insert", NotSaving)
       /\ UNCHANGED <<model, revisions>>

LinkLatest(a) ==
    /\ Step(a, "relink", NotSaving) \/ Step(a, "link", NotSaving)
    /\ model' = [model EXCEPT !.latest = saving[a].number]
    /\ UNCHANGED revisions

\* A statement fails, or the process dies.
SaveStops(a) ==
    /\ saving[a].pc \in {"look", "relink", "allocate", "insert", "link"}
    /\ saving' = [saving EXCEPT ![a] = NotSaving]
    /\ disturbed' = TRUE
    /\ UNCHANGED <<model, revisions, catalog>>

deleteModel ==
    /\ model.live
    /\ model' = [model EXCEPT !.live = FALSE]
    /\ UNCHANGED <<revisions, catalog, saving, disturbed>>

\* The worker activates, or an administrator disables, an installed plugin.
CatalogChanges(p) ==
    /\ catalog' \in {catalog \cup {p}, catalog \ {p}}
    /\ UNCHANGED <<model, revisions, saving, disturbed>>

upsertModel(a) ==
    \/ \E c \in Secrets \cup {"keep"}, p \in Plugins : BeginPluginSave(a, p, c)
    \/ \E c \in Secrets \cup {"keep"}, p \in Plugins \cup {"none"} : BeginPresetSave(a, p, c)
    \/ savePluginModel(a) \/ savePresetModel(a)
    \/ LookForDigest(a) \/ AllocateRevision(a) \/ InsertRevision(a) \/ LinkLatest(a)
    \/ SaveStops(a)

ModelNext ==
    \/ \E a \in Editors : upsertModel(a)
    \/ \E p \in Plugins : CatalogChanges(p)
    \/ deleteModel

ModelSpec == ModelInit /\ [][ModelNext]_modelVars
-----------------------------------------------------------------------------
AtRest == \A a \in Editors : saving[a] = NotSaving

\* queries.ts: the revision behind latest_revision_id is "the authority": whatever saves
\* came before, as long as none overlapped a preset save or stopped half way, it exists
\* and names the plugin the row names.
LatestNamesPlugin ==
    /\ model.latest \in DOMAIN revisions
    /\ AtRest /\ ~ disturbed => revisions[model.latest].plugin = model.plugin
=============================================================================
