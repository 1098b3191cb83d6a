------------------------------- MODULE MCServices -------------------------------
(***************************************************************************)
(* Instances, for TLC, of the services around the generation jobs.  They share   *)
(* no variable: what one reads of another's rows is an input of its own, free to *)
(* change.  So one of them moves in a behaviour, the one `subject` names, and    *)
(* the others stay in one initial state: every reachable state of each is        *)
(* reached, and no product of them.                                               *)
(***************************************************************************)
EXTENDS CanvasDocuments, Credentials, ModelRevisions, PluginCatalog, SetupFlow, RuntimeSettings,
        PromptTemplates, SchemaMigrations, AccountAccess, ProviderCalls, MCRequests, MCProviderRequests,
        MCPluginPackages, MCTemplateEntries, TLC

VARIABLE subject   \* the service this behaviour is about

vars == <<subject, docVars, credentialVars, modelVars, pluginVars, setupVars, settingsVars,
          templateVars, migrationVars, accessVars, callVars, requestVars, wireVars, packageVars,
          entryVars>>

\* The requests of anonymous visitors differ in nothing but their name.
Symmetry == Permutations(Visitors)

Subjects == {"document", "credential", "model", "plugin", "setup", "settings", "template",
             "migration", "access", "call", "request", "wire", "package", "doors", "page", "preprocessing"}

\* A service that is not the subject is in one initial state.
Idle(name, state) == subject = name \/ state

Init ==
    /\ subject \in Subjects
    /\ PackageInit /\ Idle("package", pack = NoUpload)
    /\ RequestInit /\ Idle("request", published = "image")
    /\ CallInit /\ Idle("call", adapter = "veo")
    /\ CredentialInit /\ Idle("credential", credential.target = "a" /\ credential.sealed.key = "current")
    /\ ModelInit /\ model.plugin = "p"    \* the plugins are interchangeable
    /\ MigrationInit
    /\ Idle("migration", \A r \in Runners : files[r] = [m \in 1 .. BaselineMax |-> "a"])
    /\ DocInit /\ PluginInit /\ SetupInit /\ SettingsInit /\ TemplateInit /\ AccessInit /\ WireInit
    /\ EntriesInit

Moves(name, next) == subject = name /\ next /\ UNCHANGED subject

StoreNext ==
    /\ UNCHANGED <<modelVars, pluginVars, setupVars, settingsVars, callVars, requestVars, wireVars,
                   packageVars, entryVars>>
    /\ \/ /\ Moves("document", DocNext)
          /\ UNCHANGED <<credentialVars, templateVars, migrationVars, accessVars>>
       \/ /\ Moves("credential", CredentialNext)
          /\ UNCHANGED <<docVars, templateVars, migrationVars, accessVars>>
       \/ /\ Moves("template", TemplateNext)
          /\ UNCHANGED <<docVars, credentialVars, migrationVars, accessVars>>
       \/ /\ Moves("migration", MigrationNext)
          /\ UNCHANGED <<docVars, credentialVars, templateVars, accessVars>>
       \/ /\ Moves("access", AccessNext)
          /\ UNCHANGED <<docVars, credentialVars, templateVars, migrationVars>>

PlatformNext ==
    /\ UNCHANGED <<docVars, credentialVars, templateVars, migrationVars, accessVars, entryVars>>
    /\ \/ /\ Moves("model", ModelNext)
          /\ UNCHANGED <<pluginVars, setupVars, settingsVars, callVars, requestVars, wireVars, packageVars>>
       \/ /\ Moves("plugin", PluginNext)
          /\ UNCHANGED <<modelVars, setupVars, settingsVars, callVars, requestVars, wireVars, packageVars>>
       \/ /\ Moves("setup", SetupNext)
          /\ UNCHANGED <<modelVars, pluginVars, settingsVars, callVars, requestVars, wireVars, packageVars>>
       \/ /\ Moves("settings", SettingsNext)
          /\ UNCHANGED <<modelVars, pluginVars, setupVars, callVars, requestVars, wireVars, packageVars>>
       \/ /\ Moves("request", RequestNext)
          /\ UNCHANGED <<modelVars, pluginVars, setupVars, settingsVars, callVars, wireVars, packageVars>>
       \/ /\ Moves("call", CallNext)
          /\ UNCHANGED <<modelVars, pluginVars, setupVars, settingsVars, requestVars, wireVars, packageVars>>
       \/ /\ Moves("wire", WireNext)
          /\ UNCHANGED <<modelVars, pluginVars, setupVars, settingsVars, callVars, requestVars, packageVars>>
       \/ /\ Moves("package", PackageNext)
          /\ UNCHANGED <<modelVars, pluginVars, setupVars, settingsVars, callVars, requestVars, wireVars>>

EntryNext ==
    /\ UNCHANGED <<docVars, credentialVars, templateVars, migrationVars, accessVars, modelVars, pluginVars,
                   setupVars, settingsVars, callVars, requestVars, wireVars, packageVars>>
    /\ Moves("doors", DoorsNext) \/ Moves("page", PageMoves) \/ Moves("preprocessing", PreprocessingMoves)

Next == StoreNext \/ PlatformNext \/ EntryNext

Spec == Init /\ [][Next]_vars

\* Every service keeps its state in the types of its tables and of its processes' memory.  One
\* that is not the subject stays in an initial state, which is looked at where it is the subject.
TypeOK ==
    /\ subject = "document" => DocTypeOK
    /\ subject = "credential" => CredentialTypeOK
    /\ subject = "model" => ModelTypeOK
    /\ subject = "plugin" => PluginTypeOK
    /\ subject = "setup" => SetupTypeOK
    /\ subject = "settings" => SettingsTypeOK
    /\ subject = "template" => TemplateTypeOK
    /\ subject = "migration" => MigrationTypeOK
    /\ subject = "access" => AccessTypeOK
    /\ subject = "call" => CallTypeOK
    /\ subject = "request" => RequestTypeOK
    /\ subject = "wire" => WireTypeOK
    /\ subject = "package" => PackageTypeOK
    /\ subject \in {"doors", "page", "preprocessing"} => EntriesTypeOK
=============================================================================
