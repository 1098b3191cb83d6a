--------------------------- MODULE RuntimeSettings ---------------------------
(***************************************************************************)
(* A connection-tested settings row (object storage; SMTP is stored by the     *)
(* same handlers), its section in onboarding_state with the configuration       *)
(* revision, and the settings cache of every process.                            *)
(*                                                                               *)
(* A repository update runs its statements on the pool, not in a transaction:    *)
(* the settings row is written first, the section and the revision after.         *)
(***************************************************************************)
EXTENDS Naturals

CONSTANTS
    Savers,             \* requests that save or test the settings
    SettingsReaders,    \* processes that resolve settings, API and workers
    Endpoints, Keys,    \* values of the settings' fields
    MaxConfigRevision   \* bound on config_revision

ASSUME SettingsAssumption ==
    MaxConfigRevision \in Nat /\ (Endpoints \cup Keys) \cap {"unset", "cleared"} = {}

VARIABLES
    settings,        \* the row, and the configuration that was tested for it, if any
    section,         \* its section and config_revision; a save stopped since it moved
    save,            \* per request: the merged configuration and how far it got
    settingsCache,   \* per process: empty or one entry
    resolving        \* per process: the load under way

settingsVars == <<settings, section, save, settingsCache, resolving>>

Config == [endpoint : Endpoints \cup {"unset"}, secret : Keys \cup {"unset"}]
NoConfig == [endpoint |-> "unset", secret |-> "unset"]
\* What a request asks for: a field that is not given is kept, a secret may be cleared.
Asked == [endpoint : Endpoints \cup {"unset"}, secret : Keys \cup {"unset", "cleared"}]
Status == {"not_configured", "configured", "verified"}
Revisions == 0 .. MaxConfigRevision
NoSaveCall == [pc |-> "idle", config |-> NoConfig, status |-> "not_configured"]

SettingsTypeOK ==
    /\ settings \in [config : Config, tested : Config, status : Status]
    /\ section \in [complete : BOOLEAN, revision : Revisions, interrupted : BOOLEAN]
    /\ save \in [Savers -> [pc : {"idle", "write", "mark"}, config : Asked, status : Status]]
    /\ settingsCache \in [SettingsReaders -> SUBSET [revision : Revisions, config : Config]]
    /\ resolving \in
         [SettingsReaders -> SUBSET [revision : Revisions, config : Config, loaded : BOOLEAN]]

SettingsInit ==
    /\ settings = [config |-> NoConfig, tested |-> NoConfig, status |-> "not_configured"]
    /\ section = [complete |-> FALSE, revision |-> 0, interrupted |-> FALSE]
    /\ save = [r \in Savers |-> NoSaveCall]
    /\ settingsCache = [p \in SettingsReaders |-> {}]
    /\ resolving = [p \in SettingsReaders |-> {}]

\* What a request may resolve: the row, or an entry that its process still serves.
Resolved == {settings.config} \cup {c.config : c \in UNION {settingsCache[p] : p \in SettingsReaders}}

Merge(given, current) ==
    [f \in {"endpoint", "secret"} |-> IF given[f] = "unset" THEN current[f] ELSE given[f]]

\* setupStorage and setupStorageTest: fields that are not given come from the settings as
\* they were resolved.  A test needs a secret, and answers for the merged configuration;
\* when it fails nothing is saved.  A cleared secret is none, so no test accepts it.
BeginSave(r, given, test) ==
    /\ save[r] = NoSaveCall
    /\ \E current \in Resolved :
         LET merged == Merge(given, current) IN
         /\ test => merged.secret \notin {"unset", "cleared"}
         /\ save' = [save EXCEPT ![r] = [ pc |-> "write", config |-> merged,
                                          status |-> IF test THEN "verified" ELSE "configured" ]]
    /\ UNCHANGED <<settings, section, settingsCache, resolving>>

\* A secret that was neither given nor resolved is kept, a cleared one is removed.
SecretOf(r) ==
    LET asked == save[r].config.secret IN
    IF asked = "unset" THEN settings.config.secret ELSE IF asked = "cleared" THEN "unset" ELSE asked

\* Mutant: only the secret is written, the other fields keep what the row holds by now.
SecretWritten(r) == [settings.config EXCEPT !.secret = SecretOf(r)]

\* Every field is written.
Written(r) == [save[r].config EXCEPT !.secret = SecretOf(r)]

updateStorageSettings(r) ==
    /\ save[r].pc = "write"
    /\ settings' = [ config |-> Written(r), status |-> save[r].status,
                     tested |-> IF save[r].status = "verified" THEN save[r].config ELSE NoConfig ]
    /\ save' = [save EXCEPT ![r] = [NoSaveCall EXCEPT !.pc = "mark", !.status = save[r].status]]
    /\ UNCHANGED <<section, settingsCache, resolving>>

\* Its own statement, and the only one that moves the revision.
markOnboardingSection(r) ==
    /\ save[r].pc = "mark" /\ section.revision < MaxConfigRevision
    /\ section' = [ complete |-> save[r].status = "verified", revision |-> section.revision + 1,
                     interrupted |-> FALSE ]
    /\ save' = [save EXCEPT ![r] = NoSaveCall]
    /\ UNCHANGED <<settings, settingsCache, resolving>>

\* The process dies, or a statement fails: between the two the row has changed and the
\* revision has not.
SettingsSaveStops(r) ==
    /\ save[r] # NoSaveCall
    /\ save' = [save EXCEPT ![r] = NoSaveCall]
    /\ section' = [section EXCEPT !.interrupted = @ \/ save[r].pc = "mark"]
    /\ UNCHANGED <<settings, settingsCache, resolving>>
-----------------------------------------------------------------------------
(* cached() of the API and ensureCache() of the worker                         *)
\* An entry is served while the revision it carries is the one in the database.
ReadRevision(p) ==
    /\ resolving[p] = {}
    /\ \A c \in settingsCache[p] : c.revision # section.revision
    /\ resolving' = [resolving EXCEPT ![p] =
            {[revision |-> section.revision, config |-> NoConfig, loaded |-> FALSE]}]
    /\ UNCHANGED <<settings, section, save, settingsCache>>

\* The rows, or when none is there the defaults of the environment.
LoadRows(p) ==
    /\ \E load \in resolving[p] :
         /\ ~ load.loaded
         /\ resolving' = [resolving EXCEPT ![p] =
                 {[load EXCEPT !.config = settings.config, !.loaded = TRUE]}]
    /\ UNCHANGED <<settings, section, save, settingsCache>>

\* The revision that was read before the rows.
Tag(load) == load.revision

\* Loads of one process may overlap; the last to end sets the entry.
EntrySet(p) ==
    /\ \E load \in resolving[p] :
         /\ load.loaded
         /\ settingsCache' = [settingsCache EXCEPT ![p] =
                 {[revision |-> Tag(load), config |-> load.config]}]
    /\ resolving' = [resolving EXCEPT ![p] = {}]
    /\ UNCHANGED <<settings, section, save>>

\* The time to live, invalidateRuntimeSettings, or a restart.
CacheDropped(p) ==
    /\ settingsCache[p] # {}
    /\ settingsCache' = [settingsCache EXCEPT ![p] = {}]
    /\ UNCHANGED <<settings, section, save, resolving>>

SettingsNext ==
    \/ \E r \in Savers :
         \/ \E given \in Asked, test \in BOOLEAN : BeginSave(r, given, test)
         \/ updateStorageSettings(r) \/ markOnboardingSection(r) \/ SettingsSaveStops(r)
    \/ \E p \in SettingsReaders : ReadRevision(p) \/ LoadRows(p) \/ EntrySet(p) \/ CacheDropped(p)

SettingsSpec == SettingsInit /\ [][SettingsNext]_settingsVars
-----------------------------------------------------------------------------
VerifiedWasTested == settings.status = "verified" => settings.config = settings.tested

NoStaleSettings ==
    (\A r \in Savers : save[r].pc # "mark") /\ ~ section.interrupted =>
        \A p \in SettingsReaders : \A c \in settingsCache[p] :
            c.revision = section.revision => c.config = settings.config

\* setup/handlers.ts, "Persist only after a successful connection": whatever saves
\* interleave, a row that says 'verified' holds exactly the configuration that was tested;
\* shared/runtime.ts, "a settings change is observed without a restart": no process serves
\* other settings than the row's once every save of them has moved the revision.
SettingsHonest == VerifiedWasTested /\ NoStaleSettings
=============================================================================
