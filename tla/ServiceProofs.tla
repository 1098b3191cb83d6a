---------------------------- MODULE ServiceProofs ----------------------------
(***************************************************************************)
(* The services around the generation jobs, each with its inductive invariant     *)
(* and the property it establishes, whatever the constants are: the setup, the      *)
(* settings, credentials, plugins, models, prompt templates, migrations, accounts,    *)
(* the calls to the provider and the canvas documents.  They share no variables, and  *)
(* each theorem is about the specification of its own service.                          *)
(***************************************************************************)
EXTENDS SetupFlow, RuntimeSettings, Credentials, PluginCatalog, ModelRevisions, PromptTemplates,
        SchemaMigrations, AccountAccess, ProviderCalls, CanvasDocuments, TemplateEntries, FiniteSetTheorems,
        TLAPS
-----------------------------------------------------------------------------
(* Setup.  Before the setup is complete a session exists only under a consumed   *)
(* claim, and a request that sweeps has seen it complete.                          *)
SetupInv ==
    /\ onboarding \in [complete : BOOLEAN, done : SUBSET RequiredSections]
    /\ claim \in [state : {"none", "live", "expired", "consumed"}, attempts : Nat, codes : Nat]
    /\ setupSessions \in {0, 1}
    /\ setup \in [SetupRequests -> {"idle", "claim", "admin", "complete", "sweep"}]
    /\ ~ onboarding.complete /\ claim.state # "consumed" => setupSessions = 0
    /\ \A r \in SetupRequests : setup[r] = "sweep" => onboarding.complete
    /\ swept => onboarding.complete /\ setupSessions = 0

\* A claim that raced a completion opens no session once the sessions were swept, and there
\* is never more than one.
THEOREM SetupStaysClosed == SetupSpec => []SetupClosed
<1>1. SetupInit => SetupInv
  BY DEF SetupInit, SetupInv, RequiredSections
<1>2. SetupInv /\ [SetupNext]_setupVars => SetupInv'
  <2> SUFFICES ASSUME SetupInv, [SetupNext]_setupVars PROVE SetupInv'
    OBVIOUS
  <2> USE DEF SetupInv, At
  <2>1. CASE MarkBootstrap
    BY <2>1 DEF MarkBootstrap, RequiredSections
  <2>2. CASE ensureSetupClaim
    BY <2>2 DEF ensureSetupClaim
  <2>3. CASE ClaimExpires
    BY <2>3 DEF ClaimExpires
  <2>4. CASE SetupSessionExpires
    BY <2>4 DEF SetupSessionExpires
  <2>5. CASE AdminLeaves
    BY <2>5 DEF AdminLeaves
  <2>6. ASSUME NEW s \in SettingsSections, MarkSection(s) PROVE SetupInv'
    BY <2>6 DEF MarkSection, RequiredSections
  <2>7. ASSUME NEW r \in SetupRequests, SetupSteps(r) PROVE SetupInv'
    <3>1. CASE BeginClaim(r) \/ BeginAdmin(r) \/ BeginComplete(r)
      BY <3>1 DEF BeginClaim, BeginAdmin, BeginComplete
    <3>2. CASE ConsumeClaim(r)
      BY <3>2 DEF ConsumeClaim, OpensSession
    <3>3. CASE RefuseClaim(r)
      BY <3>3 DEF RefuseClaim
    <3>4. CASE CreateAdmin(r)
      BY <3>4 DEF CreateAdmin, RequiredSections
    <3>5. CASE tryCompleteOnboarding(r)
      BY <3>5 DEF tryCompleteOnboarding
    <3>6. CASE SweepSessions(r)
      BY <3>6 DEF SweepSessions
    <3> QED
      BY <2>7, <3>1, <3>2, <3>3, <3>4, <3>5, <3>6 DEF SetupSteps
  <2>8. CASE UNCHANGED setupVars
    BY <2>8 DEF setupVars
  <2> QED
    BY <2>1, <2>2, <2>3, <2>4, <2>5, <2>6, <2>7, <2>8 DEF SetupNext
<1>3. SetupInv => SetupClosed
  BY DEF SetupInv, SetupClosed
<1> QED
  BY <1>1, <1>2, <1>3, PTL DEF SetupSpec
-----------------------------------------------------------------------------
(* Settings.  What a process loads carries a revision read before the rows; it is     *)
(* the rows' unless a save has written them and not yet moved the revision.             *)
AllMarked == (\A r \in Savers : save[r].pc # "mark") /\ ~ section.interrupted
Fresh(entry) ==
    /\ entry.revision <= section.revision
    /\ AllMarked /\ entry.revision = section.revision => entry.config = settings.config
Entries == [revision : Nat, config : Config]
Loads == [revision : Nat, config : Config, loaded : BOOLEAN]
SaveCall == [pc : {"idle", "write", "mark"}, config : Asked, status : Status]
RowTypes ==
    /\ settings \in [config : Config, tested : Config, status : Status]
    /\ section \in [complete : BOOLEAN, revision : Nat, interrupted : BOOLEAN]
    /\ save \in [Savers -> SaveCall]
CacheTypes ==
    /\ settingsCache \in [SettingsReaders -> SUBSET Entries]
    /\ resolving \in [SettingsReaders -> SUBSET Loads]
Tested ==
    /\ VerifiedWasTested
    /\ \A r \in Savers : save[r].pc = "write" /\ save[r].status = "verified" =>
           save[r].config.secret \notin {"unset", "cleared"}
Caches ==
    /\ \A p \in SettingsReaders : \A c \in settingsCache[p] : Fresh(c)
    /\ \A p \in SettingsReaders : \A load \in resolving[p] :
         load.revision <= section.revision /\ (load.loaded => Fresh(load))
SettingsInv == RowTypes /\ CacheTypes /\ Tested /\ Caches

\* A configuration with one secret or another is one.
LEMMA Configs ==
    ASSUME NEW config \in Config
    PROVE  /\ config.secret \in Keys \cup {"unset"} /\ config.endpoint \in Endpoints \cup {"unset"}
           /\ \A k \in Keys \cup {"unset"} : [config EXCEPT !.secret = k] \in Config
           /\ [config EXCEPT !.secret = config.secret] = config
<1> QED
  BY DEF Config

\* So is what a request asks for, once its secret is one that a row can hold.
LEMMA AskedConfigs ==
    ASSUME NEW asked \in Asked
    PROVE  /\ asked.secret \in Keys \cup {"unset", "cleared"}
           /\ asked.secret \notin {"unset", "cleared"} => asked \in Config
           /\ \A k \in Keys \cup {"unset"} : [asked EXCEPT !.secret = k] \in Config
           /\ [asked EXCEPT !.secret = asked.secret] = asked
<1> QED
  BY DEF Asked, Config

\* What is merged of a request and a configuration can be asked for.
LEMMA Merged ==
    ASSUME NEW given \in Asked, NEW current \in Config
    PROVE  Merge(given, current) \in Asked
<1>1. Merge(given, current) =
        [ endpoint |-> IF given.endpoint = "unset" THEN current.endpoint ELSE given.endpoint,
          secret |-> IF given.secret = "unset" THEN current.secret ELSE given.secret ]
  BY DEF Merge
<1> QED
  BY <1>1 DEF Config, Asked

\* A save reads the row and tests what it is about to write, or not.
LEMMA BeginSaveStep ==
    ASSUME SettingsInv, NEW r \in Savers, NEW given \in Asked, NEW test \in BOOLEAN,
           BeginSave(r, given, test)
    PROVE  SettingsInv'
<1>1. PICK current \in Resolved :
         LET merged == Merge(given, current) IN
         /\ test => merged.secret \notin {"unset", "cleared"}
         /\ save' = [save EXCEPT ![r] = [ pc |-> "write", config |-> merged,
                                          status |-> IF test THEN "verified" ELSE "configured" ]]
  BY DEF BeginSave
<1> DEFINE merged == Merge(given, current)
           status == IF test THEN "verified" ELSE "configured"
<1>2. current \in Config
  BY <1>1 DEF Resolved, SettingsInv, RowTypes, CacheTypes, Entries
<1>3. /\ merged \in Asked /\ status \in Status
      /\ status = "verified" => merged.secret \notin {"unset", "cleared"}
  BY <1>1, <1>2, Merged DEF Status
<1>4. save' = [save EXCEPT ![r] = [pc |-> "write", config |-> merged, status |-> status]]
  BY <1>1
<1> HIDE DEF merged, status
<1>5. /\ save' \in [Savers -> SaveCall] /\ save'[r].pc = "write"
      /\ save'[r].status = "verified" => save'[r].config.secret \notin {"unset", "cleared"}
      /\ \A q \in Savers \ {r} : save'[q] = save[q]
      /\ save[r].pc = "idle" /\ UNCHANGED <<settings, section, settingsCache, resolving>>
  BY <1>3, <1>4 DEF BeginSave, SettingsInv, RowTypes, SaveCall, NoSaveCall
<1> QED
  BY <1>5 DEF SettingsInv, RowTypes, CacheTypes, Tested, VerifiedWasTested, Caches, Fresh, AllMarked

\* The row is written: verified only with what this save tested.
LEMMA UpdateStep ==
    ASSUME SettingsInv, NEW r \in Savers, updateStorageSettings(r)
    PROVE  SettingsInv'
<1> DEFINE config == Written(r)
           tested == IF save[r].status = "verified" THEN save[r].config ELSE NoConfig
<1>1. /\ save[r] \in SaveCall /\ settings.config \in Config
      /\ save[r].config \in Asked /\ save[r].status \in Status /\ save[r].pc = "write"
  BY DEF SettingsInv, RowTypes, SaveCall, updateStorageSettings
<1>2. save[r].status = "verified" => save[r].config.secret \notin {"unset", "cleared"}
  BY <1>1 DEF SettingsInv, Tested
<1>3. SecretOf(r) \in Keys \cup {"unset"}
  BY <1>1, AskedConfigs, Configs DEF SecretOf
<1>4. config \in Config /\ tested \in Config
  BY <1>1, <1>2, <1>3, AskedConfigs DEF Written, NoConfig, Config
<1>5. save[r].status = "verified" => config = tested
  BY <1>1, <1>2, AskedConfigs DEF Written, SecretOf
<1>6. /\ settings' = [config |-> config, status |-> save[r].status, tested |-> tested]
      /\ save' = [save EXCEPT ![r] = [NoSaveCall EXCEPT !.pc = "mark", !.status = save[r].status]]
      /\ UNCHANGED <<section, settingsCache, resolving>>
  BY DEF updateStorageSettings
<1> HIDE DEF config, tested
<1>7. /\ settings' \in [config : Config, tested : Config, status : Status]
      /\ settings'.status = "verified" => settings'.config = settings'.tested
  BY <1>1, <1>4, <1>5, <1>6
<1>8. /\ save' \in [Savers -> SaveCall] /\ save'[r].pc = "mark" /\ save'[r].config = NoConfig
      /\ \A q \in Savers \ {r} : save'[q] = save[q]
  BY <1>1, <1>6 DEF SettingsInv, RowTypes, SaveCall, NoSaveCall, NoConfig, Asked
<1>9. RowTypes' /\ CacheTypes' /\ Tested'
  BY <1>6, <1>7, <1>8 DEF SettingsInv, RowTypes, CacheTypes, Tested, VerifiedWasTested, NoConfig
<1>10. ~ AllMarked'
  BY <1>8 DEF AllMarked
<1> QED
  BY <1>6, <1>9, <1>10 DEF SettingsInv, Caches, Fresh

\* The revision moves, and the caches of a process no longer fit the row they came from.
LEMMA MarkStep ==
    ASSUME SettingsInv, NEW r \in Savers, markOnboardingSection(r)
    PROVE  SettingsInv'
<1>1. /\ section' = [ complete |-> save[r].status = "verified", revision |-> section.revision + 1,
                      interrupted |-> FALSE ]
      /\ save' = [save EXCEPT ![r] = NoSaveCall] /\ UNCHANGED <<settings, settingsCache, resolving>>
  BY DEF markOnboardingSection
<1>2. /\ section' \in [complete : BOOLEAN, revision : Nat, interrupted : BOOLEAN]
      /\ section'.revision = section.revision + 1 /\ section.revision \in Nat
  BY <1>1 DEF SettingsInv, RowTypes
<1>3. /\ save' \in [Savers -> SaveCall] /\ save'[r].pc = "idle"
      /\ \A q \in Savers \ {r} : save'[q] = save[q]
  BY <1>1 DEF SettingsInv, RowTypes, SaveCall, NoSaveCall, NoConfig, Config, Asked, Status
<1>4. RowTypes' /\ CacheTypes' /\ Tested'
  BY <1>1, <1>2, <1>3 DEF SettingsInv, RowTypes, CacheTypes, Tested, VerifiedWasTested
<1>5. Caches'
  BY <1>1, <1>2 DEF SettingsInv, CacheTypes, Entries, Loads, Caches, Fresh
<1> QED
  BY <1>4, <1>5 DEF SettingsInv

\* A save that stops between the row and the revision leaves the section interrupted.
LEMMA StopStep ==
    ASSUME SettingsInv, NEW r \in Savers, SettingsSaveStops(r)
    PROVE  SettingsInv'
<1> DEFINE interrupted == section.interrupted \/ save[r].pc = "mark"
<1>1. /\ section' = [section EXCEPT !.interrupted = interrupted]
      /\ save' = [save EXCEPT ![r] = NoSaveCall] /\ UNCHANGED <<settings, settingsCache, resolving>>
  BY DEF SettingsSaveStops
<1>2. interrupted \in BOOLEAN
  BY DEF SettingsInv, RowTypes
<1> HIDE DEF interrupted
<1>3. /\ section' \in [complete : BOOLEAN, revision : Nat, interrupted : BOOLEAN]
      /\ section'.revision = section.revision /\ (section'.interrupted <=> interrupted)
  BY <1>1, <1>2 DEF SettingsInv, RowTypes
<1>4. /\ save' \in [Savers -> SaveCall] /\ save'[r].pc = "idle"
      /\ \A q \in Savers \ {r} : save'[q] = save[q]
  BY <1>1 DEF SettingsInv, RowTypes, SaveCall, NoSaveCall, NoConfig, Config, Asked, Status
<1>5. RowTypes' /\ CacheTypes' /\ Tested'
  BY <1>1, <1>3, <1>4 DEF SettingsInv, RowTypes, CacheTypes, Tested, VerifiedWasTested
<1>6. AllMarked' => AllMarked
  BY <1>3, <1>4 DEF AllMarked, interrupted
<1>7. Caches'
  BY <1>1, <1>3, <1>6 DEF SettingsInv, Caches, Fresh
<1> QED
  BY <1>5, <1>7 DEF SettingsInv

\* What a process loads and caches has a revision it read before the rows.
LEMMA ReaderStep ==
    ASSUME SettingsInv, NEW p \in SettingsReaders,
           ReadRevision(p) \/ LoadRows(p) \/ EntrySet(p) \/ CacheDropped(p)
    PROVE  SettingsInv'
<1>0. UNCHANGED <<settings, section, save>>
  BY DEF ReadRevision, LoadRows, EntrySet, CacheDropped
<1>1. /\ section.revision \in Nat /\ settings.config \in Config
      /\ \A load \in resolving[p] : load \in Loads
      /\ \A load \in resolving[p] : load.revision <= section.revision /\ (load.loaded => Fresh(load))
  BY DEF SettingsInv, RowTypes, CacheTypes, Caches
<1>2. /\ \A c \in settingsCache'[p] : c \in Entries /\ Fresh(c)
      /\ \A load \in resolving'[p] : /\ load \in Loads /\ load.revision <= section.revision
                                     /\ load.loaded => Fresh(load)
  <2>1. CASE ReadRevision(p)
    <3> DEFINE load == [revision |-> section.revision, config |-> NoConfig, loaded |-> FALSE]
    <3>1. load \in Loads /\ load.revision = section.revision /\ ~ load.loaded
      BY <1>1 DEF Loads, NoConfig, Config
    <3>2. resolving'[p] = {load} /\ settingsCache'[p] = settingsCache[p]
      BY <2>1 DEF ReadRevision, SettingsInv, CacheTypes
    <3> HIDE DEF load
    <3> QED
      BY <1>1, <3>1, <3>2 DEF SettingsInv, CacheTypes, Caches
  <2>2. CASE LoadRows(p)
    <3>1. PICK load \in resolving[p] :
             resolving' = [resolving EXCEPT ![p] = {[load EXCEPT !.config = settings.config, !.loaded = TRUE]}]
      BY <2>2 DEF LoadRows
    <3> DEFINE next == [load EXCEPT !.config = settings.config, !.loaded = TRUE]
    <3>2. next \in Loads /\ next.revision = load.revision /\ next.config = settings.config
      BY <1>1 DEF Loads
    <3>3. resolving'[p] = {next} /\ settingsCache'[p] = settingsCache[p]
      BY <2>2, <3>1 DEF LoadRows, SettingsInv, CacheTypes
    <3> HIDE DEF next
    <3> QED
      BY <1>1, <3>2, <3>3 DEF SettingsInv, CacheTypes, Caches, Fresh
  <2>3. CASE EntrySet(p)
    <3>1. PICK load \in resolving[p] :
             /\ load.loaded
             /\ settingsCache' =
                  [settingsCache EXCEPT ![p] = {[revision |-> load.revision, config |-> load.config]}]
      BY <2>3 DEF EntrySet, Tag
    <3> DEFINE entry == [revision |-> load.revision, config |-> load.config]
    <3>2. entry \in Entries /\ Fresh(entry)
      BY <1>1, <3>1 DEF Loads, Entries, Fresh
    <3>3. settingsCache'[p] = {entry} /\ resolving'[p] = {}
      BY <2>3, <3>1 DEF EntrySet, SettingsInv, CacheTypes
    <3> HIDE DEF entry
    <3> QED
      BY <3>2, <3>3
  <2>4. CASE CacheDropped(p)
    BY <1>1, <2>4 DEF CacheDropped, SettingsInv, CacheTypes
  <2> QED
    BY <2>1, <2>2, <2>3, <2>4
<1>3. /\ settingsCache' = [q \in SettingsReaders |-> settingsCache'[q]]
      /\ resolving' = [q \in SettingsReaders |-> resolving'[q]]
      /\ \A q \in SettingsReaders \ {p} : settingsCache'[q] = settingsCache[q] /\ resolving'[q] = resolving[q]
  BY DEF ReadRevision, LoadRows, EntrySet, CacheDropped, SettingsInv, CacheTypes
<1>4. CacheTypes'
  BY <1>2, <1>3 DEF SettingsInv, CacheTypes
<1>5. Caches'
  BY <1>0, <1>2, <1>3 DEF SettingsInv, Caches, Fresh, AllMarked
<1> QED
  BY <1>0, <1>4, <1>5 DEF SettingsInv, RowTypes, Tested, VerifiedWasTested

\* Whatever saves interleave, a row that says 'verified' holds exactly what was tested, and no
\* process serves other settings than the row's once every save of them has moved the revision.
THEOREM SettingsStayHonest == SettingsSpec => []SettingsHonest
<1>1. SettingsInit => SettingsInv
  <2> SUFFICES ASSUME SettingsInit PROVE SettingsInv
    OBVIOUS
  <2>1. RowTypes /\ CacheTypes
    BY DEF SettingsInit, RowTypes, CacheTypes, SaveCall, NoSaveCall, NoConfig, Config, Asked, Status
  <2>2. Tested /\ Caches
    BY DEF SettingsInit, Tested, VerifiedWasTested, Caches, NoSaveCall
  <2> QED
    BY <2>1, <2>2 DEF SettingsInv
<1>2. SettingsInv /\ [SettingsNext]_settingsVars => SettingsInv'
  <2> SUFFICES ASSUME SettingsInv, [SettingsNext]_settingsVars PROVE SettingsInv'
    OBVIOUS
  <2>1. CASE UNCHANGED settingsVars
    BY <2>1 DEF settingsVars, SettingsInv, RowTypes, CacheTypes, Tested, VerifiedWasTested, Caches, Fresh,
                AllMarked
  <2> QED
    BY <2>1, BeginSaveStep, UpdateStep, MarkStep, StopStep, ReaderStep DEF SettingsNext
<1>3. SettingsInv => SettingsHonest
  BY DEF SettingsInv, Tested, Caches, Fresh, AllMarked, SettingsHonest, NoStaleSettings
<1> QED
  BY <1>1, <1>2, <1>3, PTL DEF SettingsSpec
-----------------------------------------------------------------------------
(* Credentials.  The open request is the last one made, and once it is settled it is    *)
(* the last one settled.                                                                  *)
Sealed == [secret : Nat, key : {"legacy", "current"}]
CredentialRow == [ live : BOOLEAN, target : Targets, sealed : Sealed, requested : Nat,
         claimed : {"no", "fresh", "stale"}, status : {"none", "pending", "success", "failed"} ]
CredentialTypes ==
    /\ credential \in CredentialRow
    /\ clicks \in Nat
    /\ probe \in [Probers -> [request : Nat, result : {"none", "success", "failed"}]]
    /\ awaiting \in [Operators -> Nat]
    /\ sealing \in Sealed
    /\ entered \in Seq(Targets) /\ Len(entered) > 0
    /\ settled \in Seq(Nat)
OpenRequest ==
    /\ credential.status = "pending" <=> credential.requested # NoRequest
    /\ credential.requested \in {NoRequest, clicks}
Settlements ==
    /\ clicks > 0 /\ credential.requested = NoRequest => Len(settled) > 0 /\ settled[Len(settled)] = clicks
    /\ \A i \in DOMAIN settled :
         settled[i] <= clicks /\ (credential.requested # NoRequest => settled[i] < clicks)
    /\ \A i, j \in DOMAIN settled : i < j => settled[i] < settled[j]
Answered ==
    /\ \A o \in Operators : awaiting[o] <= clicks
    /\ \A a \in answers : a.own <= a.of
Probed == \A w \in Probers : probe[w].result # "none" => probe[w].request # NoRequest
CredentialInv == CredentialTypes /\ SecretNotRedirected /\ OpenRequest /\ Settlements /\ Answered /\ Probed

\* A test's outcome is current, and the secret is its target's, as the row is left alone.
LEMMA RowKept ==
    ASSUME CredentialInv, UNCHANGED <<credential, clicks, entered, settled, answers>>,
           probe' \in [Probers -> [request : Nat, result : {"none", "success", "failed"}]], Probed',
           sealing' \in Sealed, awaiting' \in [Operators -> Nat],
           \A o \in Operators : awaiting'[o] <= clicks
    PROVE  CredentialInv'
<1>1. CredentialTypes'
  BY DEF CredentialInv, CredentialTypes
<1>2. SecretNotRedirected' /\ OpenRequest' /\ Settlements' /\ Answered'
  BY DEF CredentialInv, SecretNotRedirected, OpenRequest, Settlements, Answered
<1> QED
  BY <1>1, <1>2 DEF CredentialInv

\* The secret in force is the last one entered and goes to the target it was entered for; a test
\* request is settled once, in order, and nobody is shown an outcome older than its own request.
THEOREM CredentialsStaySound == CredentialSpec => []CredentialSound
<1>1. CredentialInit => CredentialInv
  <2> SUFFICES ASSUME CredentialInit PROVE CredentialInv
    OBVIOUS
  <2>1. PICK t \in Targets, k \in {"legacy", "current"} :
           /\ credential = [ live |-> TRUE, target |-> t, sealed |-> [secret |-> 1, key |-> k],
                             requested |-> NoRequest, claimed |-> "no", status |-> "none" ]
           /\ entered = <<t>>
    BY DEF CredentialInit
  <2>2. /\ clicks = 0 /\ answers = {} /\ settled = <<>>
        /\ probe = [w \in Probers |-> NoProbe] /\ awaiting = [o \in Operators |-> NoRequest]
        /\ sealing = NoCiphertext
    BY DEF CredentialInit
  <2>3. CredentialTypes
    BY <2>1, <2>2 DEF CredentialTypes, NoRequest, NoProbe, NoCiphertext, Sealed, CredentialRow
  <2>4. SecretNotRedirected /\ OpenRequest /\ Settlements /\ Answered /\ Probed
    BY <2>1, <2>2 DEF SecretNotRedirected, OpenRequest, Settlements, Answered, Probed, NoRequest, NoProbe
  <2> QED
    BY <2>3, <2>4 DEF CredentialInv
<1>2. CredentialInv /\ [CredentialNext]_credentialVars => CredentialInv'
  <2> SUFFICES ASSUME CredentialInv, [CredentialNext]_credentialVars PROVE CredentialInv'
    OBVIOUS
  <2>0. CredentialTypes /\ SecretNotRedirected /\ OpenRequest /\ Settlements /\ Answered /\ Probed
    BY DEF CredentialInv
  <2>1. ASSUME NEW o \in Operators, requestProviderCredentialTest(o) PROVE CredentialInv'
    <3> DEFINE row == [credential EXCEPT !.requested = clicks + 1, !.claimed = "no", !.status = "pending"]
    <3>1. /\ clicks' = clicks + 1 /\ credential' = row /\ awaiting' = [awaiting EXCEPT ![o] = clicks + 1]
          /\ UNCHANGED <<probe, sealing, entered, settled, answers>>
      BY <2>1 DEF requestProviderCredentialTest
    <3>2. /\ row \in CredentialRow
          /\ row.requested = clicks + 1 /\ row.status = "pending"
          /\ row.target = credential.target /\ row.sealed = credential.sealed
      <4> HIDE DEF CredentialInv
      <4>1. credential \in CredentialRow /\ clicks + 1 \in Nat
        BY <2>0 DEF CredentialTypes
      <4> QED
        BY <4>1 DEF CredentialRow
    <3> HIDE DEF row
    <3>3. CredentialTypes' /\ SecretNotRedirected' /\ OpenRequest'
      BY <2>0, <3>1, <3>2 DEF CredentialTypes, SecretNotRedirected, OpenRequest, NoRequest
    <3>4. Settlements' /\ Probed'
      BY <2>0, <3>1, <3>2 DEF CredentialTypes, Settlements, Probed, NoRequest
    <3>5. Answered'
      BY <2>0, <3>1 DEF CredentialTypes, Answered
    <3> QED
      BY <3>3, <3>4, <3>5 DEF CredentialInv
  <2>2. ASSUME NEW o \in Operators, testProviderCredential(o) PROVE CredentialInv'
    <3>1. /\ awaiting[o] # NoRequest /\ awaiting' = [awaiting EXCEPT ![o] = NoRequest]
          /\ \/ settledOutcome /\ answers' = answers \cup {[own |-> awaiting[o], of |-> settled[Len(settled)]]}
             \/ answers' = answers
          /\ UNCHANGED <<credential, clicks, probe, sealing, entered, settled>>
      BY <2>2 DEF testProviderCredential
    <3>2. CASE answers' = answers
      BY <2>0, <3>1, <3>2, RowKept DEF CredentialTypes, Answered, Probed, NoRequest
    <3>3. CASE settledOutcome /\ answers' = answers \cup {[own |-> awaiting[o], of |-> settled[Len(settled)]]}
      <4>1. awaiting[o] <= settled[Len(settled)]
        BY <2>0, <3>1, <3>3 DEF settledOutcome, Settlements, Answered, CredentialTypes, NoRequest
      <4>2. Answered'
        BY <2>0, <3>1, <3>3, <4>1 DEF Answered, CredentialTypes, NoRequest
      <4>3. CredentialTypes' /\ SecretNotRedirected' /\ OpenRequest' /\ Settlements' /\ Probed'
        BY <2>0, <3>1 DEF CredentialTypes, SecretNotRedirected, OpenRequest, Settlements, Probed, NoRequest
      <4> QED
        BY <4>2, <4>3 DEF CredentialInv
    <3> QED
      BY <3>1, <3>2, <3>3
  <2>3. ASSUME NEW o \in Operators, NEW t \in Targets, Retarget(o, t) PROVE CredentialInv'
    <3> DEFINE row == [credential EXCEPT !.target = t,
                                         !.sealed = [secret |-> Len(entered) + 1, key |-> "current"]]
    <3>1. /\ entered' = Append(entered, t) /\ credential' = row
          /\ UNCHANGED <<clicks, probe, awaiting, sealing, settled, answers>>
      BY <2>3 DEF Retarget
    <3>2. [secret |-> Len(entered) + 1, key |-> "current"] \in Sealed
      BY <2>0 DEF Sealed, CredentialTypes
    <3>3. /\ row \in CredentialRow
          /\ row.requested = credential.requested /\ row.status = credential.status
          /\ row.target = t /\ row.sealed.secret = Len(entered) + 1
      BY <2>0, <3>2 DEF CredentialTypes, CredentialRow
    <3> HIDE DEF row
    <3>4. CredentialTypes' /\ SecretNotRedirected'
      BY <2>0, <3>1, <3>3 DEF CredentialTypes, SecretNotRedirected
    <3>5. OpenRequest' /\ Settlements' /\ Answered' /\ Probed'
      BY <2>0, <3>1, <3>3 DEF OpenRequest, Settlements, Answered, Probed
    <3> QED
      BY <3>4, <3>5 DEF CredentialInv
  <2>4. ASSUME NEW o \in Operators, deleteProviderCredential(o) PROVE CredentialInv'
    <3>1. /\ credential' \in CredentialRow
          /\ credential'.requested = credential.requested /\ credential'.status = credential.status
          /\ credential'.target = credential.target /\ credential'.sealed = credential.sealed
          /\ UNCHANGED <<clicks, probe, awaiting, sealing, entered, settled, answers>>
      BY <2>0, <2>4 DEF CredentialTypes, CredentialRow, deleteProviderCredential
    <3>2. CredentialTypes'
      BY <2>0, <3>1 DEF CredentialTypes
    <3>3. SecretNotRedirected' /\ OpenRequest' /\ Settlements' /\ Answered' /\ Probed'
      BY <2>0, <3>1 DEF SecretNotRedirected, OpenRequest, Settlements, Answered, Probed
    <3> QED
      BY <3>2, <3>3 DEF CredentialInv
  <2>5. ASSUME NEW o \in Operators, BeginUpdate(o) \/ KeepTarget(o) \/ BeginDelete(o) PROVE CredentialInv'
    <3>1. UNCHANGED <<credential, clicks, probe, awaiting, sealing, entered, settled, answers>>
      BY <2>5 DEF BeginUpdate, KeepTarget, BeginDelete
    <3> QED
      BY <2>0, <3>1, RowKept DEF CredentialTypes, Probed, Answered
  <2>6. ASSUME NEW w \in Probers, claimProviderCredentialTests(w) PROVE CredentialInv'
    <3>1. /\ credential' = [credential EXCEPT !.claimed = "fresh"]
          /\ probe' = [probe EXCEPT ![w].request = credential.requested]
          /\ credential.requested # NoRequest
          /\ UNCHANGED <<clicks, awaiting, sealing, entered, settled, answers>>
      BY <2>6 DEF claimProviderCredentialTests
    <3>2. /\ credential' \in CredentialRow
          /\ credential'.requested = credential.requested /\ credential'.status = credential.status
          /\ credential'.target = credential.target /\ credential'.sealed = credential.sealed
      BY <2>0, <3>1 DEF CredentialTypes, CredentialRow
    <3>3. probe' \in [Probers -> [request : Nat, result : {"none", "success", "failed"}]] /\ Probed'
      <4>1. credential.requested \in Nat
        BY <2>0 DEF CredentialTypes, CredentialRow
      <4> QED
        BY <2>0, <3>1, <4>1 DEF CredentialTypes, Probed
    <3>4. CredentialTypes'
      BY <2>0, <3>1, <3>2, <3>3 DEF CredentialTypes
    <3>5. SecretNotRedirected' /\ OpenRequest' /\ Settlements' /\ Answered'
      BY <2>0, <3>1, <3>2 DEF SecretNotRedirected, OpenRequest, Settlements, Answered
    <3> QED
      BY <3>3, <3>4, <3>5 DEF CredentialInv
  <2>7. ASSUME NEW w \in Probers, probeCredential(w) \/ ProberDies(w) PROVE CredentialInv'
    <3>1. UNCHANGED <<credential, clicks, awaiting, sealing, entered, settled, answers>>
      BY <2>7 DEF probeCredential, ProberDies
    <3>2. probe' = [probe EXCEPT ![w] = NoProbe]
          \/ /\ probe[w].request # NoRequest
             /\ \E r \in {"success", "failed"} : probe' = [probe EXCEPT ![w].result = r]
      BY <2>7 DEF probeCredential, ProberDies
    <3>3. ASSUME probe' = [probe EXCEPT ![w] = NoProbe]
          PROVE  probe' \in [Probers -> [request : Nat, result : {"none", "success", "failed"}]] /\ Probed'
      BY <2>0, <3>3 DEF CredentialTypes, Probed, NoProbe, NoRequest
    <3>4. ASSUME NEW r \in {"success", "failed"}, probe' = [probe EXCEPT ![w].result = r],
                 probe[w].request # NoRequest
          PROVE  probe' \in [Probers -> [request : Nat, result : {"none", "success", "failed"}]] /\ Probed'
      BY <2>0, <3>4 DEF CredentialTypes, Probed
    <3>5. probe' \in [Probers -> [request : Nat, result : {"none", "success", "failed"}]] /\ Probed'
      BY <3>2, <3>3, <3>4
    <3> QED
      BY <2>0, <3>1, <3>5, RowKept DEF CredentialTypes, Answered
  <2>8. ASSUME NEW w \in Probers, recordProviderCredentialTest(w) PROVE CredentialInv'
    <3>1. /\ probe[w].result # "none" /\ probe' = [probe EXCEPT ![w] = NoProbe]
          /\ UNCHANGED <<clicks, awaiting, sealing, entered, answers>>
      BY <2>8 DEF recordProviderCredentialTest
    <3>2. probe' \in [Probers -> [request : Nat, result : {"none", "success", "failed"}]] /\ Probed'
      BY <2>0, <3>1 DEF CredentialTypes, Probed, NoProbe, NoRequest
    <3>3. CASE UNCHANGED <<credential, settled>>
      BY <2>0, <3>1, <3>2, <3>3, RowKept DEF CredentialTypes, Answered
    <3>4. CASE /\ Settles(w)
               /\ credential' = [credential EXCEPT !.requested = NoRequest, !.claimed = "no",
                                                   !.status = probe[w].result]
               /\ settled' = Append(settled, probe[w].request)
      <4>1. /\ probe[w].request = clicks /\ probe[w].request # NoRequest /\ credential.requested # NoRequest
            /\ probe[w].result \in {"success", "failed"}
        BY <2>0, <3>1, <3>4 DEF Settles, OpenRequest, Probed, CredentialTypes
      <4>2. /\ credential' \in CredentialRow
            /\ credential'.requested = NoRequest /\ credential'.status = probe[w].result
            /\ credential'.target = credential.target /\ credential'.sealed = credential.sealed
        BY <2>0, <3>4, <4>1 DEF CredentialTypes, CredentialRow, NoRequest
      <4>3. settled' = Append(settled, clicks) /\ settled' \in Seq(Nat)
        BY <2>0, <3>4, <4>1 DEF CredentialTypes
      <4>4. CredentialTypes' /\ SecretNotRedirected' /\ OpenRequest' /\ Answered'
        BY <2>0, <3>1, <3>2, <4>1, <4>2, <4>3
        DEF CredentialTypes, SecretNotRedirected, OpenRequest, Answered, NoRequest
      <4>5. Settlements'
        BY <2>0, <3>1, <4>1, <4>2, <4>3, SMTT(30) DEF CredentialTypes, Settlements, NoRequest
      <4> QED
        BY <3>2, <4>4, <4>5 DEF CredentialInv
    <3> QED
      BY <2>8, <3>3, <3>4 DEF recordProviderCredentialTest
  <2>9. CASE ClaimAges
    <3>1. /\ credential' \in CredentialRow
          /\ credential'.requested = credential.requested /\ credential'.status = credential.status
          /\ credential'.target = credential.target /\ credential'.sealed = credential.sealed
          /\ UNCHANGED <<clicks, probe, awaiting, sealing, entered, settled, answers>>
      BY <2>0, <2>9 DEF CredentialTypes, CredentialRow, ClaimAges
    <3>2. CredentialTypes'
      BY <2>0, <3>1 DEF CredentialTypes
    <3>3. SecretNotRedirected' /\ OpenRequest' /\ Settlements' /\ Answered' /\ Probed'
      BY <2>0, <3>1 DEF SecretNotRedirected, OpenRequest, Settlements, Answered, Probed
    <3> QED
      BY <3>2, <3>3 DEF CredentialInv
  <2>10. CASE ReadSealed
    <3>1. UNCHANGED <<credential, clicks, probe, awaiting, entered, settled, answers>> /\ sealing' \in Sealed
      BY <2>0, <2>10 DEF ReadSealed, CredentialTypes, CredentialRow
    <3> QED
      BY <2>0, <3>1, RowKept DEF CredentialTypes, Probed, Answered
  <2>11. CASE Reseal
    <3> DEFINE to == [secret |-> sealing.secret, key |-> "current"]
    <3>1. /\ UNCHANGED <<clicks, probe, awaiting, entered, settled, answers>> /\ sealing' = NoCiphertext
          /\ credential' = IF credential.sealed = sealing THEN [credential EXCEPT !.sealed = to] ELSE credential
      BY <2>11 DEF Reseal
    <3>2. to \in Sealed /\ to.secret = sealing.secret /\ NoCiphertext \in Sealed
      BY <2>0 DEF CredentialTypes, Sealed, NoCiphertext
    <3> HIDE DEF to
    <3>3. /\ credential' \in CredentialRow
          /\ credential'.requested = credential.requested /\ credential'.status = credential.status
          /\ credential'.target = credential.target /\ credential'.sealed.secret = credential.sealed.secret
      BY <2>0, <3>1, <3>2 DEF CredentialTypes, CredentialRow
    <3>4. CredentialTypes'
      BY <2>0, <3>1, <3>2, <3>3 DEF CredentialTypes
    <3>5. SecretNotRedirected' /\ OpenRequest' /\ Settlements' /\ Answered' /\ Probed'
      BY <2>0, <3>1, <3>3 DEF SecretNotRedirected, OpenRequest, Settlements, Answered, Probed
    <3> QED
      BY <3>4, <3>5 DEF CredentialInv
  <2>12. CASE UNCHANGED credentialVars
    <3>1. UNCHANGED <<credential, clicks, probe, awaiting, sealing, entered, settled, answers>>
      BY <2>12 DEF credentialVars
    <3> QED
      BY <2>0, <3>1, RowKept DEF CredentialTypes, Probed, Answered
  <2> QED
    BY <2>1, <2>2, <2>3, <2>4, <2>5, <2>6, <2>7, <2>8, <2>9, <2>10, <2>11, <2>12
    DEF CredentialNext, CredentialTest, CredentialEdit
<1>3. CredentialInv => CredentialSound
  BY DEF CredentialInv, CredentialSound, OutcomesCurrent, OpenRequest, Settlements, Answered
<1> QED
  BY <1>1, <1>2, <1>3, PTL DEF CredentialSpec
-----------------------------------------------------------------------------
(* Plugins.  A worker that read the row as it still is knows its status, for the  *)
(* load under way and for what it mirrors.                                           *)
Knows(w) ==
    /\ loader[w].read <= plugin.stamp
    /\ loader[w].read = plugin.stamp =>
         /\ loader[w].load # "no" => plugin.status = loader[w].load
         /\ loader[w].mirror = "active" => plugin.status = "active"
Workers ==
    [Loaders -> [ registered : BOOLEAN, mirror : {"untracked", "active", "disabled", "failed"},
                  read : Nat, load : {"no", "pending", "active"} ]]
PluginInv ==
    /\ plugin \in [status : RowStatus, stamp : Nat]
    /\ switching \in [Installers -> {"no", "active", "disabled"}]
    /\ loader \in Workers
    /\ rejected => plugin.status \in {"failed", "deleted"}
    /\ plugin.status \in {"active", "disabled"} => imported
    /\ \A w \in Loaders : Knows(w)

\* A rejection is final whoever loads or switches the row, no row is active that nobody
\* imported, and a worker that is up to date runs the plugin only if the row is active.
THEOREM PluginStatusStaysHonest == PluginSpec => []PluginStatusHonest
<1>1. PluginInit => PluginInv
  BY DEF PluginInit, PluginInv, FreshLoader, Knows, RowStatus, Workers
<1>2. PluginInv /\ [PluginNext]_pluginVars => PluginInv'
  <2> SUFFICES ASSUME PluginInv, [PluginNext]_pluginVars PROVE PluginInv'
    OBVIOUS
  <2> USE DEF PluginInv, Restamped, RowStatus, Knows, Workers
  <2>1. ASSUME NEW i \in Installers, CheckDuplicate(i) PROVE PluginInv'
    BY <2>1 DEF CheckDuplicate
  <2>2. ASSUME NEW i \in Installers, PutArtifact(i) PROVE PluginInv'
    BY <2>2 DEF PutArtifact
  <2>3. ASSUME NEW i \in Installers, InsertRow(i) PROVE PluginInv'
    <3>1. /\ \/ plugin' = plugin
             \/ plugin.status = "none" /\ plugin' = [status |-> "pending", stamp |-> plugin.stamp + 1]
          /\ UNCHANGED <<switching, loader, imported, rejected>>
      BY <2>3 DEF InsertRow
    <3> QED
      BY <3>1
  <2>4. ASSUME NEW i \in Installers, NEW s \in {"active", "disabled"}, BeginSwitch(i, s) PROVE PluginInv'
    BY <2>4 DEF BeginSwitch
  <2>5. ASSUME NEW i \in Installers, updatePluginStatus(i) PROVE PluginInv'
    BY <2>5 DEF updatePluginStatus, Switchable
  <2>6. CASE deletePlugin
    BY <2>6 DEF deletePlugin
  <2>7. ASSUME NEW w \in Loaders, refreshPlugins(w) PROVE PluginInv'
    <3>1. CASE ReadRow(w)
      <4> DEFINE mirror == Mirrored(plugin.status)
                 load == IF plugin.status \in {"pending", "active"} /\ ~ loader[w].registered
                           THEN plugin.status ELSE "no"
      <4>a. /\ mirror \in {"untracked", "active", "disabled", "failed"}
            /\ mirror = "active" => plugin.status = "active"
            /\ load \in {"no", "pending", "active"} /\ load \in {"no", plugin.status}
        BY <3>1 DEF ReadRow, LiveStatus, Mirrored
      <4>b. /\ loader' = [loader EXCEPT ![w] =
                             [loader[w] EXCEPT !.mirror = mirror, !.read = plugin.stamp, !.load = load]]
            /\ UNCHANGED <<plugin, switching, imported, rejected>>
        BY <3>1 DEF ReadRow
      <4> HIDE DEF mirror, load
      <4>1. /\ loader' \in Workers /\ \A v \in Loaders \ {w} : loader'[v] = loader[v]
            /\ loader'[w].read = plugin.stamp /\ loader'[w].load \in {"no", plugin.status}
            /\ loader'[w].mirror = "active" => plugin.status = "active"
            /\ UNCHANGED <<plugin, switching, imported, rejected>>
        BY <4>a, <4>b
      <4> QED
        BY <4>1
    <3>2. CASE SweepRow(w)
      <4>1. /\ loader' \in Workers /\ \A v \in Loaders \ {w} : loader'[v] = loader[v]
            /\ loader'[w].read = plugin.stamp /\ loader'[w].load = "no"
            /\ loader'[w].mirror = "untracked"
            /\ UNCHANGED <<plugin, switching, imported, rejected>>
        BY <3>2 DEF SweepRow
      <4> QED
        BY <4>1
    <3>3. CASE LoadDeferred(w)
      <4>1. /\ loader' \in Workers /\ \A v \in Loaders \ {w} : loader'[v] = loader[v]
            /\ loader'[w].read = loader[w].read /\ loader'[w].load = "no"
            /\ loader'[w].mirror = "untracked"
            /\ UNCHANGED <<plugin, switching, imported, rejected>>
        BY <3>3, ZenonT(60) DEF LoadDeferred
      <4> QED
        BY <4>1
    <3>4. CASE LoadRejected(w)
      <4>a. PICK mirror \in {"failed", "untracked"} :
               loader' = [loader EXCEPT ![w].load = "no", ![w].mirror = mirror]
        BY <3>4 DEF LoadRejected
      <4>1. /\ loader' \in Workers /\ \A v \in Loaders \ {w} : loader'[v] = loader[v]
            /\ loader'[w].read = loader[w].read /\ loader'[w].load = "no"
            /\ loader'[w].mirror # "active"
        BY <4>a, ZenonT(60)
      <4>2. /\ \/ plugin' = [status |-> "failed", stamp |-> plugin.stamp + 1] /\ rejected'
               \/ plugin' = plugin /\ rejected' = rejected
            /\ UNCHANGED <<switching, imported>>
        BY <3>4 DEF LoadRejected
      <4> QED
        BY <4>1, <4>2
    <3>5. CASE LoadSucceeds(w)
      <4>a. PICK mirror \in {"active", "untracked"} :
               /\ loader' = [loader EXCEPT ![w].load = "no", ![w].registered = TRUE, ![w].mirror = mirror]
               /\ mirror = "active" => loader[w].load = "active" \/ Promotable(w)
        BY <3>5 DEF LoadSucceeds
      <4>1. /\ loader' \in Workers /\ \A v \in Loaders \ {w} : loader'[v] = loader[v]
            /\ loader'[w].read = loader[w].read /\ loader'[w].load = "no"
            /\ loader'[w].mirror = "active" => loader[w].load = "active" \/ Promotable(w)
        <5>1. loader \in Workers
          OBVIOUS
        <5> HIDE DEF PluginInv, Knows
        <5> QED
          BY <4>a, <5>1, ZenonT(60)
      <4>2. /\ \/ /\ loader[w].load = "pending" /\ plugin.status = "pending"
                  /\ plugin' = [status |-> "active", stamp |-> plugin.stamp + 1]
               \/ plugin' = plugin /\ ~ (loader[w].load = "pending" /\ Promotable(w))
            /\ imported' /\ UNCHANGED <<switching, rejected>>
        BY <3>5 DEF LoadSucceeds, Promotable
      <4>3. loader[w].load \in {"pending", "active"}
        BY <3>5 DEF LoadSucceeds
      <4> QED
        BY <4>1, <4>2, <4>3 DEF Promotable
    <3>6. CASE PromotionFails(w)
      BY <3>6, ZenonT(60) DEF PromotionFails
    <3>7. CASE WorkerRestarts(w)
      BY <3>7 DEF WorkerRestarts, FreshLoader
    <3> QED
      BY <2>7, <3>1, <3>2, <3>3, <3>4, <3>5, <3>6, <3>7 DEF refreshPlugins
  <2>8. CASE UNCHANGED pluginVars
    BY <2>8 DEF pluginVars
  <2> QED
    BY <2>1, <2>2, <2>3, <2>4, <2>5, <2>6, <2>7, <2>8 DEF PluginNext
<1>3. PluginInv => PluginStatusHonest
  BY DEF PluginInv, PluginStatusHonest, Knows, Runs
<1> QED
  BY <1>1, <1>2, <1>3, PTL DEF PluginSpec
-----------------------------------------------------------------------------
(* Models.  While no preset save overlapped another save or stopped, whoever is    *)
(* past the row's update is alone, and brings the plugin of the row to the revision. *)
Working == {"look", "relink", "allocate", "insert", "link"}
Named(i) == i \in DOMAIN revisions /\ revisions[i].plugin = model.plugin
Alone(a) == \A b \in Editors \ {a} : saving[b] = NotSaving
Undisturbed ==
    /\ \A a \in Editors : saving[a].pc \in Working \cup {"preset"} => Alone(a)
    /\ \A a \in Editors : saving[a].pc \in {"look", "allocate", "insert"} =>
           saving[a].plugin = model.plugin
    /\ \A a \in Editors : saving[a].pc = "insert" => saving[a].number = Len(revisions) + 1
    /\ \A a \in Editors : saving[a].pc \in {"link", "relink"} => Named(saving[a].number)
    /\ (\A a \in Editors : saving[a].pc \notin Working) => Named(model.latest)
SaveCalls == [ pc : Working \cup {"idle", "plugin", "preset"},
           plugin : Plugins \cup {"none"}, credential : Secrets \cup {"keep"},
           seen : Secrets \cup {"keep"}, contract : Contract, number : Nat ]
ModelTypes ==
    /\ model \in [live : BOOLEAN, plugin : Plugins, credential : Secrets, latest : Nat]
    /\ revisions \in Seq(Revision)
    /\ catalog \subseteq Plugins
    /\ saving \in [Editors -> SaveCalls]
    /\ disturbed \in BOOLEAN
Holds(a) ==
    /\ saving[a].pc = "idle" <=> saving[a] = NotSaving
    /\ saving[a].pc = "plugin" => saving[a].plugin \in Plugins /\ saving[a].seen \in Secrets
    /\ saving[a].pc \in {"look", "allocate", "insert"} =>
           saving[a].plugin \in Plugins /\ saving[a].credential \in Secrets
    /\ saving[a].pc \in {"link", "relink"} => saving[a].number \in DOMAIN revisions
ModelInv ==
    /\ ModelTypes
    /\ model.latest \in DOMAIN revisions
    /\ \A a \in Editors : Holds(a)
    /\ ~ disturbed => Undisturbed

\* One call moves, and its next state keeps its own part of the invariant.
LEMMA SaveMoves ==
    ASSUME ModelInv, NEW a \in Editors, NEW next \in SaveCalls,
           saving' = [saving EXCEPT ![a] = next]
    PROVE  /\ saving' \in [Editors -> SaveCalls] /\ saving'[a] = next
           /\ \A b \in Editors \ {a} : saving'[b] = saving[b]
<1> QED
  BY DEF ModelInv, ModelTypes

\* A call that has read what it needs waits to save, alone or not.
LEMMA BeginStep ==
    ASSUME ModelInv, NEW a \in Editors, NEW given \in SaveCalls, Begin(a, given),
           given.pc \in {"plugin", "preset"},
           given.pc = "plugin" => given.plugin \in Plugins /\ given.seen \in Secrets
    PROVE  ModelInv'
<1>0. /\ saving[a] = NotSaving /\ saving' \in [Editors -> SaveCalls] /\ saving'[a] = given
      /\ \A b \in Editors \ {a} : saving'[b] = saving[b]
      /\ UNCHANGED <<model, revisions, catalog>>
  BY SaveMoves DEF Begin
<1>1. /\ disturbed' \in BOOLEAN
      /\ ~ disturbed' => ~ disturbed /\ \A b \in Editors \ {a} :
                            saving[b] = NotSaving \/ (given.pc = "plugin" /\ saving[b].pc = "plugin")
  BY DEF Begin, ModelInv, ModelTypes
<1>2. ModelTypes' /\ (model.latest \in DOMAIN revisions)'
  BY <1>0, <1>1 DEF ModelInv, ModelTypes
<1>3. \A b \in Editors : Holds(b)'
  BY <1>0 DEF ModelInv, Holds, NotSaving
<1>4. ~ disturbed' => Undisturbed'
  BY <1>0, <1>1 DEF ModelInv, Undisturbed, Alone, Named, Working, NotSaving
<1> QED
  BY <1>2, <1>3, <1>4 DEF ModelInv

\* Idle calls.
LEMMA IdleCall == NotSaving \in SaveCalls /\ NotSaving.pc = "idle"
<1> QED
  BY DEF NotSaving, SaveCalls, Contract

\* A call that knows the number of its revision.
LEMMA NumberedCall ==
    ASSUME NEW pc \in {"link", "relink"}, NEW n \in Nat
    PROVE  LET next == [NotSaving EXCEPT !.pc = pc, !.number = n]
           IN  next \in SaveCalls /\ next.pc = pc /\ next.number = n
<1> QED
  BY IdleCall DEF SaveCalls, Working

\* The revision that is found has the plugin of the row; its number is all the call keeps.
LEMMA LookForDigestStep ==
    ASSUME ModelInv, NEW a \in Editors, LookForDigest(a)
    PROVE  ModelInv'
<1>t. /\ model \in [live : BOOLEAN, plugin : Plugins, credential : Secrets, latest : Nat]
      /\ saving[a] \in SaveCalls /\ revisions \in Seq(Revision)
  BY DEF ModelInv, ModelTypes
<1>a. PICK next \in SaveCalls :
         /\ saving' = [saving EXCEPT ![a] = next]
         /\ \/ /\ next.pc = "allocate" /\ next.plugin = saving[a].plugin
               /\ next.credential = saving[a].credential
            \/ /\ next.pc = "relink" /\ next.number \in DOMAIN revisions
               /\ revisions[next.number].plugin = saving[a].plugin
  <2>1. CASE Step(a, "look", [saving[a] EXCEPT !.pc = "allocate"])
    <3> DEFINE next == [saving[a] EXCEPT !.pc = "allocate"]
    <3>1. /\ next \in SaveCalls /\ next.pc = "allocate" /\ next.plugin = saving[a].plugin
          /\ next.credential = saving[a].credential
      BY <1>t DEF SaveCalls, Working
    <3> QED
      BY <2>1, <3>1 DEF Step
  <2>2. CASE \E i \in DOMAIN revisions :
               /\ SameDigest(i, saving[a])
               /\ Step(a, "look", [NotSaving EXCEPT !.pc = "relink", !.number = i])
    <3> PICK i \in DOMAIN revisions :
               /\ SameDigest(i, saving[a])
               /\ Step(a, "look", [NotSaving EXCEPT !.pc = "relink", !.number = i])
      BY <2>2
    <3> DEFINE next == [NotSaving EXCEPT !.pc = "relink", !.number = i]
    <3>1. i \in Nat
      BY <1>t
    <3>2. next \in SaveCalls /\ next.pc = "relink" /\ next.number = i
      BY <3>1, NumberedCall
    <3> HIDE DEF next
    <3>3. saving' = [saving EXCEPT ![a] = next]
      BY DEF Step, next
    <3> QED
      BY <3>2, <3>3 DEF SameDigest
  <2> QED
    BY <2>1, <2>2 DEF LookForDigest
<1>0. /\ saving[a].pc = "look"
      /\ \/ /\ saving'[a].pc = "allocate" /\ saving'[a].plugin = saving[a].plugin
            /\ saving'[a].credential = saving[a].credential
         \/ /\ saving'[a].pc = "relink" /\ saving'[a].number \in DOMAIN revisions
            /\ revisions[saving'[a].number].plugin = saving[a].plugin
      /\ saving' \in [Editors -> SaveCalls] /\ \A b \in Editors \ {a} : saving'[b] = saving[b]
      /\ UNCHANGED <<model, revisions, catalog, disturbed>>
  BY <1>a, SaveMoves DEF LookForDigest, Step
<1>2. ModelTypes' /\ (model.latest \in DOMAIN revisions)'
  BY <1>0 DEF ModelInv, ModelTypes, Holds
<1>3. \A b \in Editors : Holds(b)'
  BY <1>0 DEF ModelInv, Holds, NotSaving
<1>4. ~ disturbed' => Undisturbed'
  BY <1>0 DEF ModelInv, Undisturbed, Alone, Named, Working, NotSaving, Holds
<1> QED
  BY <1>2, <1>3, <1>4 DEF ModelInv

\* A call that is alone gets the number that is still free when it inserts.
LEMMA AllocateRevisionStep ==
    ASSUME ModelInv, NEW a \in Editors, AllocateRevision(a)
    PROVE  ModelInv'
<1>t. /\ model \in [live : BOOLEAN, plugin : Plugins, credential : Secrets, latest : Nat]
      /\ saving[a] \in SaveCalls /\ revisions \in Seq(Revision)
  BY DEF ModelInv, ModelTypes
<1>a. PICK next \in SaveCalls :
         /\ saving' = [saving EXCEPT ![a] = next]
         /\ next.pc = "insert" /\ next.plugin = saving[a].plugin
         /\ next.credential = saving[a].credential /\ next.number = Len(revisions) + 1
  <2> DEFINE number == Len(revisions) + 1
             next == [saving[a] EXCEPT !.pc = "insert", !.number = number]
  <2>1. number \in Nat /\ saving' = [saving EXCEPT ![a] = next]
    BY <1>t DEF AllocateRevision, Step
  <2> HIDE DEF number
  <2>2. /\ next \in SaveCalls /\ next.pc = "insert" /\ next.plugin = saving[a].plugin
        /\ next.credential = saving[a].credential /\ next.number = number
    BY <1>t, <2>1 DEF SaveCalls, Working
  <2> QED
    BY <2>1, <2>2 DEF number
<1>0. /\ saving[a].pc = "allocate" /\ saving'[a].pc = "insert" /\ saving'[a].plugin = saving[a].plugin
      /\ saving'[a].credential = saving[a].credential /\ saving'[a].number = Len(revisions) + 1
      /\ saving' \in [Editors -> SaveCalls] /\ \A b \in Editors \ {a} : saving'[b] = saving[b]
      /\ UNCHANGED <<model, revisions, catalog, disturbed>>
  BY <1>a, SaveMoves DEF AllocateRevision, Step
<1>2. ModelTypes' /\ (model.latest \in DOMAIN revisions)'
  BY <1>0 DEF ModelInv, ModelTypes, Holds
<1>3. \A b \in Editors : Holds(b)'
  BY <1>0 DEF ModelInv, Holds, NotSaving
<1>4. ~ disturbed' => Undisturbed'
  BY <1>0 DEF ModelInv, Undisturbed, Alone, Named, Working, NotSaving, Holds
<1> QED
  BY <1>2, <1>3, <1>4 DEF ModelInv

\* A number that was taken meanwhile shows that another save overlapped.
LEMMA InsertRevisionStep ==
    ASSUME ModelInv, NEW a \in Editors, InsertRevision(a)
    PROVE  ModelInv'
<1>t. /\ model \in [live : BOOLEAN, plugin : Plugins, credential : Secrets, latest : Nat]
      /\ saving[a] \in SaveCalls /\ revisions \in Seq(Revision)
  BY DEF ModelInv, ModelTypes
<1>1. CASE UNCHANGED revisions
  <2>0. /\ saving[a].pc = "insert" /\ saving'[a] = NotSaving /\ saving[a].number # Len(revisions) + 1
        /\ saving' \in [Editors -> SaveCalls] /\ \A b \in Editors \ {a} : saving'[b] = saving[b]
        /\ UNCHANGED <<model, revisions, catalog, disturbed>>
    BY <1>1, <1>t, IdleCall, SaveMoves DEF InsertRevision, Step, SaveCalls
  <2>1. disturbed
    BY <2>0 DEF ModelInv, Undisturbed
  <2>2. ModelTypes' /\ (model.latest \in DOMAIN revisions)'
    BY <2>0 DEF ModelInv, ModelTypes
  <2>3. \A b \in Editors : Holds(b)'
    BY <2>0, IdleCall DEF ModelInv, Holds
  <2> QED
    BY <2>0, <2>1, <2>2, <2>3 DEF ModelInv
<1>2. CASE ~ UNCHANGED revisions
  <2>a. /\ saving[a].pc = "insert" /\ saving[a].plugin \in Plugins /\ saving[a].credential \in Secrets
        /\ saving[a].number = Len(revisions) + 1
        /\ revisions' = Append(revisions, [ plugin |-> saving[a].plugin, contract |-> saving[a].contract,
                                             credential |-> saving[a].credential ])
        /\ saving' = [saving EXCEPT ![a] = [NotSaving EXCEPT !.pc = "link", !.number = saving[a].number]]
        /\ UNCHANGED <<model, catalog, disturbed>>
    BY <1>2 DEF InsertRevision, Step, ModelInv, Holds
  <2>b. [ plugin |-> saving[a].plugin, contract |-> saving[a].contract,
          credential |-> saving[a].credential ] \in Revision
    BY <1>t, <2>a DEF Revision, SaveCalls
  <2>c. /\ revisions' \in Seq(Revision) /\ Len(revisions') = Len(revisions) + 1
        /\ \A i \in DOMAIN revisions : i \in DOMAIN revisions' /\ revisions'[i] = revisions[i]
        /\ saving[a].number \in DOMAIN revisions'
        /\ revisions'[saving[a].number].plugin = saving[a].plugin
    BY <1>t, <2>a, <2>b
  <2>d. PICK next \in SaveCalls : /\ saving' = [saving EXCEPT ![a] = next]
                                  /\ next.pc = "link" /\ next.number = saving[a].number
    <3>1. saving[a].number \in Nat
      BY <1>t DEF SaveCalls
    <3> QED
      BY <2>a, <3>1, NumberedCall
  <2>0. /\ saving[a].pc = "insert" /\ saving'[a].pc = "link" /\ saving'[a].number = saving[a].number
        /\ saving' \in [Editors -> SaveCalls] /\ \A b \in Editors \ {a} : saving'[b] = saving[b]
        /\ UNCHANGED <<model, catalog, disturbed>>
    BY <2>a, <2>d, SaveMoves
  <2>2. ModelTypes' /\ (model.latest \in DOMAIN revisions)'
    BY <2>0, <2>c DEF ModelInv, ModelTypes
  <2>3. \A b \in Editors : Holds(b)'
    BY <2>0, <2>c DEF ModelInv, Holds, NotSaving
  <2>4. ~ disturbed' => Undisturbed'
    BY <2>0, <2>c DEF ModelInv, Undisturbed, Alone, Named, Working, NotSaving
  <2> QED
    BY <2>2, <2>3, <2>4 DEF ModelInv
<1> QED
  BY <1>1, <1>2

\* The row is linked to the revision of this call.
LEMMA LinkLatestStep ==
    ASSUME ModelInv, NEW a \in Editors, LinkLatest(a)
    PROVE  ModelInv'
<1>t. /\ model \in [live : BOOLEAN, plugin : Plugins, credential : Secrets, latest : Nat]
      /\ saving[a] \in SaveCalls /\ revisions \in Seq(Revision)
  BY DEF ModelInv, ModelTypes
<1>0. /\ saving[a].pc \in {"link", "relink"} /\ saving'[a] = NotSaving
      /\ saving' \in [Editors -> SaveCalls] /\ \A b \in Editors \ {a} : saving'[b] = saving[b]
      /\ model' = [model EXCEPT !.latest = saving[a].number]
      /\ UNCHANGED <<revisions, catalog, disturbed>>
  BY IdleCall, SaveMoves DEF LinkLatest, Step
<1>1. saving[a].number \in DOMAIN revisions
  BY <1>0 DEF ModelInv, Holds
<1>b. /\ model' \in [live : BOOLEAN, plugin : Plugins, credential : Secrets, latest : Nat]
      /\ model'.latest = saving[a].number /\ model'.plugin = model.plugin
  BY <1>0, <1>1, <1>t
<1>2. ModelTypes' /\ (model.latest \in DOMAIN revisions)'
  BY <1>0, <1>1, <1>b DEF ModelInv, ModelTypes
<1>3. \A b \in Editors : Holds(b)'
  BY <1>0, IdleCall DEF ModelInv, Holds
<1>4. ~ disturbed' => Undisturbed'
  BY <1>0, <1>b, IdleCall DEF ModelInv, Undisturbed, Alone, Named, Working
<1> QED
  BY <1>2, <1>3, <1>4 DEF ModelInv

\* A call that stops leaves a disturbed model.
LEMMA SaveStopsStep ==
    ASSUME ModelInv, NEW a \in Editors, SaveStops(a)
    PROVE  ModelInv'
<1>t. /\ model \in [live : BOOLEAN, plugin : Plugins, credential : Secrets, latest : Nat]
      /\ saving[a] \in SaveCalls /\ revisions \in Seq(Revision)
  BY DEF ModelInv, ModelTypes
<1>0. /\ disturbed' = TRUE /\ saving'[a] = NotSaving
      /\ saving' \in [Editors -> SaveCalls] /\ \A b \in Editors \ {a} : saving'[b] = saving[b]
      /\ UNCHANGED <<model, revisions, catalog>>
  BY IdleCall, SaveMoves DEF SaveStops
<1>2. ModelTypes' /\ (model.latest \in DOMAIN revisions)'
  BY <1>0 DEF ModelInv, ModelTypes
<1>3. \A b \in Editors : Holds(b)'
  BY <1>0, IdleCall DEF ModelInv, Holds
<1> QED
  BY <1>0, <1>2, <1>3 DEF ModelInv

\* The row and its revision change together, and undisturbed nobody else is half way.
LEMMA savePluginModelStep ==
    ASSUME ModelInv, NEW a \in Editors, savePluginModel(a)
    PROVE  ModelInv'
<1>t. /\ model \in [live : BOOLEAN, plugin : Plugins, credential : Secrets, latest : Nat]
      /\ saving[a] \in SaveCalls /\ revisions \in Seq(Revision)
  BY DEF ModelInv, ModelTypes
<1>0. /\ saving[a].pc = "plugin" /\ saving'[a] = NotSaving
      /\ saving' \in [Editors -> SaveCalls] /\ \A b \in Editors \ {a} : saving'[b] = saving[b]
      /\ UNCHANGED <<catalog, disturbed>>
  BY IdleCall, SaveMoves DEF savePluginModel, Step
<1>1. CASE UNCHANGED <<model, revisions>>
  <2>2. ModelTypes' /\ (model.latest \in DOMAIN revisions)'
    BY <1>0, <1>1 DEF ModelInv, ModelTypes
  <2>3. \A b \in Editors : Holds(b)'
    BY <1>0, <1>1, IdleCall DEF ModelInv, Holds
  <2>4. ~ disturbed' => Undisturbed'
    BY <1>0, <1>1, IdleCall DEF ModelInv, Undisturbed, Alone, Named, Working
  <2> QED
    BY <2>2, <2>3, <2>4 DEF ModelInv
<1>2. CASE ~ UNCHANGED <<model, revisions>>
  <2> DEFINE secret == Given(saving[a].credential, saving[a].seen)
             stored == Given(saving[a].credential, model.credential)
  <2>a. /\ saving[a].plugin \in Plugins /\ secret \in Secrets /\ stored \in Secrets
    BY <1>0, <1>t, ModelAssumption DEF ModelInv, Holds, Given, SaveCalls
  <2>b. /\ revisions' = Append(revisions, [ plugin |-> saving[a].plugin, contract |-> "declared",
                                             credential |-> secret ])
        /\ model' = [model EXCEPT !.plugin = saving[a].plugin, !.latest = Len(revisions) + 1,
                                  !.credential = stored]
    BY <1>2 DEF savePluginModel
  <2> HIDE DEF secret, stored
  <2>c. [plugin |-> saving[a].plugin, contract |-> "declared", credential |-> secret] \in Revision
    BY <2>a DEF Revision, Contract
  <2>d. /\ revisions' \in Seq(Revision) /\ Len(revisions') = Len(revisions) + 1
        /\ \A i \in DOMAIN revisions : i \in DOMAIN revisions' /\ revisions'[i] = revisions[i]
        /\ Len(revisions) + 1 \in DOMAIN revisions'
        /\ revisions'[Len(revisions) + 1].plugin = saving[a].plugin
    BY <1>t, <2>b, <2>c
  <2>e. /\ model' \in [live : BOOLEAN, plugin : Plugins, credential : Secrets, latest : Nat]
        /\ model'.plugin = saving[a].plugin /\ model'.latest = Len(revisions) + 1
    <3> DEFINE number == Len(revisions) + 1
    <3>1. number \in Nat /\ model' = [model EXCEPT !.plugin = saving[a].plugin, !.latest = number,
                                                  !.credential = stored]
      BY <1>t, <2>b
    <3> HIDE DEF number
    <3>2. /\ model' \in [live : BOOLEAN, plugin : Plugins, credential : Secrets, latest : Nat]
          /\ model'.plugin = saving[a].plugin /\ model'.latest = number
      BY <1>t, <2>a, <3>1
    <3> QED
      BY <3>2 DEF number
  <2>2. ModelTypes' /\ (model.latest \in DOMAIN revisions)'
    BY <1>0, <2>d, <2>e DEF ModelInv, ModelTypes
  <2>3. \A b \in Editors : Holds(b)'
    BY <1>0, <2>d, IdleCall DEF ModelInv, Holds
  <2>4. ~ disturbed => \A b \in Editors : saving'[b].pc \in {"idle", "plugin"}
    <3>1. \A b \in Editors \ {a} : saving[b].pc \in Working \cup {"idle", "plugin", "preset"}
      BY DEF ModelInv, ModelTypes, SaveCalls
    <3> QED
      BY <1>0, <3>1, IdleCall DEF ModelInv, Undisturbed, Alone
  <2>5. ~ disturbed' => Undisturbed'
    BY <1>0, <2>d, <2>e, <2>4 DEF Undisturbed, Named, Working
  <2> QED
    BY <2>2, <2>3, <2>5 DEF ModelInv
<1> QED
  BY <1>1, <1>2

\* The plugin of the row becomes the one the call goes on with, alone if undisturbed.
LEMMA savePresetModelStep ==
    ASSUME ModelInv, NEW a \in Editors, savePresetModel(a)
    PROVE  ModelInv'
<1>t. /\ model \in [live : BOOLEAN, plugin : Plugins, credential : Secrets, latest : Nat]
      /\ saving[a] \in SaveCalls /\ revisions \in Seq(Revision)
  BY DEF ModelInv, ModelTypes
<1>0. /\ saving[a].pc = "preset" /\ UNCHANGED <<revisions, catalog, disturbed>>
  BY DEF savePresetModel, Step
<1>1. CASE Step(a, "preset", NotSaving) /\ UNCHANGED <<model, revisions>>
  <2>0. /\ saving'[a] = NotSaving /\ UNCHANGED model
        /\ saving' \in [Editors -> SaveCalls] /\ \A b \in Editors \ {a} : saving'[b] = saving[b]
    BY <1>1, IdleCall, SaveMoves DEF Step
  <2>2. ModelTypes' /\ (model.latest \in DOMAIN revisions)'
    BY <1>0, <2>0 DEF ModelInv, ModelTypes
  <2>3. \A b \in Editors : Holds(b)'
    BY <1>0, <2>0, IdleCall DEF ModelInv, Holds
  <2>4. ~ disturbed' => Undisturbed'
    BY <1>0, <2>0, IdleCall DEF ModelInv, Undisturbed, Alone, Named, Working
  <2> QED
    BY <2>2, <2>3, <2>4 DEF ModelInv
<1>2. CASE ~ (Step(a, "preset", NotSaving) /\ UNCHANGED <<model, revisions>>)
  <2> DEFINE brought == Given(saving[a].plugin, model.plugin)
             secret == Given(saving[a].credential, model.credential)
             next == [saving[a] EXCEPT !.pc = "look", !.plugin = brought, !.credential = secret]
  <2>a. brought \in Plugins /\ secret \in Secrets
    BY <1>t DEF Given, SaveCalls
  <2>b. /\ model' = [model EXCEPT !.plugin = brought, !.credential = secret]
        /\ saving' = [saving EXCEPT ![a] = [saving[a] EXCEPT !.pc = "look", !.plugin = model'.plugin,
                                                              !.credential = model'.credential]]
    BY <1>2 DEF savePresetModel, Step
  <2> HIDE DEF brought, secret
  <2>c. /\ model' \in [live : BOOLEAN, plugin : Plugins, credential : Secrets, latest : Nat]
        /\ model'.plugin = brought /\ model'.credential = secret /\ model'.latest = model.latest
    BY <1>t, <2>a, <2>b
  <2>d. /\ next \in SaveCalls /\ next.pc = "look" /\ next.plugin = brought
        /\ next.credential = secret
    BY <1>t, <2>a DEF SaveCalls, Working
  <2>e. saving' = [saving EXCEPT ![a] = next]
    BY <2>b, <2>c
  <2> HIDE DEF next
  <2>0. /\ saving'[a] = next
        /\ saving' \in [Editors -> SaveCalls] /\ \A b \in Editors \ {a} : saving'[b] = saving[b]
    BY <2>d, <2>e, SaveMoves
  <2>2. ModelTypes' /\ (model.latest \in DOMAIN revisions)'
    BY <1>0, <2>0, <2>c DEF ModelInv, ModelTypes
  <2>3. \A b \in Editors : Holds(b)'
    BY <1>0, <2>0, <2>a, <2>d DEF ModelInv, Holds, NotSaving
  <2>4. ~ disturbed' => Undisturbed'
    BY <1>0, <2>0, <2>c, <2>d, IdleCall DEF ModelInv, Undisturbed, Alone, Named, Working
  <2> QED
    BY <2>2, <2>3, <2>4 DEF ModelInv
<1> QED
  BY <1>1, <1>2

\* The revision behind latest_revision_id exists, and while no preset save overlapped another
\* save or stopped half way it names the plugin of the row.
THEOREM LatestStaysNamed == ModelSpec => []LatestNamesPlugin
<1>1. ModelInit => ModelInv
  <2> SUFFICES ASSUME ModelInit PROVE ModelInv
    OBVIOUS
  <2>1. PICK p \in Plugins, c \in Secrets :
           /\ model = [live |-> TRUE, plugin |-> p, credential |-> c, latest |-> 1]
           /\ revisions = <<[plugin |-> p, credential |-> c, contract |-> "declared"]>>
           /\ catalog = Plugins
    BY DEF ModelInit
  <2>2. saving = [a \in Editors |-> NotSaving] /\ disturbed = FALSE
    BY DEF ModelInit
  <2>3. [plugin |-> p, credential |-> c, contract |-> "declared"] \in Revision
    BY DEF Revision, Contract
  <2>4. revisions \in Seq(Revision) /\ 1 \in DOMAIN revisions /\ revisions[1].plugin = p
    BY <2>1, <2>3
  <2>5. ModelTypes
    BY <2>1, <2>2, <2>4, IdleCall DEF ModelTypes
  <2>6. \A a \in Editors : saving[a] = NotSaving /\ saving[a].pc = "idle"
    BY <2>2, IdleCall
  <2>7. model.latest \in DOMAIN revisions /\ \A a \in Editors : Holds(a)
    BY <2>1, <2>4, <2>6 DEF Holds
  <2>8. Undisturbed
    BY <2>1, <2>4, <2>6 DEF Undisturbed, Named, Working
  <2> QED
    BY <2>5, <2>7, <2>8 DEF ModelInv
<1>2. ModelInv /\ [ModelNext]_modelVars => ModelInv'
  <2> SUFFICES ASSUME ModelInv, [ModelNext]_modelVars PROVE ModelInv'
    OBVIOUS
  <2>1. ASSUME NEW a \in Editors, NEW c \in Secrets \cup {"keep"}, NEW p \in Plugins, BeginPluginSave(a, p, c)
        PROVE  ModelInv'
    <3> DEFINE given == [ pc |-> "plugin", plugin |-> p, credential |-> c, seen |-> model.credential,
                          contract |-> "declared", number |-> 0 ]
    <3>1. given \in SaveCalls /\ given.pc = "plugin" /\ given.plugin \in Plugins /\ given.seen \in Secrets
      BY DEF ModelInv, ModelTypes, SaveCalls, Contract
    <3>2. Begin(a, given)
      BY <2>1 DEF BeginPluginSave
    <3> QED
      BY <3>1, <3>2, BeginStep
  <2>2. ASSUME NEW a \in Editors, NEW c \in Secrets \cup {"keep"}, NEW p \in Plugins \cup {"none"},
               BeginPresetSave(a, p, c)
        PROVE  ModelInv'
    <3> DEFINE given == [ pc |-> "preset", plugin |-> p, credential |-> c, seen |-> "keep",
                          contract |-> IF p \in catalog THEN "declared" ELSE "undeclared", number |-> 0 ]
    <3>1. given \in SaveCalls /\ given.pc = "preset"
      BY DEF SaveCalls, Contract
    <3>2. Begin(a, given)
      BY <2>2 DEF BeginPresetSave
    <3> QED
      BY <3>1, <3>2, BeginStep
  <2>3. ASSUME NEW p \in Plugins, CatalogChanges(p) PROVE ModelInv'
    BY <2>3 DEF CatalogChanges, ModelInv, ModelTypes, Holds, Undisturbed, Alone, Named
  <2>4. CASE deleteModel
    <3>1. /\ model' \in [live : BOOLEAN, plugin : Plugins, credential : Secrets, latest : Nat]
          /\ model'.plugin = model.plugin /\ model'.latest = model.latest
          /\ UNCHANGED <<revisions, catalog, saving, disturbed>>
      BY <2>4 DEF deleteModel, ModelInv, ModelTypes
    <3> QED
      BY <3>1 DEF ModelInv, ModelTypes, Holds, Undisturbed, Alone, Named
  <2>5. CASE UNCHANGED modelVars
    BY <2>5 DEF modelVars, ModelInv, ModelTypes, Holds, Undisturbed, Alone, Named
  <2> QED
    BY <2>1, <2>2, <2>3, <2>4, <2>5, savePluginModelStep, savePresetModelStep, LookForDigestStep,
       AllocateRevisionStep, InsertRevisionStep, LinkLatestStep, SaveStopsStep DEF ModelNext, upsertModel
<1>3. ModelInv => LatestNamesPlugin
  <2> SUFFICES ASSUME ModelInv PROVE LatestNamesPlugin
    OBVIOUS
  <2>1. AtRest => \A a \in Editors : saving[a].pc \notin Working
    BY IdleCall DEF AtRest, Working
  <2> QED
    BY <2>1 DEF ModelInv, Undisturbed, Named, LatestNamesPlugin
<1> QED
  BY <1>1, <1>2, <1>3, PTL DEF ModelSpec
-----------------------------------------------------------------------------
(* Prompt templates.  A transaction that forks holds the swap lock alone, and the   *)
(* version it locked stays the active one.                                            *)
VersionRows == [version : Nat, active : BOOLEAN, holds : SUBSET TemplateEdits]
TheActive(v) == v \in versions /\ v.active /\ \A u \in versions : u.active => u = v
OneEach == \A u, v \in versions : u.version = v.version => u = v
TemplateInv ==
    /\ versions \subseteq VersionRows
    /\ fork \in [TemplateEditors -> SUBSET [from : VersionRows, edit : TemplateEdits]]
    /\ OneEach
    /\ \E v \in versions : TheActive(v) /\ applied \subseteq v.holds
    /\ \A d, e \in TemplateEditors : d # e => fork[d] = NoFork \/ fork[e] = NoFork
    /\ \A e \in TemplateEditors : \A f \in fork[e] : TheActive(f.from)

\* What a transaction allocates is a version above every other.
LEMMA NewVersion ==
    ASSUME NEW active \in BOOLEAN, NEW holds \in SUBSET TemplateEdits, NEW v \in Allocated(active, holds)
    PROVE  /\ v \in VersionRows /\ v.active = active /\ v.holds = holds
           /\ \A u \in versions : u.version < v.version
<1>1. /\ v \in [version : 1 .. MaxVersion, active : {active}, holds : {holds}]
      /\ \A u \in versions : u.version < v.version
  BY DEF Allocated
<1>2. PICK n \in 1 .. MaxVersion, a \in {active}, h \in {holds} : v = [version |-> n, active |-> a, holds |-> h]
  BY <1>1
<1>3. n \in Nat
  BY TemplateAssumption
<1> QED
  BY <1>1, <1>2, <1>3 DEF VersionRows

\* A new version that becomes the active one, with the edits applied so far.
LEMMA NewActive ==
    ASSUME versions \subseteq VersionRows, OneEach, NEW holds \in SUBSET TemplateEdits,
           NEW v \in Allocated(TRUE, holds), versions' = Deactivated \cup {v},
           applied' \subseteq holds
    PROVE  /\ versions' \subseteq VersionRows /\ OneEach' /\ TheActive(v)' /\ applied' \subseteq v.holds
<1>1. /\ v \in VersionRows /\ v.active /\ v.holds = holds
      /\ \A u \in versions : u.version < v.version
  BY NewVersion
<1>2. \A u \in versions : /\ [u EXCEPT !.active = FALSE] \in VersionRows
                          /\ [u EXCEPT !.active = FALSE].version = u.version
                          /\ ~ [u EXCEPT !.active = FALSE].active
  BY DEF VersionRows
<1>3. \A w \in versions' : w = v \/ \E u \in versions : w = [u EXCEPT !.active = FALSE]
  BY DEF Deactivated
<1>4. /\ v \in versions'
      /\ \A w \in versions' : w = v \/ ( /\ w \in VersionRows /\ ~ w.active /\ w.version < v.version
                                         /\ \E u \in versions : w = [u EXCEPT !.active = FALSE] )
  BY <1>1, <1>2, <1>3, ZenonT(60)
<1>5. versions' \subseteq VersionRows /\ TheActive(v)' /\ applied' \subseteq v.holds
  BY <1>1, <1>4 DEF TheActive
<1>6. ASSUME NEW w \in versions', NEW x \in versions', w.version = x.version PROVE w = x
  <2>1. CASE w = v \/ x = v
    BY <1>1, <1>4, <1>6, <2>1 DEF VersionRows
  <2>2. CASE w # v /\ x # v
    <3>1. PICK u \in versions, y \in versions :
             w = [u EXCEPT !.active = FALSE] /\ x = [y EXCEPT !.active = FALSE]
      BY <1>4, <2>2
    <3>2. u = y
      BY <1>2, <1>6, <3>1 DEF OneEach
    <3> QED
      BY <3>1, <3>2
  <2> QED
    BY <2>1, <2>2
<1> QED
  BY <1>5, <1>6 DEF OneEach

\* While the swap lock is free nobody forks.
LEMMA Unlocked == SwapLockFree => \A e \in TemplateEditors : fork[e] = {}
<1> QED
  BY DEF SwapLockFree, NoFork

\* Versions are allocated once, one of them is active, and it has every edit that was
\* answered with success since it was activated or imported.
THEOREM TemplatesStayConsistent == TemplateSpec => []TemplatesConsistent
<1>1. TemplateInit => TemplateInv
  <2> SUFFICES ASSUME TemplateInit PROVE TemplateInv
    OBVIOUS
  <2> DEFINE first == [version |-> 1, active |-> TRUE, holds |-> {}]
  <2>1. first \in VersionRows /\ first.active /\ versions = {first} /\ applied = {}
    BY DEF TemplateInit, VersionRows
  <2>2. \A e \in TemplateEditors : fork[e] = {}
    BY DEF TemplateInit, NoFork
  <2>3. fork \in [TemplateEditors -> SUBSET [from : VersionRows, edit : TemplateEdits]]
    BY DEF TemplateInit, NoFork
  <2> HIDE DEF first
  <2> QED
    BY <2>1, <2>2, <2>3 DEF TemplateInv, TheActive, OneEach, NoFork
<1>2. TemplateInv /\ [TemplateNext]_templateVars => TemplateInv'
  <2> SUFFICES ASSUME TemplateInv, [TemplateNext]_templateVars PROVE TemplateInv'
    OBVIOUS
  <2>0. /\ versions \subseteq VersionRows /\ OneEach
        /\ fork \in [TemplateEditors -> SUBSET [from : VersionRows, edit : TemplateEdits]]
    BY DEF TemplateInv
  <2>1. CASE ImportActive
    <3>1. PICK v \in Allocated(TRUE, {}) : versions' = Deactivated \cup {v}
      BY <2>1 DEF ImportActive
    <3>2. applied' \subseteq {} /\ UNCHANGED fork /\ \A e \in TemplateEditors : fork[e] = {}
      BY <2>1, Unlocked DEF ImportActive
    <3>3. versions' \subseteq VersionRows /\ OneEach' /\ TheActive(v)' /\ applied' \subseteq v.holds
      BY <2>0, <3>1, <3>2, NewActive
    <3> QED
      BY <2>0, <3>2, <3>3 DEF TemplateInv, NoFork, TheActive
  <2>2. CASE ImportInactive
    <3>1. PICK v \in Allocated(FALSE, {}) : versions' = versions \cup {v}
      BY <2>2 DEF ImportInactive
    <3>2. v \in VersionRows /\ ~ v.active /\ \A u \in versions : u.version < v.version
      BY <3>1, NewVersion
    <3>3. versions' \subseteq VersionRows /\ OneEach' /\ UNCHANGED <<fork, applied>>
      BY <2>0, <2>2, <3>1, <3>2 DEF OneEach, ImportInactive, VersionRows
    <3>4. \A u : TheActive(u) => TheActive(u)'
      BY <3>1, <3>2 DEF TheActive
    <3> QED
      BY <2>0, <3>1, <3>3, <3>4 DEF TemplateInv
  <2>3. ASSUME NEW v \in versions, activatePromptTemplateSet(v) PROVE TemplateInv'
    <3> DEFINE as(u) == [u EXCEPT !.active = (u = v)]
    <3>1. /\ versions' = {as(u) : u \in versions} /\ applied' = v.holds /\ UNCHANGED fork
          /\ \A e \in TemplateEditors : fork[e] = {}
      BY <2>3, Unlocked DEF activatePromptTemplateSet
    <3>2. \A u \in versions : /\ as(u) \in VersionRows /\ as(u).version = u.version /\ as(u).holds = u.holds
                              /\ as(u).active <=> u = v
      BY <2>0 DEF VersionRows
    <3> HIDE DEF as
    <3>3. versions' \subseteq VersionRows
      BY <3>1, <3>2
    <3>5. ASSUME NEW w \in versions', NEW x \in versions', w.version = x.version PROVE w = x
      <4>1. PICK u \in versions, y \in versions : w = as(u) /\ x = as(y)
        BY <3>1
      <4>2. as(u).version = as(y).version
        BY <3>5, <4>1
      <4>3. u.version = y.version
        BY <3>2, <4>2
      <4>4. u = y
        BY <2>0, <4>3 DEF OneEach
      <4> QED
        BY <4>1, <4>4
    <3>6. OneEach'
      BY <3>5 DEF OneEach
    <3>4. as(v) \in versions' /\ TheActive(as(v))' /\ applied' \subseteq as(v).holds
      BY <3>1, <3>2 DEF TheActive
    <3> QED
      BY <2>0, <3>1, <3>3, <3>4, <3>6 DEF TemplateInv, NoFork
  <2>4. ASSUME NEW v \in versions, deletePromptTemplateSet(v) PROVE TemplateInv'
    <3>1. /\ versions' = versions \ {v} /\ ~ v.active /\ UNCHANGED <<fork, applied>>
          /\ \A e \in TemplateEditors : fork[e] = {}
      BY <2>4, Unlocked DEF deletePromptTemplateSet
    <3> QED
      BY <2>0, <3>1 DEF TemplateInv, OneEach, TheActive, NoFork
  <2>5. ASSUME NEW e \in TemplateEditors, forkPromptTemplateSet(e) PROVE TemplateInv'
    <3>1. PICK f \in fork[e] : /\ \E v \in Allocated(TRUE, f.from.holds \cup {f.edit}) :
                                     versions' = Deactivated \cup {v}
                               /\ applied' = applied \cup {f.edit}
      BY <2>5 DEF forkPromptTemplateSet
    <3> DEFINE holds == f.from.holds \cup {f.edit}
    <3>2. f \in [from : VersionRows, edit : TemplateEdits] /\ fork[e] # NoFork
      BY <2>0, <3>1 DEF NoFork
    <3>3. holds \in SUBSET TemplateEdits
      BY <3>2 DEF VersionRows
    <3>4. applied' \subseteq holds
      BY <3>1 DEF TemplateInv, TheActive
    <3>5. PICK v \in Allocated(TRUE, holds) : versions' = Deactivated \cup {v}
      BY <3>1
    <3> HIDE DEF holds
    <3>6. versions' \subseteq VersionRows /\ OneEach' /\ TheActive(v)' /\ applied' \subseteq v.holds
      BY <2>0, <3>3, <3>4, <3>5, NewActive
    <3>7. /\ fork' \in [TemplateEditors -> SUBSET [from : VersionRows, edit : TemplateEdits]]
          /\ \A d \in TemplateEditors : fork'[d] = {}
      BY <2>0, <2>5, <3>2 DEF forkPromptTemplateSet, TemplateInv, NoFork
    <3> QED
      BY <3>6, <3>7 DEF TemplateInv, NoFork, TheActive
  <2>6. ASSUME NEW e \in TemplateEditors, ForkRollsBack(e) PROVE TemplateInv'
    BY <2>6 DEF ForkRollsBack, TemplateInv, NoFork, TheActive, OneEach
  <2>7. ASSUME NEW e \in TemplateEditors, NEW v \in versions, NEW edit \in TemplateEdits, BeginFork(e, v, edit)
        PROVE  TemplateInv'
    <3>1. /\ fork' = [fork EXCEPT ![e] = {[from |-> v, edit |-> edit]}]
          /\ \A d \in TemplateEditors : fork[d] = {}
          /\ v.active /\ UNCHANGED <<versions, applied>>
      BY <2>7, Unlocked DEF BeginFork
    <3>2. TheActive(v)
      BY <3>1 DEF TemplateInv, TheActive
    <3>3. /\ fork' \in [TemplateEditors -> SUBSET [from : VersionRows, edit : TemplateEdits]]
          /\ \A d \in TemplateEditors : d # e => fork'[d] = {}
          /\ \A d \in TemplateEditors : \A f \in fork'[d] : f.from = v
      BY <2>0, <3>1
    <3> QED
      BY <3>1, <3>2, <3>3 DEF TemplateInv, NoFork, TheActive, OneEach
  <2>8. CASE UNCHANGED templateVars
    BY <2>8 DEF templateVars, TemplateInv, TheActive, OneEach
  <2> QED
    BY <2>1, <2>2, <2>3, <2>4, <2>5, <2>6, <2>7, <2>8 DEF TemplateNext
<1>3. TemplateInv => TemplatesConsistent
  <2> SUFFICES ASSUME TemplateInv PROVE TemplatesConsistent
    OBVIOUS
  <2>1. PICK v \in versions : TheActive(v) /\ applied \subseteq v.holds
    BY DEF TemplateInv
  <2>2. ActiveVersion = {v}
    BY <2>1 DEF ActiveVersion, TheActive
  <2>3. Cardinality(ActiveVersion) = 1
    BY <2>2, FS_Singleton
  <2> QED
    BY <2>1, <2>2, <2>3 DEF TemplatesConsistent, TemplateInv, OneEach
<1> QED
  BY <1>1, <1>2, <1>3, PTL DEF TemplateSpec
-----------------------------------------------------------------------------
(* Migrations.  The runner that holds the lock knows the history but for what it     *)
(* recorded itself; a file that was executed and not recorded is the last one        *)
(* executed, runs outside of a transaction, and every file below it is recorded.      *)
Holder(r) == runner[r].pc # "idle"
Unrecorded(i) == i \in DOMAIN executed /\ executed[i].number \notin DOMAIN history
Executed(v, c) == \E i \in DOMAIN executed : executed[i] = [number |-> v, checksum |-> c]
Reached(r) ==
    /\ runner[r].pc = "locked" => runner[r].at = 0
    /\ DOMAIN runner[r].recorded \subseteq DOMAIN history
    /\ \A v \in DOMAIN history : v \in DOMAIN runner[r].recorded \/ v <= runner[r].at
    /\ runner[r].pc \in {"apply", "record"} => Valid(files[r], runner[r].recorded)
    /\ \A v \in DOMAIN files[r] : v < runner[r].at => v \in DOMAIN history
    /\ runner[r].pc = "apply" =>
         \A v \in DOMAIN files[r] : v <= runner[r].at => v \in DOMAIN history
    /\ runner[r].pc = "record" =>
         /\ runner[r].at \in DOMAIN files[r] \ DOMAIN history
         /\ Executed(runner[r].at, files[r][runner[r].at])
RunnerState == [pc : {"idle", "locked", "apply", "record"}, recorded : Files, at : Nat]
Execution == [number : 1 .. LastMigration, checksum : Checksum]
MigrationTypes ==
    /\ \A r \in Runners : files[r] \in Files /\ 1 .. BaselineMax \subseteq DOMAIN files[r]
    /\ history \in Files
    /\ runner \in [Runners -> RunnerState]
    /\ executed \in Seq(Execution)
OneHolder ==
    /\ \A r \in Runners : Holder(r) \/ runner[r] = NotRunning
    /\ \A r, q \in Runners : Holder(r) /\ Holder(q) => r = q
AllReached == \A r \in Runners : Holder(r) => Reached(r)
LastUnrecorded ==
    \A i \in DOMAIN executed : Unrecorded(i) =>
         /\ executed[i].number \in NonTransactional
         /\ \A v \in 1 .. executed[i].number - 1 : v \in DOMAIN history
         /\ \A j \in DOMAIN executed : executed[j].number <= executed[i].number
MigrationInv == MigrationTypes /\ OneHolder /\ AllReached /\ LastUnrecorded /\ MigrationsOrdered

\* The files of a release and the history are numbered within bounds, with checksums.
LEMMA FileTypes ==
    ASSUME NEW f \in Files
    PROVE  /\ DOMAIN f \subseteq 1 .. LastMigration /\ DOMAIN f \subseteq Nat
           /\ \A v \in DOMAIN f : f[v] \in Checksum
<1>1. PICK S \in SUBSET (1 .. LastMigration) : f \in [S -> Checksum]
  BY DEF Files
<1> QED
  BY <1>1, MigrationAssumption

\* No files at all are files.
LEMMA NothingRecorded == NoFiles \in Files /\ DOMAIN NoFiles = {} /\ NotRunning \in RunnerState
<1>1. NoFiles \in [{} -> Checksum]
  BY DEF NoFiles
<1>2. NoFiles \in Files /\ DOMAIN NoFiles = {}
  BY <1>1 DEF Files
<1> QED
  BY <1>2 DEF NotRunning, RunnerState

\* Recording adds the file to the history and changes nothing else in it.
LEMMA Recording ==
    ASSUME MigrationTypes, NEW r \in Runners, NEW v \in DOMAIN files[r] \ DOMAIN history
    PROVE  /\ Recorded(r, v) \in Files
           /\ DOMAIN Recorded(r, v) = DOMAIN history \cup {v}
           /\ Recorded(r, v)[v] = files[r][v]
           /\ \A u \in DOMAIN history : Recorded(r, v)[u] = history[u]
<1>1. /\ DOMAIN history \cup {v} \in SUBSET (1 .. LastMigration)
      /\ files[r][v] \in Checksum /\ \A u \in DOMAIN history : history[u] \in Checksum
  BY FileTypes DEF MigrationTypes
<1>2. Recorded(r, v) = [u \in DOMAIN history \cup {v} |-> IF u = v THEN files[r][v] ELSE history[u]]
  BY DEF Recorded
<1>3. Recorded(r, v) \in [DOMAIN history \cup {v} -> Checksum]
  BY <1>1, <1>2
<1> QED
  BY <1>1, <1>2, <1>3 DEF Files

\* The next file of a run was not recorded and comes after every file that was; what was
\* executed comes before it, or is this file, which did not get recorded; and the files of
\* the release below it are recorded.
LEMMA NextFile ==
    ASSUME MigrationInv, NEW r \in Runners, NEW v, NextToApply(r, v)
    PROVE  /\ v \in DOMAIN files[r] \ DOMAIN history /\ v > runner[r].at
           /\ \A u \in DOMAIN history : u < v
           /\ \A i \in DOMAIN executed :
                \/ executed[i].number \in DOMAIN history /\ executed[i].number < v
                \/ Unrecorded(i) /\ executed[i].number = v
           /\ \A w \in DOMAIN files[r] : w < v => w \in DOMAIN history
<1>0. MigrationTypes /\ AllReached /\ LastUnrecorded
  BY DEF MigrationInv
<1>1. /\ Reached(r) /\ runner[r].pc = "apply" /\ v \in Pending(r)
      /\ \A u \in Pending(r) : v <= u
  BY <1>0 DEF NextToApply, AllReached, Holder
<1>2. /\ DOMAIN files[r] \subseteq 1 .. LastMigration /\ DOMAIN files[r] \subseteq Nat
      /\ 1 .. BaselineMax \subseteq DOMAIN files[r]
      /\ DOMAIN history \subseteq Nat /\ runner[r].at \in Nat
      /\ DOMAIN runner[r].recorded \subseteq Nat
  BY <1>0, FileTypes DEF MigrationTypes, RunnerState
<1>3. v \in DOMAIN files[r] /\ v \in Nat /\ v \notin DOMAIN runner[r].recorded /\ v > runner[r].at
  BY <1>1, <1>2 DEF Pending
<1>4. \A u \in DOMAIN history : u < v
  BY <1>1, <1>2, <1>3 DEF Reached, Valid
<1>7. v \notin DOMAIN history
  <2>1. ~ (v < v)
    BY <1>3
  <2> QED
    BY <1>4, <2>1
<1>5. \A w \in DOMAIN files[r] : w < v => w \in DOMAIN history
  BY <1>1, <1>2, <1>3 DEF Reached, Pending
<1>6. ASSUME NEW i \in DOMAIN executed
      PROVE  \/ executed[i].number \in DOMAIN history /\ executed[i].number < v
             \/ Unrecorded(i) /\ executed[i].number = v
  <2>1. executed[i] \in Execution
    BY <1>0 DEF MigrationTypes
  <2>4. executed[i].number \in Nat
    BY <2>1, MigrationAssumption DEF Execution
  <2>2. CASE ~ Unrecorded(i)
    BY <1>4, <2>2 DEF Unrecorded
  <2>3. CASE Unrecorded(i)
    <3> DEFINE u == executed[i].number
    <3>1. /\ u \in NonTransactional /\ u \notin DOMAIN history
          /\ \A w \in 1 .. u - 1 : w \in DOMAIN history
      BY <1>0, <2>3 DEF LastUnrecorded, Unrecorded
    <3>2. u \in DOMAIN files[r]
      BY <1>2, <3>1, MigrationAssumption
    <3>3. u \in Pending(r)
      BY <1>1, <1>2, <2>4, <3>1, <3>2 DEF Reached, Pending
    <3>4. v <= u
      BY <1>1, <3>3
    <3>5. v = u
      BY <1>2, <1>3, <1>7, <2>4, <3>1, <3>4, MigrationAssumption
    <3> QED
      BY <2>3, <3>5
  <2> QED
    BY <2>2, <2>3
<1> QED
  BY <1>3, <1>4, <1>5, <1>6, <1>7

\* A file that is executed comes after those executed before it, except for itself.
LEMMA Executing ==
    ASSUME MigrationInv, NEW r \in Runners, NEW v, NextToApply(r, v), Execute(r, v)
    PROVE  /\ executed' \in Seq(Execution)
           /\ DOMAIN executed' = DOMAIN executed \cup {Len(executed) + 1}
           /\ executed'[Len(executed) + 1] = [number |-> v, checksum |-> files[r][v]]
           /\ \A i \in DOMAIN executed : executed'[i] = executed[i] /\ i < Len(executed) + 1
<1>1. v \in DOMAIN files[r] /\ files[r] \in Files /\ executed \in Seq(Execution)
  BY NextFile DEF MigrationInv, MigrationTypes
<1>2. [number |-> v, checksum |-> files[r][v]] \in Execution
  BY <1>1, FileTypes DEF Execution
<1> DEFINE x == [number |-> v, checksum |-> files[r][v]]
<1>3. x \in Execution /\ executed' = Append(executed, x)
  BY <1>2 DEF Execute
<1> HIDE DEF x
<1>4. /\ executed' \in Seq(Execution)
      /\ DOMAIN executed' = DOMAIN executed \cup {Len(executed) + 1}
      /\ executed'[Len(executed) + 1] = x
      /\ \A i \in DOMAIN executed : executed'[i] = executed[i] /\ i < Len(executed) + 1
  BY <1>1, <1>3
<1> QED
  BY <1>4 DEF x

\* Files are executed in order, one at a time and once, those outside of a transaction perhaps
\* again before the next one, and the history records what was executed.
THEOREM MigrationsStayOrdered == MigrationSpec => []MigrationsOrdered
<1>1. MigrationInit => MigrationInv
  <2> SUFFICES ASSUME MigrationInit PROVE MigrationInv
    OBVIOUS
  <2>1. NoFiles \in Files /\ DOMAIN NoFiles = {}
    BY NothingRecorded
  <2>2. /\ history = NoFiles /\ executed = <<>> /\ runner = [r \in Runners |-> NotRunning]
        /\ \A r \in Runners : files[r] \in Files /\ 1 .. BaselineMax \subseteq DOMAIN files[r]
    BY DEF MigrationInit
  <2>3. NotRunning \in RunnerState /\ NotRunning.pc = "idle"
    BY NothingRecorded DEF NotRunning
  <2>4. MigrationTypes
    BY <2>1, <2>2, <2>3 DEF MigrationTypes
  <2>5. OneHolder /\ AllReached
    BY <2>2, <2>3 DEF OneHolder, AllReached, Holder
  <2>6. LastUnrecorded /\ MigrationsOrdered
    BY <2>1, <2>2 DEF LastUnrecorded, MigrationsOrdered
  <2> QED
    BY <2>4, <2>5, <2>6 DEF MigrationInv
<1>2. MigrationInv /\ [MigrationNext]_migrationVars => MigrationInv'
  <2> SUFFICES ASSUME MigrationInv, [MigrationNext]_migrationVars PROVE MigrationInv'
    OBVIOUS
  <2>0. MigrationTypes /\ OneHolder /\ AllReached /\ LastUnrecorded /\ MigrationsOrdered
    BY DEF MigrationInv
  <2>1. ASSUME NEW r \in Runners, TakeLock(r) PROVE MigrationInv'
    <3> DEFINE to == [pc |-> "locked", recorded |-> history, at |-> 0]
    <3>1. /\ runner' = [runner EXCEPT ![r] = to] /\ UNCHANGED <<files, history, executed>>
          /\ \A q \in Runners : runner[q] = NotRunning
      BY <2>1 DEF TakeLock, LockFree
    <3>2. /\ to \in RunnerState /\ to.pc = "locked" /\ to.recorded = history /\ to.at = 0
          /\ NotRunning.pc = "idle"
      BY <2>0 DEF MigrationTypes, RunnerState, NotRunning
    <3> HIDE DEF to
    <3>3. MigrationTypes' /\ LastUnrecorded' /\ MigrationsOrdered'
      BY <2>0, <3>1, <3>2 DEF MigrationTypes, LastUnrecorded, Unrecorded, MigrationsOrdered
    <3>4. runner'[r] = to /\ \A q \in Runners \ {r} : runner'[q] = NotRunning
      BY <2>0, <3>1 DEF MigrationTypes
    <3>5. OneHolder'
      BY <3>2, <3>4 DEF OneHolder, Holder
    <3>6. Reached(r)'
      <4>1. DOMAIN files[r] \subseteq 1 .. LastMigration
        BY <2>0, FileTypes DEF MigrationTypes
      <4> QED
        BY <3>1, <3>2, <3>4, <4>1, MigrationAssumption DEF Reached
    <3> QED
      BY <3>2, <3>3, <3>4, <3>5, <3>6 DEF MigrationInv, AllReached, Holder
  <2>2. ASSUME NEW r \in Runners, NEW to \in RunnerState, runner' = [runner EXCEPT ![r] = to], Holder(r),
               to = NotRunning \/ (to.pc # "idle" /\ Reached(r)'), UNCHANGED <<files, history, executed>>
        PROVE  MigrationInv'
    <3>1. /\ runner'[r] = to /\ \A q \in Runners \ {r} : runner'[q] = NotRunning
          /\ NotRunning.pc = "idle"
      BY <2>0, <2>2 DEF MigrationTypes, OneHolder, NotRunning
    <3>2. MigrationTypes' /\ LastUnrecorded' /\ MigrationsOrdered'
      BY <2>0, <2>2 DEF MigrationTypes, LastUnrecorded, Unrecorded, MigrationsOrdered
    <3>3. OneHolder' /\ AllReached'
      BY <2>2, <3>1 DEF OneHolder, AllReached, Holder
    <3> QED
      BY <3>2, <3>3 DEF MigrationInv
  <2>3. ASSUME NEW r \in Runners, validate(r) PROVE MigrationInv'
    <3>1. /\ runner[r].pc = "locked" /\ Reached(r) /\ Holder(r) /\ runner[r] \in RunnerState
          /\ UNCHANGED <<files, history, executed>>
          /\ \A v \in DOMAIN files[r] : v \in Nat /\ v >= 1
      BY <2>0, <2>3, FileTypes DEF validate, MigrationTypes, AllReached, Holder
    <3> DEFINE to == [runner[r] EXCEPT !.pc = "apply"]
    <3>2. /\ to \in RunnerState /\ to.pc = "apply" /\ to.recorded = runner[r].recorded
          /\ to.at = runner[r].at /\ NotRunning \in RunnerState
      BY <3>1, NothingRecorded DEF RunnerState
    <3>3. \/ runner' = [runner EXCEPT ![r] = NotRunning]
          \/ Valid(files[r], runner[r].recorded) /\ runner' = [runner EXCEPT ![r] = to]
      BY <2>0, <2>3 DEF validate, MigrationTypes
    <3> HIDE DEF to
    <3>4. CASE runner' = [runner EXCEPT ![r] = NotRunning]
      BY <2>2, <3>1, <3>2, <3>4
    <3>5. CASE Valid(files[r], runner[r].recorded) /\ runner' = [runner EXCEPT ![r] = to]
      <4>1. runner'[r] = to
        BY <2>0, <3>5 DEF MigrationTypes
      <4>2. Reached(r)'
        BY <3>1, <3>2, <3>5, <4>1 DEF Reached
      <4> QED
        BY <2>2, <3>1, <3>2, <3>5, <4>2
    <3> QED
      BY <3>3, <3>4, <3>5
  <2>4. ASSUME NEW r \in Runners, RunEnds(r) PROVE MigrationInv'
    <3>1. /\ runner' = [runner EXCEPT ![r] = NotRunning] /\ Holder(r)
          /\ UNCHANGED <<files, history, executed>>
      BY <2>0, <2>4 DEF RunEnds, OneHolder
    <3>2. NotRunning \in RunnerState
      BY NothingRecorded
    <3> QED
      BY <2>2, <3>1, <3>2
  <2>5. ASSUME NEW r \in Runners, NEW v \in 1 .. LastMigration \ NonTransactional, NextToApply(r, v), Execute(r, v),
               history' = Recorded(r, v), runner' = [runner EXCEPT ![r].at = v], UNCHANGED files
        PROVE  MigrationInv'
    <3>1. /\ v \in DOMAIN files[r] \ DOMAIN history /\ v > runner[r].at /\ v \in Nat
          /\ \A u \in DOMAIN history : u < v
          /\ \A w \in DOMAIN files[r] : w < v => w \in DOMAIN history
      BY <2>5, NextFile, MigrationAssumption
    <3>2. ASSUME NEW i \in DOMAIN executed
          PROVE  executed[i].number < v /\ executed[i].number \in DOMAIN history
      <4>1. Unrecorded(i) => executed[i].number \in NonTransactional
        BY <2>0 DEF LastUnrecorded
      <4>2. \/ executed[i].number \in DOMAIN history /\ executed[i].number < v
            \/ Unrecorded(i) /\ executed[i].number = v
        BY <2>5, NextFile
      <4>3. ~ (Unrecorded(i) /\ executed[i].number = v)
        BY <2>5, <4>1
      <4> QED
        BY <4>2, <4>3
    <3>3. /\ history' \in Files /\ DOMAIN history' = DOMAIN history \cup {v}
          /\ history'[v] = files[r][v] /\ \A u \in DOMAIN history : history'[u] = history[u]
      <4>1. /\ Recorded(r, v) \in Files /\ DOMAIN Recorded(r, v) = DOMAIN history \cup {v}
            /\ Recorded(r, v)[v] = files[r][v]
            /\ \A u \in DOMAIN history : Recorded(r, v)[u] = history[u]
        BY <2>0, <3>1, Recording
      <4>2. history' = Recorded(r, v)
        BY <2>5
      <4> QED
        BY <4>1, <4>2
    <3>4. /\ executed' \in Seq(Execution)
          /\ DOMAIN executed' = DOMAIN executed \cup {Len(executed) + 1}
          /\ executed'[Len(executed) + 1] = [number |-> v, checksum |-> files[r][v]]
          /\ \A i \in DOMAIN executed : executed'[i] = executed[i] /\ i < Len(executed) + 1
      BY <2>5, Executing
    <3>5. /\ runner' \in [Runners -> RunnerState] /\ Holder(r)
          /\ runner'[r].pc = "apply" /\ runner[r].pc = "apply"
          /\ runner'[r].recorded = runner[r].recorded /\ runner'[r].at = v
          /\ \A q \in Runners \ {r} : runner'[q] = runner[q]
      BY <2>0, <2>5, <3>1 DEF MigrationTypes, RunnerState, NextToApply, Holder
    <3>6. MigrationTypes'
      BY <2>0, <2>5, <3>3, <3>4, <3>5 DEF MigrationTypes
    <3>7. OneHolder'
      BY <2>0, <3>5 DEF OneHolder, Holder
    <3>8. Reached(r)'
      <4>1. Reached(r) /\ runner[r].at \in Nat /\ DOMAIN history \subseteq Nat /\ DOMAIN files[r] \subseteq Nat
        BY <2>0, <3>5, FileTypes DEF AllReached, MigrationTypes, RunnerState
      <4> QED
        BY <2>5, <3>1, <3>3, <3>5, <4>1 DEF Reached
    <3>9. AllReached'
      BY <2>0, <3>5, <3>8 DEF AllReached, Holder, OneHolder
    <3>10. LastUnrecorded'
      BY <3>2, <3>3, <3>4 DEF LastUnrecorded, Unrecorded
    <3>11. MigrationsOrdered'
      <4> DEFINE x == [number |-> v, checksum |-> files[r][v]]
                 last == Len(executed) + 1
      <4>1. /\ DOMAIN executed' = DOMAIN executed \cup {last} /\ executed'[last] = x
            /\ \A i \in DOMAIN executed : executed'[i] = executed[i] /\ i < last
            /\ x.number = v /\ last \in Nat /\ DOMAIN executed \subseteq Nat
        BY <2>0, <3>4 DEF MigrationTypes
      <4>2. x = [number |-> v, checksum |-> history'[v]]
        BY <3>3
      <4> HIDE DEF x, last
      <4>3. \A i, j \in DOMAIN executed' : i < j =>
              \/ executed'[i].number < executed'[j].number
              \/ executed'[i].number = executed'[j].number /\ executed'[i].number \in NonTransactional
        BY <2>0, <3>2, <4>1 DEF MigrationsOrdered
      <4>4. \A u \in DOMAIN history' :
              \E i \in DOMAIN executed' : executed'[i] = [number |-> u, checksum |-> history'[u]]
        BY <2>0, <3>3, <4>1, <4>2 DEF MigrationsOrdered
      <4> QED
        BY <4>3, <4>4 DEF MigrationsOrdered
    <3> QED
      BY <3>6, <3>7, <3>9, <3>10, <3>11 DEF MigrationInv
  <2>6. ASSUME NEW r \in Runners, NEW v \in NonTransactional, NextToApply(r, v), Execute(r, v),
               runner' = [runner EXCEPT ![r].at = v, ![r].pc = "record"], UNCHANGED <<files, history>>
        PROVE  MigrationInv'
    <3>1. /\ v \in DOMAIN files[r] \ DOMAIN history /\ v > runner[r].at
          /\ v \in Nat /\ v <= BaselineMax /\ 1 .. BaselineMax \subseteq DOMAIN files[r]
          /\ \A u \in DOMAIN history : u < v
          /\ \A w \in DOMAIN files[r] : w < v => w \in DOMAIN history
      BY <2>0, <2>6, NextFile, MigrationAssumption DEF MigrationTypes
    <3>2. ASSUME NEW i \in DOMAIN executed
          PROVE  /\ executed[i].number \in Nat
                 /\ \/ executed[i].number < v /\ executed[i].number \in DOMAIN history
                    \/ executed[i].number = v
      <4>1. executed[i] \in Execution
        BY <2>0 DEF MigrationTypes
      <4>2. executed[i].number \in Nat
        BY <4>1, MigrationAssumption DEF Execution
      <4> QED
        BY <2>6, <4>2, NextFile
    <3>4. /\ executed' \in Seq(Execution)
          /\ DOMAIN executed' = DOMAIN executed \cup {Len(executed) + 1}
          /\ executed'[Len(executed) + 1] = [number |-> v, checksum |-> files[r][v]]
          /\ \A i \in DOMAIN executed : executed'[i] = executed[i] /\ i < Len(executed) + 1
      BY <2>6, Executing
    <3>5. /\ runner' \in [Runners -> RunnerState] /\ Holder(r)
          /\ runner'[r].pc = "record" /\ runner[r].pc = "apply"
          /\ runner'[r].recorded = runner[r].recorded /\ runner'[r].at = v
          /\ \A q \in Runners \ {r} : runner'[q] = runner[q]
      BY <2>0, <2>6, <3>1 DEF MigrationTypes, RunnerState, NextToApply, Holder
    <3>6. MigrationTypes'
      BY <2>0, <2>6, <3>4, <3>5 DEF MigrationTypes
    <3>7. OneHolder'
      BY <2>0, <3>5 DEF OneHolder, Holder
    <3>8. Reached(r)'
      <4>1. Reached(r) /\ runner[r].at \in Nat /\ DOMAIN history \subseteq Nat /\ DOMAIN files[r] \subseteq Nat
        BY <2>0, <3>5, FileTypes DEF AllReached, MigrationTypes, RunnerState
      <4>2. Executed(v, files[r][v])'
        BY <2>6, <3>4 DEF Executed
      <4> QED
        BY <2>6, <3>1, <3>5, <4>1, <4>2 DEF Reached
    <3>9. AllReached'
      BY <2>0, <3>5, <3>8 DEF AllReached, Holder, OneHolder
    <3>10. LastUnrecorded'
      <4>1. \A i \in DOMAIN executed' : executed'[i].number <= v /\ executed'[i].number \in Nat
        BY <3>1, <3>2, <3>4
      <4>2. ASSUME NEW i \in DOMAIN executed', executed'[i].number \notin DOMAIN history
            PROVE  executed'[i].number = v
        BY <3>2, <3>4, <4>2
      <4>3. \A w \in 1 .. v - 1 : w \in DOMAIN history
        BY <3>1, MigrationAssumption
      <4> QED
        BY <2>6, <4>1, <4>2, <4>3 DEF LastUnrecorded, Unrecorded
    <3>11. MigrationsOrdered'
      <4> DEFINE x == [number |-> v, checksum |-> files[r][v]]
                 last == Len(executed) + 1
      <4>1. /\ DOMAIN executed' = DOMAIN executed \cup {last} /\ executed'[last] = x
            /\ \A i \in DOMAIN executed : executed'[i] = executed[i] /\ i < last
            /\ x.number = v /\ last \in Nat /\ DOMAIN executed \subseteq Nat
        BY <2>0, <3>4 DEF MigrationTypes
      <4> HIDE DEF x, last
      <4>2. \A i, j \in DOMAIN executed' : i < j =>
              \/ executed'[i].number < executed'[j].number
              \/ executed'[i].number = executed'[j].number /\ executed'[i].number \in NonTransactional
        BY <2>0, <2>6, <3>2, <4>1 DEF MigrationsOrdered
      <4>3. \A u \in DOMAIN history :
              \E i \in DOMAIN executed' : executed'[i] = [number |-> u, checksum |-> history[u]]
        BY <2>0, <4>1 DEF MigrationsOrdered
      <4> QED
        BY <2>6, <4>2, <4>3 DEF MigrationsOrdered
    <3> QED
      BY <3>6, <3>7, <3>9, <3>10, <3>11 DEF MigrationInv
  <2>7. ASSUME NEW r \in Runners, record(r) PROVE MigrationInv'
    <3> DEFINE v == runner[r].at
    <3>1. /\ runner[r].pc = "record" /\ Reached(r) /\ Holder(r)
          /\ history' = Recorded(r, v) /\ runner' = [runner EXCEPT ![r].pc = "apply"]
          /\ UNCHANGED <<files, executed>>
      BY <2>0, <2>7 DEF record, AllReached, Holder
    <3>2. v \in DOMAIN files[r] \ DOMAIN history /\ Executed(v, files[r][v]) /\ v \in Nat
      BY <2>0, <3>1 DEF Reached, MigrationTypes, RunnerState
    <3>3. /\ history' \in Files /\ DOMAIN history' = DOMAIN history \cup {v}
          /\ history'[v] = files[r][v] /\ \A u \in DOMAIN history : history'[u] = history[u]
      BY <2>0, <3>1, <3>2, Recording
    <3>4. /\ runner' \in [Runners -> RunnerState] /\ runner'[r].pc = "apply"
          /\ runner'[r].recorded = runner[r].recorded /\ runner'[r].at = v
          /\ \A q \in Runners \ {r} : runner'[q] = runner[q]
      BY <2>0, <3>1 DEF MigrationTypes, RunnerState
    <3> HIDE DEF v
    <3>5. MigrationTypes'
      BY <2>0, <3>1, <3>3, <3>4 DEF MigrationTypes
    <3>6. OneHolder'
      BY <2>0, <3>1, <3>4 DEF OneHolder, Holder
    <3>7. Reached(r)'
      <4>1. DOMAIN history \subseteq Nat /\ DOMAIN files[r] \subseteq Nat
        BY <2>0, FileTypes DEF MigrationTypes
      <4> QED
        BY <3>1, <3>2, <3>3, <3>4, <4>1 DEF Reached, v
    <3>8. AllReached'
      BY <2>0, <3>1, <3>4, <3>7 DEF AllReached, Holder, OneHolder
    <3>9. LastUnrecorded'
      BY <2>0, <3>1, <3>3 DEF LastUnrecorded, Unrecorded
    <3>10. MigrationsOrdered'
      BY <2>0, <3>1, <3>2, <3>3 DEF MigrationsOrdered, Executed
    <3> QED
      BY <3>5, <3>6, <3>8, <3>9, <3>10 DEF MigrationInv
  <2>8. CASE UNCHANGED migrationVars
    BY <2>0, <2>8 DEF migrationVars, MigrationInv, MigrationTypes, OneHolder, Holder, AllReached, Reached,
       Executed, LastUnrecorded, Unrecorded, MigrationsOrdered
  <2> QED
    BY <2>1, <2>3, <2>4, <2>5, <2>6, <2>7, <2>8
    DEF MigrationNext, runMigrations, applyInTransaction, applyAlone
<1>3. MigrationInv => MigrationsOrdered
  BY DEF MigrationInv
<1> QED
  BY <1>1, <1>2, <1>3, PTL DEF MigrationSpec
-----------------------------------------------------------------------------
(* Accounts.  A redemption under way holds its live invitation alone, so a code   *)
(* is consumed once, with the account it admits.                                    *)
CodeStates(ids) == [Invitations -> [ state : {"none", "live", "consumed", "revoked", "expired"},
                                admitted : SUBSET ids ]]
Redeems(v) == visitor[v].at = "redeem"
AccessInv ==
    /\ \E ids : invitation \in CodeStates(ids)
    /\ visitor = [v \in Visitors |-> visitor[v]]
    /\ \A v \in Visitors : Redeems(v) => visitor[v].gate \in Invitations /\ Consumable(visitor[v].gate)
    /\ \A v, w \in Visitors : v # w /\ Redeems(v) /\ Redeems(w) => visitor[v].gate # visitor[w].gate
    /\ InvitationsHonoured

\* One request moves.
LEMMA VisitMoves ==
    ASSUME AccessInv, NEW v \in Visitors, NEW to, visitor' = [visitor EXCEPT ![v] = to]
    PROVE  /\ visitor'[v] = to /\ \A w \in Visitors \ {v} : visitor'[w] = visitor[w]
           /\ visitor' = [w \in Visitors |-> visitor'[w]]
<1> QED
  BY DEF AccessInv

\* A step that touches no invitation and lets no request redeem one.
LEMMA NoRedemption ==
    ASSUME AccessInv, UNCHANGED invitation, visitor' = [w \in Visitors |-> visitor'[w]],
           \A w \in Visitors : Redeems(w)' => visitor'[w] = visitor[w]
    PROVE  AccessInv'
<1> QED
  BY DEF AccessInv, Redeems, Consumable, InvitationsHonoured

\* A request that goes on without redeeming, and touches no invitation.
LEMMA VisitStep ==
    ASSUME AccessInv, NEW v \in Visitors, NEW to, visitor' = [visitor EXCEPT ![v] = to],
           to.at # "redeem", UNCHANGED invitation
    PROVE  AccessInv'
<1> QED
  BY VisitMoves, NoRedemption DEF Redeems

\* A live invitation that nobody else holds is consumed by the account it admits.
LEMMA ConsumedOnce ==
    ASSUME AccessInv, NEW i \in Invitations, NEW a, Consumable(i), invitation' = Consumed(i, a),
           visitor' = [w \in Visitors |-> visitor'[w]],
           \A w \in Visitors : Redeems(w)' => visitor'[w] = visitor[w] /\ visitor[w].gate # i
    PROVE  AccessInv'
<1>1. PICK ids : invitation \in CodeStates(ids)
  BY DEF AccessInv
<1>2. invitation[i].admitted = {}
  BY DEF AccessInv, InvitationsHonoured, Consumable
<1>3. /\ invitation' \in CodeStates(ids \cup {a})
      /\ invitation'[i].state = "consumed" /\ invitation'[i].admitted = {a}
      /\ \A j \in Invitations \ {i} : invitation'[j] = invitation[j]
  <2> DEFINE admitted == invitation[i].admitted \cup {a}
  <2>1. invitation' = [invitation EXCEPT ![i].state = "consumed", ![i].admitted = admitted]
    BY <1>1 DEF Consumed, CodeStates
  <2>2. admitted = {a} /\ admitted \in SUBSET (ids \cup {a}) /\ invitation \in CodeStates(ids \cup {a})
    BY <1>1, <1>2 DEF CodeStates
  <2> DEFINE all == ids \cup {a}
  <2>3. admitted \in SUBSET all /\ invitation \in CodeStates(all)
    BY <2>2
  <2> HIDE DEF admitted, all
  <2>4. invitation' \in CodeStates(all)
    BY <2>1, <2>3 DEF CodeStates
  <2>5. /\ invitation'[i].state = "consumed" /\ invitation'[i].admitted = admitted
        /\ \A j \in Invitations \ {i} : invitation'[j] = invitation[j]
    BY <2>1, <2>3 DEF CodeStates
  <2> QED
    BY <2>2, <2>4, <2>5 DEF all
<1>4. ASSUME NEW j \in Invitations
      PROVE  /\ \A b, c \in invitation'[j].admitted : b = c
             /\ invitation'[j].admitted # {} <=> invitation'[j].state = "consumed"
  <2>1. CASE j = i
    BY <1>3, <2>1
  <2>2. CASE j # i
    BY <1>3, <2>2 DEF AccessInv, InvitationsHonoured
  <2> QED
    BY <2>1, <2>2
<1>5. InvitationsHonoured'
  BY <1>4 DEF InvitationsHonoured
<1> QED
  BY <1>3, <1>5 DEF AccessInv, Redeems, Consumable

\* A redemption goes on only with a live invitation that nobody else holds.
LEMMA RedeemStep ==
    ASSUME AccessInv, NEW v \in Visitors, NEW p \in People, NEW i \in Invitations,
           completeOAuthInvitation(v, p, i)
    PROVE  AccessInv'
<1>1. CASE UNCHANGED visitor
  BY <1>1, NoRedemption DEF completeOAuthInvitation, AccessInv
<1>2. CASE ~ UNCHANGED visitor
  <2>1. PICK s : visitor' = [visitor EXCEPT ![v] = [at |-> "redeem", person |-> p, gate |-> i, session |-> s]]
    BY <1>2 DEF completeOAuthInvitation, Visit
  <2>2. Consumable(i) /\ ~ Held(i) /\ UNCHANGED invitation
    BY <1>2 DEF completeOAuthInvitation
  <2>3. /\ visitor'[v].gate = i /\ \A w \in Visitors \ {v} : visitor'[w] = visitor[w]
        /\ visitor' = [w \in Visitors |-> visitor'[w]]
    BY <2>1, VisitMoves
  <2> QED
    BY <2>2, <2>3 DEF AccessInv, Redeems, Held, Consumable, InvitationsHonoured
<1> QED
  BY <1>1, <1>2

\* The account and the consumed invitation commit together.
LEMMA CommitStep ==
    ASSUME AccessInv, NEW v \in Visitors, RedeemCommits(v)
    PROVE  AccessInv'
<1>1. Redeems(v) /\ visitor' = [visitor EXCEPT ![v] = NoVisit]
  BY DEF RedeemCommits, Visit, Redeems
<1>2. PICK a : invitation' = Consumed(visitor[v].gate, a)
  BY DEF RedeemCommits
<1>3. visitor[v].gate \in Invitations /\ Consumable(visitor[v].gate)
  BY <1>1 DEF AccessInv
<1>4. /\ visitor' = [w \in Visitors |-> visitor'[w]] /\ ~ Redeems(v)'
      /\ \A w \in Visitors \ {v} : visitor'[w] = visitor[w]
  BY <1>1, VisitMoves DEF NoVisit, Redeems
<1>5. \A w \in Visitors : Redeems(w)' => visitor'[w] = visitor[w] /\ visitor[w].gate # visitor[v].gate
  BY <1>1, <1>4 DEF AccessInv, Redeems
<1> QED
  BY <1>2, <1>3, <1>4, <1>5, ConsumedOnce

\* A code by mail consumes an invitation that no redemption holds.
LEMMA VerifyStep ==
    ASSUME AccessInv, NEW p \in People, verifyOtp(p)
    PROVE  AccessInv'
<1>0. UNCHANGED visitor /\ visitor = [w \in Visitors |-> visitor[w]]
  BY DEF verifyOtp, AccessInv
<1>1. CASE UNCHANGED invitation
  BY <1>0, <1>1, NoRedemption
<1>2. CASE ~ UNCHANGED invitation
  <2>1. PICK gate, a : ~ Held(gate) /\ Consumable(gate) /\ invitation' = Consumed(gate, a)
    BY <1>2 DEF verifyOtp
  <2>2. gate \in Invitations
    BY <1>2, <2>1 DEF Consumed, AccessInv, CodeStates
  <2>3. \A w \in Visitors : Redeems(w)' => visitor'[w] = visitor[w] /\ visitor[w].gate # gate
    BY <1>0, <2>1 DEF Redeems, Held
  <2> QED
    BY <1>0, <2>1, <2>2, <2>3, ConsumedOnce
<1> QED
  BY <1>1, <1>2

\* An administrator or the clock moves an invitation that no redemption holds.
LEMMA MoveStep ==
    ASSUME AccessInv, NEW i \in Invitations, NEW from \in {"none", "live"},
           NEW to \in {"live", "revoked", "expired"}, InvitationMoves(i, from, to)
    PROVE  AccessInv'
<1>1. PICK ids : invitation \in CodeStates(ids)
  BY DEF AccessInv
<1>2. /\ invitation' \in CodeStates(ids) /\ invitation'[i].state = to
      /\ invitation'[i].admitted = invitation[i].admitted
      /\ \A j \in Invitations \ {i} : invitation'[j] = invitation[j]
      /\ ~ Held(i) /\ invitation[i].state = from /\ UNCHANGED visitor
  BY <1>1 DEF InvitationMoves, CodeStates
<1>3. InvitationsHonoured'
  BY <1>2 DEF AccessInv, InvitationsHonoured
<1>4. \A w \in Visitors : Redeems(w)' => Redeems(w) /\ visitor[w].gate # i
  BY <1>2 DEF Redeems, Held
<1> QED
  BY <1>2, <1>3, <1>4 DEF AccessInv, Redeems, Consumable

\* An invitation admits at most one account, and none once it is revoked or expired,
\* whichever of the two ways in redeems it and however requests overlap.
THEOREM InvitationsStayHonoured == AccessSpec => []InvitationsHonoured
<1>1. AccessInit => AccessInv
  <2> SUFFICES ASSUME AccessInit PROVE AccessInv
    OBVIOUS
  <2>1. invitation \in CodeStates({}) /\ InvitationsHonoured
    BY DEF AccessInit, CodeStates, InvitationsHonoured
  <2>2. visitor = [v \in Visitors |-> NoVisit] /\ \A v \in Visitors : ~ Redeems(v)
    BY DEF AccessInit, Redeems, NoVisit
  <2> QED
    BY <2>1, <2>2 DEF AccessInv
<1>2. AccessInv /\ [AccessNext]_accessVars => AccessInv'
  <2> SUFFICES ASSUME AccessInv, [AccessNext]_accessVars PROVE AccessInv'
    OBVIOUS
  <2>0. visitor = [w \in Visitors |-> visitor[w]]
    BY DEF AccessInv
  <2>1. ASSUME NEW v \in Visitors, NEW p \in People, requestOtp(v, p) PROVE AccessInv'
    <3>1. PICK g \in Gates : visitor' = [visitor EXCEPT ![v] = [at |-> "otp", person |-> p, gate |-> g]]
      BY <2>1 DEF requestOtp, Visit
    <3> DEFINE to == [at |-> "otp", person |-> p, gate |-> g]
    <3>2. to.at # "redeem" /\ visitor' = [visitor EXCEPT ![v] = to] /\ UNCHANGED invitation
      BY <2>1, <3>1 DEF requestOtp
    <3> HIDE DEF to
    <3> QED
      BY <3>2, VisitStep
  <2>2. ASSUME NEW v \in Visitors, NEW p \in People, loginWithIdentity(v, p) PROVE AccessInv'
    <3>1. \/ \E to : to.at # "redeem" /\ visitor' = [visitor EXCEPT ![v] = to]
          \/ UNCHANGED visitor
      <4>1. \/ \E s : visitor' = [visitor EXCEPT ![v] = [at |-> "issue", session |-> s]]
            \/ visitor' = [visitor EXCEPT ![v] = [at |-> "signup", person |-> p]]
            \/ UNCHANGED visitor
        BY <2>2 DEF loginWithIdentity, Visit
      <4>2. /\ \A s : [at |-> "issue", session |-> s].at # "redeem"
            /\ [at |-> "signup", person |-> p].at # "redeem"
        OBVIOUS
      <4> QED
        BY <4>1, <4>2
    <3>2. UNCHANGED invitation
      BY <2>2 DEF loginWithIdentity
    <3>3. CASE UNCHANGED visitor
      BY <2>0, <3>2, <3>3, NoRedemption
    <3> QED
      BY <3>1, <3>2, <3>3, VisitStep
  <2>3. ASSUME NEW v \in Visitors, SupersedeCodes(v) \/ InsertCode(v) PROVE AccessInv'
    <3>1. PICK to : visitor' = [visitor EXCEPT ![v] = to] /\ to.at # "redeem"
      <4>1. \/ visitor[v].at = "otp" /\ visitor' = [visitor EXCEPT ![v] = [visitor[v] EXCEPT !.at = "send"]]
            \/ visitor[v].at = "send" /\ visitor' = [visitor EXCEPT ![v] = [visitor[v] EXCEPT !.at = "mail"]]
        BY <2>3 DEF SupersedeCodes, InsertCode, Visit
      <4>2. visitor[v].at \in {"otp", "send"} =>
               /\ [visitor[v] EXCEPT !.at = "send"].at # "redeem"
               /\ [visitor[v] EXCEPT !.at = "mail"].at # "redeem"
        OBVIOUS
      <4> QED
        BY <4>1, <4>2
    <3> QED
      BY <2>3, <3>1, VisitStep DEF SupersedeCodes, InsertCode
  <2>4. ASSUME NEW v \in Visitors, CodeDelivered(v) \/ issueSession(v) \/ RedeemRollsBack(v) PROVE AccessInv'
    <3>1. visitor' = [visitor EXCEPT ![v] = NoVisit] /\ UNCHANGED invitation
      BY <2>4 DEF CodeDelivered, issueSession, RedeemRollsBack, Visit
    <3>2. NoVisit.at # "redeem"
      BY DEF NoVisit
    <3> QED
      BY <3>1, <3>2, VisitStep
  <2>5. ASSUME NEW v \in Visitors, SignUp(v) PROVE AccessInv'
    <3>1. \E to : to.at # "redeem" /\ visitor' = [visitor EXCEPT ![v] = to]
      <4>1. \/ visitor' =
                 [visitor EXCEPT ![v] = [at |-> "issue", session |-> [account |-> NextId, blocks |-> 0]]]
            \/ visitor' = [visitor EXCEPT ![v] = NoVisit]
        BY <2>5 DEF SignUp, Visit
      <4>2. /\ \A s : [at |-> "issue", session |-> s].at # "redeem"
            /\ NoVisit.at # "redeem"
        BY DEF NoVisit
      <4> QED
        BY <4>1, <4>2
    <3>2. UNCHANGED invitation
      BY <2>5 DEF SignUp
    <3> QED
      BY <3>1, <3>2, VisitStep
  <2>6. ASSUME UNCHANGED <<invitation, visitor>> PROVE AccessInv'
    BY <2>0, <2>6, NoRedemption
  <2>7. ASSUME NEW p \in People, NEW n \in 1 .. MaxOtpCodes, LoseCode(p, n) PROVE AccessInv'
    BY <2>6, <2>7 DEF LoseCode
  <2>8. ASSUME NEW s \in sessions, logout(s) \/ linkIdentity(s) \/ unlinkIdentity(s) PROVE AccessInv'
    BY <2>6, <2>8 DEF logout, linkIdentity, unlinkIdentity
  <2>9. CASE setRegistrationMode
    BY <2>6, <2>9 DEF setRegistrationMode
  <2>10. ASSUME NEW a \in Existing, setUserStatus(a) \/ deleteUser(a) PROVE AccessInv'
    BY <2>6, <2>10 DEF setUserStatus, deleteUser
  <2>11. CASE UNCHANGED accessVars
    BY <2>6, <2>11 DEF accessVars
  <2> QED
    BY <2>1, <2>2, <2>3, <2>4, <2>5, <2>7, <2>8, <2>9, <2>10, <2>11, RedeemStep, CommitStep, VerifyStep,
       MoveStep DEF AccessNext
<1>3. AccessInv => InvitationsHonoured
  BY DEF AccessInv
<1> QED
  BY <1>1, <1>2, <1>3, PTL DEF AccessSpec
-----------------------------------------------------------------------------
(* Calls to the provider.  Of the submissions of a run's attempts at most one may still   *)
(* be accepted or has been; none, while the next one is to be made.                          *)
Possible == remoteTask.sent + remoteTask.accepted
Sending == call.want = "submit" /\ ~ call.minting
Exchange == [ at : {"idle", "fetching", "headers", "reading", "settled"},
              body : {"none", "open", "gone"}, timer : BOOLEAN, abort : Aborts \cup {"none"},
              ending : Endings \cup {"none"}, status : Answers \cup {"none"}, hops : Nat ]
RunStates == {"submitting", "retry", "submission_unknown", "waiting", "failed", "succeeded", "canceled"}
Stored == [state : RunStates, code : Codes \cup {"none"}, tries : Nat, remote : BOOLEAN]
RemoteTask == [sent : Nat, accepted : Nat, state : {"none", "running", "ended"}]
CallTypes ==
    /\ call \in [want : Calls \cup {"none"}, minting : BOOLEAN]
    /\ http \in Exchange /\ submission \in Stored /\ remoteTask \in RemoteTask
Guarded ==
    /\ BodiesBounded
    /\ http.abort = "none" /\ http.at = "fetching" => http.timer
    /\ http.body = "open" => http.at \in {"headers", "reading"}
    /\ http.at = "fetching" => http.status = "none"
RunSound ==
    /\ submission.state = "waiting" => adapter \in AsyncAdapters
    /\ submission.remote => submission.state \in {"waiting", "failed", "succeeded", "canceled"}
    /\ submission.remote /\ submission.state = "failed" => submission.code \notin RetryableCodes
Timely ==
    /\ call.want = "submit" => submission.state = "submitting"
    /\ call.want \in {"poll", "cancel"} => submission.state = "waiting"
    /\ submission.state = "retry" => call.want = "none"
    /\ call.want = "none" => ~ call.minting
Ordered ==
    /\ Possible <= 1
    /\ submission.state = "submitting" /\ ~ Sending => Possible = 0
    /\ submission.state = "retry" => Possible = 0
    /\ Sending /\ http.status = "429" => Possible = 0
CallInv == CallTypes /\ Guarded /\ RunSound /\ Timely /\ Ordered

\* A step of the request alone, which gets no answer.
LEMMA RequestStep ==
    ASSUME CallInv, UNCHANGED <<adapter, call, submission, remoteTask>>, http' \in Exchange, Guarded',
           http'.status = http.status
    PROVE  CallInv'
<1>1. CallTypes'
  BY DEF CallInv, CallTypes
<1>2. RunSound' /\ Timely' /\ Ordered'
  BY DEF CallInv, RunSound, Timely, Ordered, Sending, Possible
<1> QED
  BY <1>1, <1>2 DEF CallInv

\* A request that settles lets go of its body and its timer.
LEMMA SettledRequest ==
    ASSUME CallTypes, NEW ending \in Endings, http' = Settled(ending)
    PROVE  http' \in Exchange /\ http'.status = http.status /\ Guarded'
<1>1. http \in Exchange
  BY DEF CallTypes
<1> DEFINE how == IF http.abort = "none" THEN ending ELSE http.abort
           left == IF http.body = "open" THEN "gone" ELSE http.body
<1>2. /\ how \in Endings \cup {"none"} /\ left \in {"none", "gone"}
      /\ http' = [http EXCEPT !.at = "settled", !.timer = FALSE, !.body = left, !.ending = how]
  BY <1>1 DEF Settled, Exchange, Endings
<1> HIDE DEF how, left
<1>3. /\ http' \in Exchange /\ http'.status = http.status /\ http'.at = "settled"
      /\ http'.body = left
  BY <1>1, <1>2 DEF Exchange
<1> QED
  BY <1>2, <1>3 DEF Guarded, BodiesBounded

\* How the worker stores the end of a plugin call.
LEMMA CallEnds ==
    ASSUME CallInv, NEW state \in RunStates \ {"submitting"}, NEW code \in Codes \cup {"none"},
           NEW remote \in BOOLEAN, Ends(state, code, remote),
           state = "retry" => Possible = 0,
           state = "waiting" => adapter \in AsyncAdapters,
           remote => state \in {"waiting", "failed", "succeeded", "canceled"},
           remote /\ state = "failed" => code \notin RetryableCodes
    PROVE  CallInv'
<1>1. /\ submission' = [submission EXCEPT !.state = state, !.code = code, !.remote = remote]
      /\ call' = NoPluginCall /\ UNCHANGED <<adapter, http, remoteTask>>
  BY DEF Ends
<1>2. submission \in Stored
  BY DEF CallInv, CallTypes
<1>3. /\ submission' \in Stored /\ submission'.state = state /\ submission'.code = code
      /\ submission'.remote = remote
  <2> HIDE DEF CallInv
  <2> QED
    BY <1>1, <1>2 DEF Stored
<1>4. call'.want = "none" /\ ~ call'.minting /\ call' \in [want : Calls \cup {"none"}, minting : BOOLEAN]
  BY <1>1 DEF NoPluginCall
<1>5. CallTypes' /\ Guarded'
  BY <1>1, <1>3, <1>4 DEF CallInv, CallTypes, Guarded, BodiesBounded
<1>6. RunSound' /\ Timely'
  BY <1>1, <1>3, <1>4 DEF RunSound, Timely, RetryableCodes
<1>7. Ordered'
  BY <1>1, <1>3, <1>4 DEF CallInv, Ordered, Sending, Possible
<1> QED
  BY <1>5, <1>6, <1>7 DEF CallInv

\* A failure of the run; what failed a run whose task is known is final.
LEMMA CallFails ==
    ASSUME CallInv, NEW code \in Codes, Fails(code), submission.remote => code \notin RetryableCodes
    PROVE  CallInv'
<1>1. submission.remote \in BOOLEAN /\ Ends("failed", code, submission.remote)
  BY DEF CallInv, CallTypes, Stored, Fails
<1> QED
  BY <1>1, CallEnds DEF RunStates

\* The run's code and its task are left as they were.
LEMMA CallKeeps ==
    ASSUME CallInv, NEW state \in {"retry", "waiting", "succeeded", "canceled"}, Keeps(state),
           state = "retry" => Possible = 0 /\ ~ submission.remote,
           state = "waiting" => adapter \in AsyncAdapters
    PROVE  CallInv'
<1>1. /\ submission.remote \in BOOLEAN /\ submission.code \in Codes \cup {"none"}
      /\ Ends(state, submission.code, submission.remote)
  BY DEF CallInv, CallTypes, Stored, Keeps
<1>2. state \in RunStates \ {"submitting"} /\ state # "failed"
  BY DEF RunStates
<1> QED
  BY <1>1, <1>2, CallEnds

\* A synchronous submission fails: it is retried after an answer that says it was refused.
LEMMA SubmissionFails ==
    ASSUME CallInv, call.want = "submit", NEW code \in Codes, NEW status, SyncFails(code, status),
           status = "429" => Possible = 0
    PROVE  CallInv'
<1>1. ~ submission.remote
  BY DEF CallInv, RunSound, Timely
<1>2. CASE SyncRetryable(code, status) /\ AttemptsLeft
  BY <1>1, <1>2, CallKeeps DEF SyncFails, SyncRetryable
<1>3. CASE ~ (SyncRetryable(code, status) /\ AttemptsLeft)
  BY <1>1, <1>3, CallFails DEF SyncFails
<1> QED
  BY <1>2, <1>3

\* What the worker makes of an error the plugin throws.
LEMMA CallThrows ==
    ASSUME CallInv, NEW code \in Codes, Throws(code, "none")
    PROVE  CallInv'
<1>1. CASE call.want = "submit" /\ adapter \in SyncAdapters /\ SyncFails(code, "none")
  BY <1>1, SubmissionFails
<1>2. CASE call.want = "submit" /\ code \in RetryableCodes /\ Ends("submission_unknown", code, FALSE)
  BY <1>2, CallEnds DEF RunStates
<1>3. CASE call.want = "submit" /\ code \notin RetryableCodes /\ Fails(code)
  BY <1>3, CallFails
<1>4. CASE call.want = "poll" /\ code \in RetryableCodes /\ Keeps("waiting")
  BY <1>4, CallKeeps DEF CallInv, Timely, RunSound
<1>5. CASE call.want = "poll" /\ code \notin RetryableCodes /\ Fails(code)
  BY <1>5, CallFails
<1>6. CASE Keeps("canceled")
  BY <1>6, CallKeeps
<1> QED
  BY <1>1, <1>2, <1>3, <1>4, <1>5, <1>6 DEF Throws

\* A call sends its request; the next submission only when none before it can be accepted.
LEMMA CallSends ==
    ASSUME CallInv, NEW want \in Calls, NEW minting \in BOOLEAN, Sends(want, minting),
           UNCHANGED <<adapter, submission>>,
           want = "submit" => submission.state = "submitting" /\ Possible = 0,
           want \in {"poll", "cancel"} => submission.state = "waiting"
    PROVE  CallInv'
<1>1. /\ call' = [want |-> want, minting |-> minting]
      /\ http' = [NoHttp EXCEPT !.at = "fetching", !.timer = TRUE]
      /\ remoteTask' = IF want = "submit" /\ ~ minting
                         THEN [remoteTask EXCEPT !.sent = @ + 1] ELSE remoteTask
  BY DEF Sends
<1>2. /\ http' \in Exchange /\ http'.at = "fetching" /\ http'.timer /\ http'.body = "none"
      /\ http'.status = "none"
  BY <1>1 DEF NoHttp, Exchange
<1>3. /\ call' \in [want : Calls \cup {"none"}, minting : BOOLEAN]
      /\ call'.want = want /\ call'.minting = minting
  BY <1>1
<1>4. remoteTask \in RemoteTask
  BY DEF CallInv, CallTypes
<1>5. remoteTask' \in RemoteTask /\ Possible' = IF want = "submit" /\ ~ minting THEN Possible + 1 ELSE Possible
  BY <1>1, <1>4 DEF RemoteTask, Possible
<1>6. CallTypes' /\ Guarded' /\ RunSound'
  BY <1>2, <1>3, <1>5 DEF CallInv, CallTypes, Guarded, BodiesBounded, RunSound
<1>7. Timely'
  BY <1>3 DEF Timely, Calls
<1>8. Possible \in Nat
  BY <1>4 DEF RemoteTask, Possible
<1>9. Ordered'
  BY <1>2, <1>3, <1>5, <1>8 DEF CallInv, Ordered, Sending, Calls
<1> QED
  BY <1>6, <1>7, <1>9 DEF CallInv

\* The codes an error of the request, or an answer, is stored with.
LEMMA CallCodes ==
    /\ ThrownCode \in Codes /\ fromHttp \in Codes /\ RetryableCodes \subseteq Codes
    /\ "PROVIDER_EMPTY_RESULT" \in Codes \ RetryableCodes
    /\ "PROVIDER_REJECTED" \in Codes \ RetryableCodes
    /\ "UNSAFE_URL" \in Codes \ RetryableCodes
    /\ "INVALID_CREDENTIAL" \in Codes \ RetryableCodes
    /\ "PROVIDER_TEMPORARY_ERROR" \in Codes
<1> QED
  BY DEF ThrownCode, fromHttp, Codes, RetryableCodes

\* What every step of the calls preserves.
LEMMA CallInvariant == CallSpec => []CallInv
<1>1. CallInit => CallInv
  <2> SUFFICES ASSUME CallInit PROVE CallInv
    OBVIOUS
  <2>1. CallTypes /\ Guarded
    BY CallAssumption DEF CallInit, CallTypes, Guarded, BodiesBounded, NoHttp, NoPluginCall, Exchange, Stored,
       RunStates, RemoteTask
  <2>2. RunSound /\ Timely /\ Ordered
    BY DEF CallInit, RunSound, Timely, Ordered, Sending, Possible, NoHttp, NoPluginCall
  <2> QED
    BY <2>1, <2>2 DEF CallInv
<1>2. CallInv /\ [CallNext]_callVars => CallInv'
  <2> SUFFICES ASSUME CallInv, [CallNext]_callVars PROVE CallInv'
    OBVIOUS
  <2>0. CallTypes /\ Guarded /\ RunSound /\ Timely /\ Ordered
    BY DEF CallInv
  <2>1. CASE TimerFires
    <3> DEFINE left == IF http.body = "open" THEN "gone" ELSE http.body
    <3>1. /\ http' = [http EXCEPT !.timer = FALSE, !.abort = "timeout", !.body = left]
          /\ left \in {"none", "gone"} /\ UNCHANGED <<adapter, call, submission, remoteTask>>
      BY <2>0, <2>1 DEF TimerFires, CallTypes, Exchange
    <3> HIDE DEF left
    <3>2. /\ http' \in Exchange /\ http'.status = http.status /\ http'.at = http.at
          /\ http'.body = left /\ http'.abort = "timeout"
      BY <2>0, <3>1 DEF CallTypes, Exchange, Aborts
    <3>3. Guarded'
      BY <2>0, <3>1, <3>2 DEF Guarded, BodiesBounded
    <3> QED
      BY <3>1, <3>2, <3>3, RequestStep
  <2>2. CASE FetchSettles
    <3>0. http.at = "fetching" /\ UNCHANGED <<adapter, call, submission>>
      BY <2>2 DEF FetchSettles
    <3>1. CASE http' = [http EXCEPT !.hops = @ + 1] /\ UNCHANGED remoteTask
      <4>1. /\ http' \in Exchange /\ http'.status = http.status /\ http'.at = http.at
            /\ http'.body = http.body /\ http'.abort = http.abort /\ http'.timer = http.timer
        BY <2>0, <3>1 DEF CallTypes, Exchange
      <4>2. Guarded'
        BY <2>0, <4>1 DEF Guarded, BodiesBounded
      <4> QED
        BY <3>0, <3>1, <4>1, <4>2, RequestStep
    <3>2. ASSUME NEW ending \in {"transport", "timeout", "unsafe"}, http' = Settled(ending),
                 UNCHANGED remoteTask
          PROVE  CallInv'
      <4>1. ending \in Endings
        BY DEF Endings, Aborts
      <4> QED
        BY <2>0, <3>0, <3>2, <4>1, SettledRequest, RequestStep
    <3>3. ASSUME NEW status \in Answers, AnswerFits(status), http' = Returns(status), http.abort = "none",
                 remoteTask' = IF call.want = "submit" /\ ~ call.minting /\ status \in {"404", "4xx", "429"}
                                 THEN [remoteTask EXCEPT !.sent = @ - 1] ELSE remoteTask
          PROVE  CallInv'
      <4>1. http' = [http EXCEPT !.at = "headers", !.body = "open", !.status = status] /\ http.timer
        BY <2>0, <3>0, <3>3 DEF Returns, Guarded
      <4>2. /\ http' \in Exchange /\ http'.at = "headers" /\ http'.timer /\ http'.status = status
        BY <2>0, <4>1 DEF CallTypes, Exchange
      <4>3. Guarded'
        BY <4>2 DEF Guarded, BodiesBounded
      <4>4. remoteTask \in RemoteTask
        BY <2>0 DEF CallTypes
      <4>5. CASE Sending /\ status \in {"404", "4xx", "429"}
        <5>1. remoteTask.sent > 0 /\ remoteTask' = [remoteTask EXCEPT !.sent = @ - 1]
          BY <3>3, <4>5 DEF AnswerFits, Sending
        <5>2. remoteTask' \in RemoteTask /\ Possible' = 0
          BY <2>0, <4>4, <5>1 DEF RemoteTask, Possible, Ordered
        <5>3. Ordered'
          BY <5>2 DEF Ordered
        <5>4. CallTypes' /\ RunSound' /\ Timely'
          BY <2>0, <3>0, <4>2, <5>2 DEF CallTypes, RunSound, Timely
        <5> QED
          BY <4>3, <5>3, <5>4 DEF CallInv
      <4>6. CASE ~ (Sending /\ status \in {"404", "4xx", "429"})
        <5>1. UNCHANGED remoteTask
          BY <3>3, <4>6 DEF Sending
        <5>2. CallTypes' /\ RunSound' /\ Timely'
          BY <2>0, <3>0, <4>2, <5>1 DEF CallTypes, RunSound, Timely
        <5>3. Ordered'
          BY <2>0, <3>0, <4>2, <4>6, <5>1 DEF Ordered, Possible, Sending
        <5> QED
          BY <4>3, <5>2, <5>3 DEF CallInv
      <4> QED
        BY <4>5, <4>6
    <3> QED
      BY <2>2, <3>1, <3>2, <3>3 DEF FetchSettles
  <2>3. CASE OpenReader
    <3>0. http.at = "headers" /\ UNCHANGED <<adapter, call, submission, remoteTask>>
      BY <2>3 DEF OpenReader
    <3>1. CASE http' = [http EXCEPT !.at = "reading"]
      <4>1. /\ http' \in Exchange /\ http'.status = http.status /\ http'.at = "reading"
            /\ http'.body = http.body /\ http'.timer = http.timer
        BY <2>0, <3>1 DEF CallTypes, Exchange
      <4>2. Guarded'
        BY <2>0, <4>1 DEF Guarded, BodiesBounded
      <4> QED
        BY <3>0, <4>1, <4>2, RequestStep
    <3>2. CASE http' = Settled("too_large")
      <4>1. "too_large" \in Endings
        BY DEF Endings
      <4> QED
        BY <2>0, <3>0, <3>2, <4>1, SettledRequest, RequestStep
    <3> QED
      BY <2>3, <3>1, <3>2 DEF OpenReader
  <2>4. CASE ReadSettles
    <3>1. PICK ending \in {"complete", "too_large", "broken"} : http' = Settled(ending)
      BY <2>4 DEF ReadSettles
    <3>2. ending \in Endings /\ UNCHANGED <<adapter, call, submission, remoteTask>>
      BY <2>4 DEF Endings, ReadSettles
    <3> QED
      BY <2>0, <3>1, <3>2, SettledRequest, RequestStep
  <2>5. CASE TokenSettles
    <3>0. call.minting /\ call \in [want : Calls \cup {"none"}, minting : BOOLEAN]
      BY <2>0, <2>5 DEF TokenSettles, CallTypes
    <3>1. CASE Sends(call.want, FALSE) /\ UNCHANGED <<adapter, submission>>
      <4>1. CASE call.want \in Calls
        <5>1. /\ call.want = "submit" => submission.state = "submitting" /\ Possible = 0
              /\ call.want \in {"poll", "cancel"} => submission.state = "waiting"
          BY <2>0, <3>0 DEF Timely, Ordered, Sending
        <5> QED
          BY <3>1, <4>1, <5>1, CallSends
      <4>2. call.want # "none"
        BY <2>0, <3>0 DEF Timely
      <4> QED
        BY <3>0, <4>1, <4>2
    <3>2. CASE Throws("INVALID_CREDENTIAL", "none")
      BY <3>2, CallCodes, CallThrows
    <3> QED
      BY <2>5, <3>1, <3>2 DEF TokenSettles
  <2>6. CASE submitImage
    <3>0. call.want = "submit" /\ Sending /\ ~ submission.remote
      BY <2>0, <2>6 DEF submitImage, Finished, Sending, Timely, RunSound
    <3>1. CASE Throws(ThrownCode, "none")
      BY <3>1, CallCodes, CallThrows
    <3>2. CASE Fails("PROVIDER_EMPTY_RESULT")
      BY <3>2, CallCodes, CallFails
    <3>3. CASE SyncFails(fromHttp, http.status)
      <4>1. http.status = "429" => Possible = 0
        BY <2>0, <3>0 DEF Ordered
      <4> QED
        BY <3>0, <3>3, <4>1, CallCodes, SubmissionFails
    <3>4. CASE Keeps("succeeded")
      BY <3>4, CallKeeps
    <3> QED
      BY <2>6, <3>1, <3>2, <3>3, <3>4 DEF submitImage
  <2>7. CASE submitVideo
    <3>0. call.want = "submit" /\ ~ submission.remote /\ adapter \in AsyncAdapters
      BY <2>0, <2>7 DEF submitVideo, Finished, Timely, RunSound
    <3>1. CASE Throws(ThrownCode, "none")
      BY <3>1, CallCodes, CallThrows
    <3>2. ASSUME NEW code \in Codes, Fails(code) PROVE CallInv'
      BY <3>0, <3>2, CallFails
    <3>3. ASSUME NEW code \in Codes, Ends("submission_unknown", code, FALSE) PROVE CallInv'
      BY <3>3, CallEnds DEF RunStates
    <3>4. CASE Ends("waiting", "none", TRUE)
      BY <3>0, <3>4, CallEnds DEF RunStates
    <3> QED
      BY <2>7, <3>1, <3>2, <3>3, <3>4, CallCodes DEF submitVideo
  <2>8. CASE pollVideo
    <3>0. adapter \in AsyncAdapters
      BY <2>0, <2>8 DEF pollVideo, Finished, Timely, RunSound
    <3>1. CASE Throws(ThrownCode, "none")
      BY <3>1, CallCodes, CallThrows
    <3>2. ASSUME NEW code \in Codes \ RetryableCodes, Fails(code) PROVE CallInv'
      BY <3>2, CallFails
    <3>3. ASSUME NEW state \in {"waiting", "succeeded", "canceled"}, Keeps(state) PROVE CallInv'
      BY <3>0, <3>3, CallKeeps
    <3> QED
      BY <2>8, <3>1, <3>2, <3>3, CallCodes DEF pollVideo
  <2>9. CASE cancelVideo
    BY <2>9, CallKeeps DEF cancelVideo
  <2>10. CASE Submits
    <3>1. PICK minting \in {adapter = "veo", FALSE} : Sends("submit", minting)
      BY <2>10 DEF Submits
    <3>2. /\ submission.state = "submitting" /\ Possible = 0 /\ UNCHANGED <<adapter, submission>>
          /\ minting \in BOOLEAN /\ "submit" \in Calls
      BY <2>0, <2>10 DEF Submits, Ordered, Sending, Calls
    <3> QED
      BY <3>1, <3>2, CallSends
  <2>11. CASE SubmitsAgain
    <3>1. /\ submission.state = "retry" /\ UNCHANGED <<adapter, call, http, remoteTask>>
          /\ submission' = [submission EXCEPT !.state = "submitting", !.tries = @ + 1]
      BY <2>11 DEF SubmitsAgain
    <3>2. /\ submission' \in Stored /\ submission'.state = "submitting"
          /\ submission'.remote = submission.remote
      <4> HIDE DEF CallInv
      <4>1. submission \in Stored /\ submission.tries + 1 \in Nat
        BY <2>0 DEF CallTypes, Stored
      <4>2. submission' = [submission EXCEPT !.state = "submitting", !.tries = submission.tries + 1]
        BY <3>1, <4>1
      <4> QED
        BY <4>1, <4>2 DEF Stored, RunStates
    <3>3. CallTypes' /\ Guarded' /\ RunSound' /\ Timely'
      BY <2>0, <3>1, <3>2 DEF CallTypes, Guarded, BodiesBounded, RunSound, Timely
    <3>4. Ordered'
      BY <2>0, <3>1, <3>2 DEF Ordered, Possible, Sending
    <3> QED
      BY <3>3, <3>4 DEF CallInv
  <2>12. CASE PollsOrCancels
    <3>1. PICK want \in {"poll", "cancel"}, minting \in {adapter = "veo", FALSE} : Sends(want, minting)
      BY <2>12 DEF PollsOrCancels
    <3>2. /\ submission.state = "waiting" /\ UNCHANGED <<adapter, submission>>
          /\ minting \in BOOLEAN /\ want \in Calls
      BY <2>12 DEF PollsOrCancels, Calls
    <3> QED
      BY <3>1, <3>2, CallSends
  <2>13. ASSUME remoteTask' \in RemoteTask, Possible' = Possible, UNCHANGED <<adapter, call, http, submission>>
         PROVE  CallInv'
    BY <2>0, <2>13 DEF CallInv, CallTypes, Guarded, BodiesBounded, RunSound, Timely, Ordered, Sending
  <2>14. CASE ProviderAccepts
    <3>1. remoteTask' \in RemoteTask /\ Possible' = Possible
      BY <2>0, <2>14 DEF ProviderAccepts, CallTypes, RemoteTask, Possible
    <3> QED
      BY <2>13, <2>14, <3>1 DEF ProviderAccepts
  <2>15. CASE TaskEnds
    <3>1. remoteTask' \in RemoteTask /\ Possible' = Possible
      BY <2>0, <2>15 DEF TaskEnds, CallTypes, RemoteTask, Possible
    <3> QED
      BY <2>13, <2>15, <3>1 DEF TaskEnds
  <2>16. CASE UNCHANGED callVars
    BY <2>0, <2>13, <2>16 DEF callVars, CallTypes, Possible
  <2> QED
    BY <2>1, <2>2, <2>3, <2>4, <2>5, <2>6, <2>7, <2>8, <2>9, <2>10, <2>11, <2>12, <2>14, <2>15, <2>16
    DEF CallNext
<1> QED
  BY <1>1, <1>2, PTL DEF CallSpec

\* The provider accepts at most one submission of the run, and no run is failed while its task
\* still runs for an error that says nothing of the task.
THEOREM TasksStayKept == CallSpec => []TasksKept
<1>1. CallInv => TasksKept
  <2> SUFFICES ASSUME CallInv PROVE TasksKept
    OBVIOUS
  <2>1. AcceptedOnce
    BY DEF CallInv, CallTypes, Ordered, Possible, RemoteTask, AcceptedOnce
  <2>2. KnownTaskKept
    BY DEF CallInv, RunSound, KnownTaskKept, RetryableCodes
  <2> QED
    BY <2>1, <2>2 DEF TasksKept
<1> QED
  BY <1>1, CallInvariant, PTL

\* A response body that is open is under the timer of its request.
THEOREM BodiesStayBounded == CallSpec => []BodiesBounded
<1>1. CallInv => BodiesBounded
  BY DEF CallInv, Guarded
<1> QED
  BY <1>1, CallInvariant, PTL

\* Both for every run and every loss of an answer.
THEOREM CallsStaySound == CallSpec => []CallsSound
<1>1. TasksKept /\ BodiesBounded => CallsSound
  BY DEF CallsSound
<1> QED
  BY <1>1, TasksStayKept, BodiesStayBounded, PTL
-----------------------------------------------------------------------------
(* Canvas documents.  A tab that shows the document's revision shows its scene *)
(* too, so a save that is let in extends the scene it replaces.                 *)
Shows(t) ==
    /\ view[t].revision <= doc.revision
    /\ view[t].revision = doc.revision => view[t].scene = doc.scene
DocInv ==
    /\ doc \in [live : BOOLEAN, revision : Nat, scene : SUBSET Edits]
    /\ view \in [Tabs -> [revision : Nat, scene : SUBSET Edits]]
    /\ updating \in [Tabs -> Updating]
    /\ NoEditLost
    /\ \A t \in Tabs : Shows(t)

\* Whatever tabs save at once, an edit answered with success stays in the document.
THEOREM EditsKept == DocSpec => []NoEditLost
<1>1. DocInit => DocInv
  BY DEF DocInit, DocInv, Shows, Updating, NoUpdate, NoEditLost
<1>2. DocInv /\ [DocNext]_docVars => DocInv'
  <2> SUFFICES ASSUME DocInv, [DocNext]_docVars PROVE DocInv'
    OBVIOUS
  <2> USE DEF DocInv, Updating, NoUpdate
  <2>1. ASSUME NEW t \in Tabs, getCanvas(t) PROVE DocInv'
    BY <2>1 DEF getCanvas, Shown, Shows, NoEditLost
  <2>2. ASSUME NEW t \in Tabs, AbandonUpdate(t) PROVE DocInv'
    BY <2>2 DEF AbandonUpdate, Shows, NoEditLost
  <2>3. ASSUME NEW t \in Tabs, CommitUpdate(t) PROVE DocInv'
    <3> DEFINE scene == view[t].scene \cup updating[t].edit
    <3>1. /\ doc' = [doc EXCEPT !.revision = doc.revision + 1, !.scene = scene]
          /\ view' = [view EXCEPT ![t] = [revision |-> doc.revision + 1, scene |-> scene]]
          /\ acked' = acked \cup updating[t].edit /\ updating' = [updating EXCEPT ![t] = NoUpdate]
          /\ view[t].revision = doc.revision
      BY <2>3 DEF CommitUpdate, AtRevision
    <3>2. doc.scene = view[t].scene /\ scene \in SUBSET Edits
      BY <3>1 DEF Shows
    <3>3. NoEditLost' /\ \A u \in Tabs : Shows(u)'
      BY <3>1, <3>2 DEF NoEditLost, Shows
    <3>4. doc' \in [live : BOOLEAN, revision : Nat, scene : SUBSET Edits]
      <4>1. doc \in [live : BOOLEAN, revision : Nat, scene : SUBSET Edits] /\ doc.revision + 1 \in Nat
        OBVIOUS
      <4> HIDE DEF scene, DocInv
      <4> QED
        BY <3>1, <3>2, <4>1
    <3>5. view' \in [Tabs -> [revision : Nat, scene : SUBSET Edits]] /\ updating' \in [Tabs -> Updating]
      BY <3>1, <3>2
    <3> QED
      BY <3>3, <3>4, <3>5
  <2>4. ASSUME NEW t \in Tabs, NEW e \in Edits, BeginEdit(t, e) PROVE DocInv'
    BY <2>4 DEF BeginEdit, Shows, NoEditLost
  <2>5. CASE deleteCanvasDocument
    BY <2>5 DEF deleteCanvasDocument, Shows, NoEditLost
  <2>6. CASE UNCHANGED docVars
    BY <2>6 DEF docVars, Shows, NoEditLost
  <2> QED
    BY <2>1, <2>2, <2>3, <2>4, <2>5, <2>6 DEF DocNext
<1>3. DocInv => NoEditLost
  BY DEF DocInv
<1> QED
  BY <1>1, <1>2, <1>3, PTL DEF DocSpec
-----------------------------------------------------------------------------
(* The entries of the prompt templates.  Whatever is imported, activated, edited, *)
(* fetched and preprocessed meanwhile, what is stored is well formed, what the     *)
(* page knows is a version that was made, and what an attempt holds renders.        *)
\* What the doors promise of the entries of a version.
UsableEntries(entries) ==
    /\ entries # {} /\ IsFiniteSet(entries) /\ Cardinality(entries) <= MaxTemplates
    /\ \A e \in entries : LegalEntry(e)
    /\ \A e, f \in entries : e.name = f.name => e = f

UsableSets == \A s \in DOMAIN templateSets : UsableEntries(EntriesOf(s))

\* What the page knows: an order is for one entry of a version that was made, and no
\* fetch that has read is older than the last edit that was answered.
PageSound ==
    LET page == templatePage IN
    /\ \A o, p \in page.order : o = p
    /\ \A o, p \in page.target : o = p
    /\ \A o \in page.order \cup page.target : o.set \in DOMAIN templateSets
    /\ page.shown.set \in 0 .. Len(templateSets) /\ page.got.set \in 0 .. Len(templateSets)
    /\ page.edited <= swaps
    /\ page.fetch = "read" => page.edited <= page.got.swaps
    /\ page.pc # "refetch" /\ ~ page.failed => page.edited <= page.shown.swaps
    /\ page.pc = "made" =>
         /\ page.made.set \in DOMAIN templateSets /\ page.made.swaps <= swaps
         /\ \A o \in page.order :
              /\ page.from = o.set
              /\ EntriesOf(page.made.set) \ EntriesOf(o.set) \subseteq {o.entry}
              /\ \A e \in EntriesOf(o.set) \ EntriesOf(page.made.set) : e = o.entry

\* What an attempt holds renders, and no choice is made once a text was found.
AttemptsSound ==
    /\ \A text \in snapshot : Renders(text)
    /\ \A w \in Preprocessors :
         /\ attempt[w].pc # "unrendered"
         /\ attempt[w].cached <= Len(templateSets)
         /\ \A text \in attempt[w].choices \cup attempt[w].kept \cup attempt[w].text : Renders(text)
         /\ attempt[w].pc \in {"templates", "select"} => attempt[w].kept = {}
         /\ attempt[w].pc # "idle" /\ attempt[w].kept # {} =>
              attempt[w].text = attempt[w].kept /\ snapshot = attempt[w].kept

-----------------------------------------------------------------------------
(* Entries of a list                                                           *)
LEMMA EntryStored ==
    ASSUME NEW item \in TemplateItems, NEW sort \in {item.sort, {}}, NEW default \in Nat
    PROVE  /\ StoredEntry(item, sort, default) \in TemplateEntry
           /\ StoredEntry(item, sort, default).name = item.name
           /\ StoredEntry(item, sort, default).text = item.text
           /\ StoredEntry(item, sort, default).sort \in sort \cup {default}
<1>1. item \in [name : Nat, text : Instructions, sort : SUBSET Nat]
  BY EntriesAssumption DEF EntriesAssumption
<1>2. item.name \in Nat /\ item.text \in Instructions /\ sort \subseteq Nat
  BY <1>1
<1> DEFINE order == IF sort = {} THEN default ELSE CHOOSE n \in sort : TRUE
<1>3. order \in Nat /\ order \in sort \cup {default}
  <2>1. CASE sort = {}
    BY <2>1
  <2>2. CASE sort # {}
    <3>1. PICK n \in sort : TRUE
      BY <2>2
    <3>2. (CHOOSE m \in sort : TRUE) \in sort
      BY <3>1
    <3> QED BY <2>2, <3>2, <1>2
  <2> QED BY <2>1, <2>2
<1>4. StoredEntry(item, sort, default) = [name |-> item.name, text |-> item.text, sort |-> order]
  BY DEF StoredEntry
<1> HIDE DEF order
<1> QED BY <1>2, <1>3, <1>4 DEF TemplateEntry

\* The image of a list of entries, and its names, are those of the list.
LEMMA ListUsable ==
    ASSUME NEW items \in TemplateLists, Count(items), DistinctNames(items),
           NEW entry, entry \in [DOMAIN items -> TemplateEntry],
           \A i \in DOMAIN items : LegalEntry(entry[i]) /\ entry[i].name = items[i].name
    PROVE  UsableEntries({entry[i] : i \in DOMAIN items}) /\ {entry[i] : i \in DOMAIN items} \subseteq TemplateEntry
<1> DEFINE entries == {entry[i] : i \in DOMAIN items}
<1>1. items \in Seq(TemplateItems) /\ MaxTemplates \in Nat
  BY EntriesAssumption DEF EntriesAssumption
<1>2. DOMAIN items = 1 .. Len(items) /\ Len(items) \in Nat /\ Len(items) >= 1 /\ Len(items) <= MaxTemplates
  BY <1>1 DEF Count
<1>3. entry \in Surjection(1 .. Len(items), entries)
  BY <1>2 DEF Surjection
<1>4. IsFiniteSet(1 .. Len(items)) /\ Cardinality(1 .. Len(items)) = Len(items)
  BY <1>2, FS_Interval
<1>5. IsFiniteSet(entries) /\ Cardinality(entries) <= Len(items)
  BY <1>3, <1>4, FS_Surjection
<1>6. Cardinality(entries) <= MaxTemplates
  BY <1>1, <1>2, <1>5, FS_CardinalityType
<1>7. entries # {} /\ \A e \in entries : LegalEntry(e)
  BY <1>2
<1>8. \A e, f \in entries : e.name = f.name => e = f
  BY DEF DistinctNames
<1> QED BY <1>5, <1>6, <1>7, <1>8 DEF UsableEntries

LEMMA ImportUsable ==
    ASSUME NEW items \in TemplateLists, AcceptedImport(items)
    PROVE  UsableEntries(ImportedEntries(items)) /\ ImportedEntries(items) \subseteq TemplateEntry
<1> DEFINE entry == [i \in DOMAIN items |-> ImportedEntry(items, i)]
<1>1. items \in Seq(TemplateItems)
  BY EntriesAssumption DEF EntriesAssumption
<1>2. ASSUME NEW i \in DOMAIN items
      PROVE  /\ ImportedEntry(items, i) \in TemplateEntry
             /\ ImportedEntry(items, i).name = items[i].name
  <2>1. items[i] \in TemplateItems /\ i - 1 \in Nat
    BY <1>1
  <2> QED BY <2>1, EntryStored DEF ImportedEntry
<1>3. entry \in [DOMAIN items -> TemplateEntry]
  BY <1>2
<1>4. \A i \in DOMAIN items : LegalEntry(entry[i]) /\ entry[i].name = items[i].name
  BY <1>2 DEF AcceptedImport
<1>5. {entry[i] : i \in DOMAIN items} = ImportedEntries(items)
  BY DEF ImportedEntries
<1>6. Count(items) /\ DistinctNames(items)
  BY DEF AcceptedImport
<1> HIDE DEF entry
<1> QED BY <1>3, <1>4, <1>5, <1>6, ListUsable

LEMMA SetupUsable ==
    ASSUME NEW items \in TemplateLists, AcceptedSetup(items)
    PROVE  UsableEntries(SetupEntries(items)) /\ SetupEntries(items) \subseteq TemplateEntry
<1> DEFINE entry == [i \in DOMAIN items |-> StoredEntry(items[i], {}, i - 1)]
<1>1. items \in Seq(TemplateItems) /\ MaxTemplates \in Nat /\ MaxSortOrder \in Nat
      /\ MaxTemplates <= MaxSortOrder + 1
  BY EntriesAssumption DEF EntriesAssumption
<1>2. Count(items) /\ DistinctNames(items)
  BY DEF AcceptedSetup
<1>3. ASSUME NEW i \in DOMAIN items
      PROVE  entry[i] \in TemplateEntry /\ entry[i].name = items[i].name /\ LegalEntry(entry[i])
  <2>1. items[i] \in TemplateItems /\ i - 1 \in Nat /\ i - 1 <= MaxSortOrder
    BY <1>1, <1>2 DEF Count
  <2>2. /\ entry[i] \in TemplateEntry /\ entry[i].name = items[i].name
        /\ entry[i].text = items[i].text /\ entry[i].sort = i - 1
    BY <2>1, EntryStored
  <2>3. LegalName(items[i].name) /\ LegalInstruction(items[i].text)
    BY DEF AcceptedSetup
  <2> HIDE DEF entry
  <2> QED BY <2>1, <2>2, <2>3 DEF LegalEntry
<1>4. entry \in [DOMAIN items -> TemplateEntry]
  BY <1>3
<1>5. {entry[i] : i \in DOMAIN items} = SetupEntries(items)
  BY DEF SetupEntries
<1>6. \A i \in DOMAIN items : LegalEntry(entry[i]) /\ entry[i].name = items[i].name
  BY <1>3
<1> HIDE DEF entry
<1> QED BY <1>2, <1>4, <1>5, <1>6, ListUsable

\* An export is a list of exactly the entries, each with the sort order it has.
LEMMA ExportReturns ==
    ASSUME NEW entries \in SUBSET TemplateEntry, UsableEntries(entries), NEW items \in Exports(entries)
    PROVE  AcceptedImport(items) /\ ImportedEntries(items) = entries
<1> DEFINE n == Cardinality(entries)
<1>1. n \in Nat /\ n >= 1 /\ n <= MaxTemplates /\ MaxTemplates \in Nat
  BY FS_EmptySet, FS_CardinalityType, EntriesAssumption DEF UsableEntries, EntriesAssumption
<1> HIDE DEF n
<1>2. /\ items \in [1 .. n -> {Exported(e) : e \in entries}]
      /\ \A i, j \in DOMAIN items : items[i] = items[j] => i = j
      /\ \A e \in entries : \E i \in DOMAIN items : items[i] = Exported(e)
  BY DEF Exports, n
<1>3. DOMAIN items = 1 .. n
  BY <1>2
<1>4. Len(items) = n
  <2>1. items \in Seq({Exported(e) : e \in entries})
    BY <1>1, <1>2
  <2> QED BY <1>1, <1>3, <2>1
<1>5. ASSUME NEW i \in DOMAIN items
      PROVE  \E e \in entries : items[i] = Exported(e) /\ ImportedEntry(items, i) = e
  <2>1. PICK e \in entries : items[i] = Exported(e)
    BY <1>2
  <2>2. items[i].name = e.name /\ items[i].text = e.text /\ items[i].sort = {e.sort}
    BY <2>1 DEF Exported
  <2>3. (CHOOSE m \in {e.sort} : TRUE) = e.sort
    OBVIOUS
  <2>4. ImportedEntry(items, i) = [name |-> e.name, text |-> e.text, sort |-> e.sort]
    BY <2>2, <2>3 DEF ImportedEntry, StoredEntry
  <2>5. e = [name |-> e.name, text |-> e.text, sort |-> e.sort]
    BY DEF TemplateEntry
  <2> QED BY <2>1, <2>4, <2>5
<1>6. Count(items)
  BY <1>1, <1>4 DEF Count
<1>7. DistinctNames(items)
  <2>1. SUFFICES ASSUME NEW i \in DOMAIN items, NEW j \in DOMAIN items, items[i].name = items[j].name
                 PROVE  i = j
    BY DEF DistinctNames
  <2>2. PICK e \in entries : items[i] = Exported(e)
    BY <1>5
  <2>3. PICK f \in entries : items[j] = Exported(f)
    BY <1>5
  <2>4. e.name = f.name
    BY <2>1, <2>2, <2>3 DEF Exported
  <2>5. e = f
    BY <2>4 DEF UsableEntries
  <2> QED BY <1>2, <2>2, <2>3, <2>5
<1>8. \A i \in DOMAIN items : LegalEntry(ImportedEntry(items, i))
  BY <1>5 DEF UsableEntries
<1>9. ImportedEntries(items) = entries
  <2>1. ImportedEntries(items) \subseteq entries
    BY <1>5 DEF ImportedEntries
  <2>2. ASSUME NEW e \in entries
        PROVE  e \in ImportedEntries(items)
    <3>1. PICK i \in DOMAIN items : items[i] = Exported(e)
      BY <1>2
    <3>2. PICK f \in entries : items[i] = Exported(f) /\ ImportedEntry(items, i) = f
      BY <1>5
    <3>3. e.name = f.name
      BY <3>1, <3>2 DEF Exported
    <3>4. e = f
      BY <3>3 DEF UsableEntries
    <3> QED BY <3>2, <3>4 DEF ImportedEntries
  <2> QED BY <2>1, <2>2
<1> QED BY <1>6, <1>7, <1>8, <1>9 DEF AcceptedImport

-----------------------------------------------------------------------------
(* The versions                                                                *)
\* Versions are only added, and what one holds never changes.
Grown ==
    /\ DOMAIN templateSets \subseteq DOMAIN templateSets' /\ Len(templateSets) <= Len(templateSets')
    /\ \A s \in DOMAIN templateSets : EntriesOf(s)' = EntriesOf(s)
    /\ swaps <= swaps'

StoreTyped ==
    /\ templateSets \in Seq(TemplateSet) /\ Len(templateSets) <= MaxTemplateSets
    /\ activeSet \in 0 .. Len(templateSets) /\ swaps \in 0 .. MaxSwaps

LEMMA VersionAdded ==
    ASSUME StoreTyped, UsableSets, NEW entries \in SUBSET TemplateEntry, UsableEntries(entries), Adds(entries),
           \/ Swaps(Len(templateSets) + 1)
           \/ UNCHANGED <<activeSet, swaps>>
    PROVE  /\ StoreTyped' /\ UsableSets' /\ Grown
           /\ Len(templateSets') = Len(templateSets) + 1
           /\ templateSets'[Len(templateSets) + 1].entries = entries
<1> DEFINE new == [live |-> TRUE, entries |-> entries]
<1>1. new \in TemplateSet /\ new.entries = entries
  BY DEF TemplateSet
<1> HIDE DEF new
<1>2. /\ templateSets \in Seq(TemplateSet) /\ Len(templateSets) < MaxTemplateSets /\ MaxTemplateSets \in Nat
      /\ templateSets' = Append(templateSets, new) /\ MaxSwaps \in Nat
  BY EntriesAssumption DEF EntriesAssumption, StoreTyped, Adds, new
<1>3. /\ templateSets' \in Seq(TemplateSet) /\ Len(templateSets') = Len(templateSets) + 1
      /\ Len(templateSets) \in Nat
      /\ templateSets'[Len(templateSets) + 1] = new
      /\ \A s \in DOMAIN templateSets : templateSets'[s] = templateSets[s]
      /\ DOMAIN templateSets' = 1 .. Len(templateSets) + 1 /\ DOMAIN templateSets = 1 .. Len(templateSets)
  BY <1>1, <1>2
<1>4. activeSet' \in 0 .. Len(templateSets') /\ swaps' \in 0 .. MaxSwaps /\ swaps <= swaps'
  BY <1>2, <1>3 DEF StoreTyped, Swaps
<1>5. StoreTyped'
  BY <1>2, <1>3, <1>4 DEF StoreTyped
<1>6. Grown
  BY <1>3, <1>4 DEF Grown, EntriesOf
<1>7. templateSets'[Len(templateSets) + 1].entries = entries
  BY <1>1, <1>3 DEF EntriesOf
<1>8. UsableSets'
  <2>1. SUFFICES ASSUME NEW s \in DOMAIN templateSets'
                 PROVE  UsableEntries(templateSets'[s].entries)
    BY DEF UsableSets, EntriesOf
  <2>2. CASE s \in DOMAIN templateSets
    BY <1>3, <2>2 DEF UsableSets, EntriesOf
  <2>3. CASE s = Len(templateSets) + 1
    BY <1>1, <1>3, <2>3
  <2> QED BY <1>3, <2>2, <2>3
<1> QED BY <1>3, <1>5, <1>6, <1>7, <1>8

LEMMA EntriesTyped ==
    ASSUME StoreTyped, NEW s \in DOMAIN templateSets
    PROVE  EntriesOf(s) \in SUBSET TemplateEntry
<1>1. templateSets[s] \in TemplateSet
  BY DEF StoreTyped
<1> QED BY <1>1 DEF TemplateSet, EntriesOf

LEMMA EntryCreated ==
    ASSUME StoreTyped, UsableSets, NEW s, NEW e \in TemplateEntry, CreatesEntry(s, e)
    PROVE  /\ StoreTyped' /\ UsableSets' /\ Grown
           /\ s = activeSet /\ s \in DOMAIN templateSets
           /\ activeSet' \in DOMAIN templateSets'
           /\ templateSets'[activeSet'].entries = EntriesOf(s) \cup {e}
<1>1. s # 0 /\ s = activeSet /\ s \in DOMAIN templateSets /\ Len(templateSets) \in Nat
  BY DEF CreatesEntry, Editable, StoreTyped
<1>2. UsableEntries(EntriesOf(s)) /\ EntriesOf(s) \cup {e} \in SUBSET TemplateEntry
  BY <1>1, EntriesTyped DEF UsableSets
<1>3. UsableEntries(EntriesOf(s) \cup {e})
  <2>1. IsFiniteSet(EntriesOf(s) \cup {e})
    BY <1>2, FS_AddElement DEF UsableEntries
  <2> QED BY <1>2, <2>1 DEF UsableEntries, CreatesEntry, Forks
<1>4. Adds(EntriesOf(s) \cup {e}) /\ Swaps(Len(templateSets) + 1)
  BY DEF CreatesEntry, Forks
<1>5. activeSet' = Len(templateSets) + 1
  BY <1>4 DEF Swaps
<1>6. /\ StoreTyped' /\ UsableSets' /\ Grown /\ Len(templateSets') = Len(templateSets) + 1
      /\ templateSets'[Len(templateSets) + 1].entries = EntriesOf(s) \cup {e}
  BY <1>2, <1>3, <1>4, VersionAdded
<1>7. activeSet' \in DOMAIN templateSets'
  BY <1>1, <1>5, <1>6 DEF StoreTyped
<1> QED BY <1>1, <1>5, <1>6, <1>7

LEMMA EntryDeleted ==
    ASSUME StoreTyped, UsableSets, NEW s, NEW e, DeletesEntry(s, e)
    PROVE  /\ StoreTyped' /\ UsableSets' /\ Grown
           /\ s = activeSet /\ s \in DOMAIN templateSets
           /\ activeSet' \in DOMAIN templateSets'
           /\ templateSets'[activeSet'].entries = EntriesOf(s) \ {e}
<1>1. s # 0 /\ s = activeSet /\ s \in DOMAIN templateSets /\ Len(templateSets) \in Nat
  BY DEF DeletesEntry, Editable, StoreTyped
<1>2. UsableEntries(EntriesOf(s)) /\ EntriesOf(s) \ {e} \in SUBSET TemplateEntry
  BY <1>1, EntriesTyped DEF UsableSets
<1>3. UsableEntries(EntriesOf(s) \ {e})
  <2>1. IsFiniteSet(EntriesOf(s) \ {e})
    BY <1>2, FS_RemoveElement DEF UsableEntries
  <2> QED BY <1>2, <2>1 DEF UsableEntries, DeletesEntry, Forks
<1>4. Adds(EntriesOf(s) \ {e}) /\ Swaps(Len(templateSets) + 1)
  BY DEF DeletesEntry, Forks
<1>5. activeSet' = Len(templateSets) + 1
  BY <1>4 DEF Swaps
<1>6. /\ StoreTyped' /\ UsableSets' /\ Grown /\ Len(templateSets') = Len(templateSets) + 1
      /\ templateSets'[Len(templateSets) + 1].entries = EntriesOf(s) \ {e}
  BY <1>2, <1>3, <1>4, VersionAdded
<1>7. activeSet' \in DOMAIN templateSets'
  BY <1>1, <1>5, <1>6 DEF StoreTyped
<1> QED BY <1>1, <1>5, <1>6, <1>7

LEMMA EntryPatched ==
    ASSUME StoreTyped, UsableSets, NEW s \in DOMAIN templateSets, NEW e \in EntriesOf(s),
           NEW item \in TemplateItems, updatePromptTemplateEntry(s, e, item)
    PROVE  StoreTyped' /\ UsableSets' /\ Grown
<1>1. PICK new \in Patched(e, item) :
         /\ \A other \in EntriesOf(s) \ {e} : other.name # new.name
         /\ Forks((EntriesOf(s) \ {e}) \cup {new})
  BY DEF updatePromptTemplateEntry
<1> DEFINE entries == (EntriesOf(s) \ {e}) \cup {new}
<1>2. UsableEntries(EntriesOf(s)) /\ EntriesOf(s) \in SUBSET TemplateEntry
  BY EntriesTyped DEF UsableSets
<1>3. e \in TemplateEntry /\ LegalEntry(e)
  BY <1>2 DEF UsableEntries
<1>4. item.name \in Nat /\ item.text \in Instructions /\ item.sort \subseteq Nat
  BY EntriesAssumption DEF EntriesAssumption
<1>5. new \in TemplateEntry
  BY <1>3, <1>4 DEF Patched, TemplateEntry
<1>6. LegalEntry(new)
  BY <1>3 DEF Patched, LegalEntry
<1>7. IsFiniteSet(entries)
  <2>1. IsFiniteSet(EntriesOf(s) \ {e})
    BY <1>2, FS_RemoveElement DEF UsableEntries
  <2> QED BY <2>1, FS_AddElement
<1>8. Adds(entries) /\ Swaps(Len(templateSets) + 1) /\ entries # {} /\ Cardinality(entries) <= MaxTemplates
  BY <1>1 DEF Forks
<1>9. UsableEntries(entries)
  BY <1>1, <1>2, <1>6, <1>7, <1>8 DEF UsableEntries
<1>10. entries \in SUBSET TemplateEntry
  BY <1>2, <1>5
<1> HIDE DEF entries
<1> QED BY <1>8, <1>9, <1>10, VersionAdded

\* Nothing that comes in by a door spoils a version, and no version ever changes.
LEMMA DoorsKeep ==
    ASSUME StoreTyped, UsableSets, DoorsNext
    PROVE  StoreTyped' /\ UsableSets' /\ Grown /\ UNCHANGED <<templatePage, jobVars>>
<1>1. ASSUME NEW items \in TemplateLists, setupTemplatesImport(items)
      PROVE  StoreTyped' /\ UsableSets' /\ Grown /\ UNCHANGED <<templatePage, jobVars>>
  <2>1. /\ AcceptedSetup(items) /\ Adds(SetupEntries(items)) /\ Swaps(Len(templateSets) + 1)
        /\ UNCHANGED <<templatePage, jobVars>>
    BY <1>1 DEF setupTemplatesImport
  <2> QED BY <2>1, SetupUsable, VersionAdded
<1>2. ASSUME NEW items \in TemplateLists, NEW activate \in BOOLEAN, importPromptTemplates(items, activate)
      PROVE  StoreTyped' /\ UsableSets' /\ Grown /\ UNCHANGED <<templatePage, jobVars>>
  <2>1. /\ AcceptedImport(items) /\ Adds(ImportedEntries(items))
        /\ Swaps(Len(templateSets) + 1) \/ UNCHANGED <<activeSet, swaps>>
        /\ UNCHANGED <<templatePage, jobVars>>
    BY <1>2 DEF importPromptTemplates
  <2> QED BY <2>1, ImportUsable, VersionAdded
<1>3. ASSUME NEW s \in DOMAIN templateSets, activateTemplates(s)
      PROVE  StoreTyped' /\ UsableSets' /\ Grown /\ UNCHANGED <<templatePage, jobVars>>
  <2>1. /\ activeSet' = s /\ swaps' = swaps + 1 /\ swaps < MaxSwaps /\ templateSets' = templateSets
        /\ UNCHANGED <<templatePage, jobVars>> /\ MaxSwaps \in Nat
    BY <1>3, EntriesAssumption DEF activateTemplates, Swaps, EntriesAssumption
  <2>2. StoreTyped'
    BY <2>1 DEF StoreTyped
  <2>3. UsableSets' /\ Grown
    BY <2>1 DEF UsableSets, EntriesOf, Grown, StoreTyped
  <2> QED BY <2>1, <2>2, <2>3
<1>4. ASSUME NEW s \in DOMAIN templateSets, deleteTemplates(s)
      PROVE  StoreTyped' /\ UsableSets' /\ Grown /\ UNCHANGED <<templatePage, jobVars>>
  <2> DEFINE gone == [templateSets[s] EXCEPT !.live = FALSE]
  <2>1. templateSets[s] \in TemplateSet
    BY DEF StoreTyped
  <2>2. gone \in TemplateSet /\ gone.entries = templateSets[s].entries
    BY <2>1 DEF TemplateSet
  <2>3. templateSets' = [templateSets EXCEPT ![s] = gone] /\ UNCHANGED <<activeSet, swaps, templatePage, jobVars>>
    BY <1>4 DEF deleteTemplates
  <2> HIDE DEF gone
  <2>4. /\ templateSets' \in Seq(TemplateSet) /\ Len(templateSets') = Len(templateSets)
        /\ DOMAIN templateSets' = DOMAIN templateSets
    BY <2>2, <2>3 DEF StoreTyped
  <2>5. \A r \in DOMAIN templateSets : templateSets'[r].entries = templateSets[r].entries
    BY <2>2, <2>3 DEF StoreTyped
  <2>6. StoreTyped'
    BY <2>3, <2>4 DEF StoreTyped
  <2>7. UsableSets' /\ Grown
    BY <2>3, <2>4, <2>5 DEF UsableSets, EntriesOf, Grown, StoreTyped
  <2> QED BY <2>3, <2>6, <2>7 DEF jobVars
<1>5. ASSUME NEW s \in DOMAIN templateSets, NEW item \in TemplateItems, createPromptTemplateEntry(s, item)
      PROVE  StoreTyped' /\ UsableSets' /\ Grown /\ UNCHANGED <<templatePage, jobVars>>
  <2>1. StoredEntry(item, item.sort, 0) \in TemplateEntry
    BY EntryStored
  <2> QED BY <1>5, <2>1, EntryCreated DEF createPromptTemplateEntry
<1>6. ASSUME NEW s \in DOMAIN templateSets, NEW e \in EntriesOf(s), deletePromptTemplateEntry(s, e)
      PROVE  StoreTyped' /\ UsableSets' /\ Grown /\ UNCHANGED <<templatePage, jobVars>>
  BY <1>6, EntryDeleted DEF deletePromptTemplateEntry
<1>7. ASSUME NEW s \in DOMAIN templateSets, NEW e \in EntriesOf(s), NEW item \in TemplateItems,
             updatePromptTemplateEntry(s, e, item)
      PROVE  StoreTyped' /\ UsableSets' /\ Grown /\ UNCHANGED <<templatePage, jobVars>>
  BY <1>7, EntryPatched DEF updatePromptTemplateEntry
<1> QED BY <1>1, <1>2, <1>3, <1>4, <1>5, <1>6, <1>7 DEF DoorsNext

-----------------------------------------------------------------------------
(* The page                                                                    *)
PageTyped == templatePage \in Page

\* Whatever happens to the versions, what the page knows of them stays as it was.
LEMMA PageUndisturbed ==
    ASSUME StoreTyped, StoreTyped', Grown, PageTyped, PageSound, templatePage' = templatePage
    PROVE  PageTyped' /\ PageSound'
<1> USE DEF PageTyped
<1>1. PageTyped'
  OBVIOUS
<1> DEFINE page == templatePage
<1>2. \A s \in DOMAIN templateSets : s \in DOMAIN templateSets' /\ EntriesOf(s)' = EntriesOf(s)
  BY DEF Grown
<1>3. /\ Len(templateSets) \in Nat /\ Len(templateSets') \in Nat /\ Len(templateSets) <= Len(templateSets')
      /\ swaps \in Nat /\ swaps' \in Nat /\ swaps <= swaps'
  BY EntriesAssumption DEF Grown, StoreTyped, EntriesAssumption
<1>4. page.edited \in Nat /\ page.made.swaps \in Nat /\ page.shown.set \in Nat /\ page.got.set \in Nat
  BY EntriesAssumption DEF Page, Seen, Versions, EntriesAssumption
<1>5. \A o \in page.order \cup page.target : o.set \in DOMAIN templateSets'
  BY <1>2 DEF PageSound
<1>6. page.shown.set \in 0 .. Len(templateSets') /\ page.got.set \in 0 .. Len(templateSets') /\ page.edited <= swaps'
  BY <1>3, <1>4 DEF PageSound
<1>7. page.pc = "made" =>
         /\ page.made.set \in DOMAIN templateSets' /\ page.made.swaps <= swaps'
         /\ \A o \in page.order :
              /\ page.from = o.set
              /\ templateSets'[page.made.set].entries \ templateSets'[o.set].entries \subseteq {o.entry}
              /\ \A e \in templateSets'[o.set].entries \ templateSets'[page.made.set].entries : e = o.entry
  <2>1. SUFFICES ASSUME page.pc = "made"
                 PROVE  /\ page.made.set \in DOMAIN templateSets' /\ page.made.swaps <= swaps'
                        /\ \A o \in page.order :
                             /\ page.from = o.set
                             /\ templateSets'[page.made.set].entries \ templateSets'[o.set].entries \subseteq {o.entry}
                             /\ \A e \in templateSets'[o.set].entries \ templateSets'[page.made.set].entries : e = o.entry
    OBVIOUS
  <2>2. page.made.set \in DOMAIN templateSets /\ page.made.swaps <= swaps
    BY <2>1 DEF PageSound
  <2>3. templateSets'[page.made.set].entries = templateSets[page.made.set].entries
    BY <1>2, <2>2 DEF EntriesOf
  <2>4. ASSUME NEW o \in page.order
        PROVE  /\ page.from = o.set
               /\ templateSets'[page.made.set].entries \ templateSets'[o.set].entries \subseteq {o.entry}
               /\ \A e \in templateSets'[o.set].entries \ templateSets'[page.made.set].entries : e = o.entry
    <3>1. o.set \in DOMAIN templateSets
      BY DEF PageSound
    <3>2. templateSets'[o.set].entries = templateSets[o.set].entries
      BY <1>2, <3>1 DEF EntriesOf
    <3> QED BY <2>1, <2>3, <3>2 DEF PageSound, EntriesOf
  <2> QED BY <1>2, <1>3, <1>4, <2>2, <2>4
<1> QED BY <1>1, <1>5, <1>6, <1>7 DEF PageSound, EntriesOf

\* The parts of PageSound that no step of the page but EditServed can disturb through `made`.
LEMMA EditMade ==
    ASSUME StoreTyped, UsableSets, PageTyped, PageSound, EditServed
    PROVE  StoreTyped' /\ UsableSets' /\ Grown /\ PageTyped' /\ PageSound' /\ UNCHANGED jobVars
<1> USE DEF PageTyped
<1> DEFINE page == templatePage
<1>1. PICK o \in page.order :
         \/ page.pc = "create" /\ CreatesEntry(o.set, o.entry)
         \/ page.pc = "delete" /\ DeletesEntry(o.set, o.entry)
  BY DEF EditServed
<1>2. o.entry \in TemplateEntry
  BY DEF Page, Order
<1>3. /\ StoreTyped' /\ UsableSets' /\ Grown
      /\ o.set = activeSet /\ o.set \in DOMAIN templateSets /\ activeSet' \in DOMAIN templateSets'
      /\ \/ templateSets'[activeSet'].entries = EntriesOf(o.set) \cup {o.entry}
         \/ templateSets'[activeSet'].entries = EntriesOf(o.set) \ {o.entry}
  <2>1. CASE page.pc = "create" /\ CreatesEntry(o.set, o.entry)
    BY <2>1, <1>2, EntryCreated
  <2>2. CASE page.pc = "delete" /\ DeletesEntry(o.set, o.entry)
    BY <2>2, EntryDeleted
  <2> QED BY <1>1, <2>1, <2>2
<1> DEFINE made == [set |-> activeSet', swaps |-> swaps']
<1>4. /\ templatePage' = [page EXCEPT !.pc = "made", !.from = activeSet, !.made = made]
      /\ UNCHANGED jobVars
  BY DEF EditServed
<1>5. /\ Len(templateSets) \in Nat /\ Len(templateSets') \in Nat /\ Len(templateSets) <= Len(templateSets')
      /\ Len(templateSets') <= MaxTemplateSets /\ Len(templateSets) <= MaxTemplateSets
      /\ swaps \in 0 .. MaxSwaps /\ swaps' \in 0 .. MaxSwaps /\ swaps <= swaps'
      /\ activeSet \in 0 .. Len(templateSets) /\ activeSet' \in 0 .. Len(templateSets')
      /\ MaxTemplateSets \in Nat /\ MaxSwaps \in Nat
  BY <1>3, EntriesAssumption DEF Grown, StoreTyped, EntriesAssumption
<1>6. made \in Seen /\ activeSet \in Versions /\ made.set = activeSet' /\ made.swaps = swaps'
  BY <1>5 DEF Seen, Versions
<1> HIDE DEF made
<1>7. /\ templatePage' \in Page /\ templatePage'.pc = "made" /\ templatePage'.from = activeSet
      /\ templatePage'.made = made
      /\ templatePage'.order = page.order /\ templatePage'.target = page.target
      /\ templatePage'.shown = page.shown /\ templatePage'.got = page.got
      /\ templatePage'.edited = page.edited /\ templatePage'.fetch = page.fetch
      /\ templatePage'.failed = page.failed
  BY <1>4, <1>6 DEF Page
<1>8. page.edited \in Nat /\ page.shown.set \in Nat /\ page.got.set \in Nat
  BY <1>5 DEF Page, Seen, Versions
<1>9. \A p \in page.order \cup page.target : p.set \in DOMAIN templateSets'
  BY <1>3 DEF PageSound, Grown
<1>10. templateSets'[o.set].entries = EntriesOf(o.set)
  BY <1>3 DEF Grown, EntriesOf
<1>11. \A p \in page.order : p = o
  BY DEF PageSound
<1>12. \A p \in page.order :
         /\ activeSet = p.set
         /\ templateSets'[activeSet'].entries \ templateSets'[p.set].entries \subseteq {p.entry}
         /\ \A e \in templateSets'[p.set].entries \ templateSets'[activeSet'].entries : e = p.entry
  BY <1>3, <1>10, <1>11
<1>13. /\ page.shown.set \in 0 .. Len(templateSets') /\ page.got.set \in 0 .. Len(templateSets')
       /\ page.edited <= swaps' /\ made.swaps <= swaps'
  <2>1. page.shown.set \in 0 .. Len(templateSets) /\ page.got.set \in 0 .. Len(templateSets) /\ page.edited <= swaps
    BY DEF PageSound
  <2>2. page.edited <= swaps'
    BY <1>5, <1>8, <2>1
  <2>3. made.swaps <= swaps'
    BY <1>5, <1>6
  <2>4. page.shown.set \in 0 .. Len(templateSets') /\ page.got.set \in 0 .. Len(templateSets')
    BY <1>5, <1>8, <2>1
  <2> QED BY <2>2, <2>3, <2>4
<1>14. page.pc # "refetch"
  BY <1>1
<1>15. PageSound'
  BY <1>3, <1>6, <1>7, <1>9, <1>12, <1>13, <1>14 DEF PageSound, EntriesOf
<1> QED BY <1>3, <1>4, <1>7, <1>15

\* The steps that only the page takes: what it reads, shows, opens, orders and is answered.
LEMMA PageKeeps ==
    ASSUME StoreTyped, PageTyped, PageSound, templateSets' = templateSets, swaps' = swaps,
           \/ RefetchTemplates \/ ReadTemplates \/ ShowTemplates \/ FetchFails
           \/ CloseEntry \/ ConfirmDelete \/ EditFails \/ EditAnswered
           \/ \E s \in {templatePage.shown.set} \ {0} : \E e \in EntriesOf(s) : OpenEntry(e)
           \/ \E item \in TemplateItems : SubmitEntry(item)
    PROVE  PageTyped' /\ PageSound'
<1> USE DEF PageTyped
<1> DEFINE page == templatePage
<1>1. /\ Len(templateSets) \in Nat /\ Len(templateSets) <= MaxTemplateSets /\ MaxTemplateSets \in Nat
      /\ MaxSwaps \in Nat /\ swaps \in 0 .. MaxSwaps /\ activeSet \in 0 .. Len(templateSets)
      /\ DOMAIN templateSets = 1 .. Len(templateSets)
  BY EntriesAssumption DEF StoreTyped, EntriesAssumption
<1>2. /\ page \in Page /\ page.edited \in 0 .. MaxSwaps /\ page.shown \in Seen /\ page.got \in Seen
      /\ page.made \in Seen /\ NoneSeen \in Seen /\ NoneSeen.set = 0
      /\ page.shown.swaps \in Nat /\ page.got.swaps \in Nat /\ page.made.swaps \in 0 .. MaxSwaps
      /\ page.order \in SUBSET Order /\ page.target \in SUBSET Order /\ 0 \in Versions
  BY <1>1 DEF Page, Seen, NoneSeen, Versions
<1>3. CASE RefetchTemplates
  <2>1. templatePage' = [page EXCEPT !.fetch = "asked"]
    BY <1>3 DEF RefetchTemplates
  <2> QED BY <1>1, <1>2, <2>1 DEF Page, PageSound, EntriesOf
<1>4. CASE ReadTemplates
  <2> DEFINE got == [set |-> activeSet, swaps |-> swaps]
  <2>1. templatePage' = [page EXCEPT !.fetch = "read", !.got = got]
    BY <1>4 DEF ReadTemplates
  <2>2. got \in Seen /\ got.set = activeSet /\ got.swaps = swaps
    BY <1>1 DEF Seen, Versions
  <2> HIDE DEF got
  <2> QED BY <1>1, <1>2, <2>1, <2>2 DEF Page, PageSound, EntriesOf
<1>5. ASSUME NEW over \in Page, over = EditOver(page)
      PROVE  /\ over.order \subseteq page.order /\ over.target \subseteq page.target
             /\ over.pc = IF page.pc = "refetch" THEN "idle" ELSE page.pc
             /\ over.made = page.made /\ over.from = page.from /\ over.edited = page.edited
             /\ over.shown = page.shown /\ over.got = page.got /\ over.failed = page.failed
             /\ page.pc # "refetch" => over.order = page.order
  BY <1>2, <1>5 DEF EditOver, Page
<1>6. EditOver(page) \in Page
  BY <1>2 DEF EditOver, Page
<1>7. CASE ShowTemplates
  <2>1. PICK over \in Page : over = EditOver(page)
    BY <1>6
  <2>2. /\ templatePage' = [over EXCEPT !.fetch = "none", !.got = NoneSeen, !.shown = page.got, !.failed = FALSE]
        /\ page.fetch = "read"
    BY <1>7, <2>1 DEF ShowTemplates, Fetched, Page
  <2>3. /\ templatePage' \in Page /\ templatePage'.pc = over.pc /\ templatePage'.order = over.order
        /\ templatePage'.target = over.target /\ templatePage'.made = over.made
        /\ templatePage'.from = over.from /\ templatePage'.edited = over.edited
        /\ templatePage'.shown = page.got /\ templatePage'.got = NoneSeen /\ templatePage'.fetch = "none"
    BY <1>2, <2>2 DEF Page
  <2>4. /\ over.order \subseteq page.order /\ over.target \subseteq page.target
        /\ over.made = page.made /\ over.from = page.from /\ over.edited = page.edited
        /\ over.shown = page.shown /\ (over.pc = "made" <=> page.pc = "made")
    BY <1>5, <2>1
  <2>5. /\ \A o, p \in over.order : o = p
        /\ \A o, p \in over.target : o = p
        /\ \A o \in over.order \cup over.target : o.set \in DOMAIN templateSets
    BY <2>4 DEF PageSound
  <2>6. over.pc = "made" =>
         /\ over.made.set \in DOMAIN templateSets /\ over.made.swaps <= swaps
         /\ \A o \in over.order :
              /\ over.from = o.set
              /\ EntriesOf(over.made.set) \ EntriesOf(o.set) \subseteq {o.entry}
              /\ \A e \in EntriesOf(o.set) \ EntriesOf(over.made.set) : e = o.entry
    BY <2>4 DEF PageSound
  <2>7. over.edited <= swaps
    BY <2>4 DEF PageSound
  <2>8. page.got.set \in 0 .. Len(templateSets) /\ over.edited <= page.got.swaps
    BY <2>2, <2>4 DEF PageSound
  <2> HIDE DEF page
  <2> QED BY <1>1, <1>2, <2>3, <2>5, <2>6, <2>7, <2>8 DEF PageSound, EntriesOf
<1>8. CASE FetchFails
  <2>1. PICK over \in Page : over = EditOver(page)
    BY <1>6
  <2>2. templatePage' = [over EXCEPT !.fetch = "none", !.got = NoneSeen, !.failed = TRUE]
    BY <1>8, <2>1 DEF FetchFails, Fetched, Page
  <2>3. /\ templatePage' \in Page /\ templatePage'.pc = over.pc /\ templatePage'.order = over.order
        /\ templatePage'.target = over.target /\ templatePage'.made = over.made
        /\ templatePage'.from = over.from /\ templatePage'.edited = over.edited
        /\ templatePage'.shown = over.shown /\ templatePage'.got = NoneSeen /\ templatePage'.fetch = "none"
        /\ templatePage'.failed
    BY <1>2, <2>2 DEF Page
  <2>4. /\ over.order \subseteq page.order /\ over.target \subseteq page.target
        /\ over.made = page.made /\ over.from = page.from /\ over.edited = page.edited
        /\ over.shown = page.shown /\ (over.pc = "made" <=> page.pc = "made")
    BY <1>5, <2>1
  <2>5. /\ \A o, p \in over.order : o = p
        /\ \A o, p \in over.target : o = p
        /\ \A o \in over.order \cup over.target : o.set \in DOMAIN templateSets
    BY <2>4 DEF PageSound
  <2>6. over.pc = "made" =>
         /\ over.made.set \in DOMAIN templateSets /\ over.made.swaps <= swaps
         /\ \A o \in over.order :
              /\ over.from = o.set
              /\ EntriesOf(over.made.set) \ EntriesOf(o.set) \subseteq {o.entry}
              /\ \A e \in EntriesOf(o.set) \ EntriesOf(over.made.set) : e = o.entry
    BY <2>4 DEF PageSound
  <2>7. over.edited <= swaps
    BY <2>4 DEF PageSound
  <2>8. over.shown.set \in 0 .. Len(templateSets)
    BY <2>4 DEF PageSound
  <2> HIDE DEF page
  <2> QED BY <1>1, <1>2, <2>3, <2>5, <2>6, <2>7, <2>8 DEF PageSound, EntriesOf
<1>9. CASE CloseEntry
  <2>1. templatePage' = [page EXCEPT !.target = {}]
    BY <1>9 DEF CloseEntry
  <2> QED BY <1>1, <1>2, <2>1 DEF Page, PageSound, EntriesOf
<1>10. CASE ConfirmDelete
  <2>1. templatePage' = [page EXCEPT !.pc = "delete", !.order = page.target] /\ page.pc = "idle"
    BY <1>10 DEF ConfirmDelete
  <2> QED BY <1>1, <1>2, <2>1 DEF Page, PageSound, EntriesOf
<1>11. CASE EditFails
  <2>1. /\ templatePage' = [page EXCEPT !.pc = "idle", !.order = {}, !.from = 0, !.made = NoneSeen]
        /\ page.pc # "refetch"
    BY <1>11 DEF EditFails
  <2> QED BY <1>1, <1>2, <2>1 DEF Page, PageSound, EntriesOf
<1>12. CASE EditAnswered
  <2>1. /\ page.pc = "made"
        /\ templatePage' = [page EXCEPT !.pc = "refetch", !.fetch = "asked", !.edited = page.made.swaps,
                                        !.from = 0, !.made = NoneSeen]
    BY <1>12 DEF EditAnswered, Invalidated
  <2> QED BY <1>1, <1>2, <2>1 DEF Page, PageSound, EntriesOf
<1>13. ASSUME NEW s \in {page.shown.set} \ {0}, NEW e \in EntriesOf(s), OpenEntry(e)
       PROVE  PageTyped' /\ PageSound'
  <2> DEFINE opened == [set |-> page.shown.set, entry |-> e]
  <2>1. templatePage' = [page EXCEPT !.target = {opened}]
    BY <1>13 DEF OpenEntry
  <2>2. page.shown.set \in DOMAIN templateSets /\ page.shown.set \in Versions
    BY <1>1, <1>2, <1>13 DEF PageSound, Seen
  <2>3. e \in TemplateEntry
    BY <1>13, <2>2, EntriesTyped
  <2>4. opened \in Order /\ opened.set \in DOMAIN templateSets
    BY <2>2, <2>3 DEF Order
  <2> HIDE DEF opened
  <2> QED BY <1>1, <1>2, <2>1, <2>4 DEF Page, PageSound, EntriesOf
<1>14. ASSUME NEW item \in TemplateItems, SubmitEntry(item)
       PROVE  PageTyped' /\ PageSound'
  <2> DEFINE created == [set |-> page.shown.set, entry |-> StoredEntry(item, {}, 0)]
  <2>1. /\ templatePage' = [page EXCEPT !.pc = "create", !.order = {created}]
        /\ page.pc = "idle" /\ page.shown.set # 0
    BY <1>14 DEF SubmitEntry
  <2>2. page.shown.set \in DOMAIN templateSets /\ page.shown.set \in Versions
    BY <1>1, <1>2, <2>1 DEF PageSound, Seen
  <2>3. StoredEntry(item, {}, 0) \in TemplateEntry
    BY EntryStored
  <2>4. created \in Order /\ created.set \in DOMAIN templateSets
    BY <2>2, <2>3 DEF Order
  <2> HIDE DEF created
  <2> QED BY <1>1, <1>2, <2>1, <2>4 DEF Page, PageSound, EntriesOf
<1> QED BY <1>3, <1>4, <1>7, <1>8, <1>9, <1>10, <1>11, <1>12, <1>13, <1>14

-----------------------------------------------------------------------------
(* The preprocessing                                                           *)
JobTyped == snapshot \in SUBSET Instructions /\ finished \in BOOLEAN /\ attempt \in [Preprocessors -> Attempt]

LEMMA JobUndisturbed ==
    ASSUME StoreTyped, StoreTyped', Grown, JobTyped, AttemptsSound, UNCHANGED jobVars
    PROVE  JobTyped' /\ AttemptsSound'
<1>1. snapshot' = snapshot /\ finished' = finished /\ attempt' = attempt
  BY DEF jobVars
<1>2. \A w \in Preprocessors : attempt[w].cached \in Nat
  BY EntriesAssumption DEF JobTyped, Attempt, Versions, EntriesAssumption
<1>3. Len(templateSets) \in Nat /\ Len(templateSets') \in Nat /\ Len(templateSets) <= Len(templateSets')
  BY DEF StoreTyped, Grown
<1>4. \A w \in Preprocessors : attempt[w].cached <= Len(templateSets')
  BY <1>2, <1>3 DEF AttemptsSound
<1> QED BY <1>1, <1>4 DEF JobTyped, AttemptsSound

\* Every text that a version or a valid index has to offer renders.
LEMMA ChoicesRender ==
    ASSUME StoreTyped, UsableSets, NEW s \in 0 .. Len(templateSets), NEW choices,
           choices \in {StoredTexts(s), {}}
                       \cup {IndexTexts(items) : items \in {l \in TemplateLists : ValidIndex(l)}}
    PROVE  choices \subseteq Instructions /\ \A text \in choices : Renders(text)
<1>1. CASE choices = StoredTexts(s)
  <2>1. CASE s = 0
    BY <1>1, <2>1 DEF StoredTexts
  <2>2. CASE s # 0
    <3>1. s \in DOMAIN templateSets
      BY <2>2 DEF StoreTyped
    <3>2. EntriesOf(s) \in SUBSET TemplateEntry /\ UsableEntries(EntriesOf(s))
      BY <3>1, EntriesTyped DEF UsableSets
    <3>3. choices = {e.text : e \in EntriesOf(s)}
      BY <1>1, <2>2 DEF StoredTexts
    <3> QED BY <3>2, <3>3 DEF TemplateEntry, UsableEntries, LegalEntry, LegalInstruction, Renders
  <2> QED BY <2>1, <2>2
<1>2. CASE choices = {}
  BY <1>2
<1>3. ASSUME NEW items \in TemplateLists, ValidIndex(items), choices = IndexTexts(items)
      PROVE  choices \subseteq Instructions /\ \A text \in choices : Renders(text)
  <2>1. items \in Seq(TemplateItems)
    BY EntriesAssumption DEF EntriesAssumption
  <2>2. ASSUME NEW i \in DOMAIN items
        PROVE  items[i].text \in Instructions /\ Renders(items[i].text)
    <3>1. items[i] \in TemplateItems
      BY <2>1
    <3>2. items[i].text \in Instructions
      BY <3>1, EntriesAssumption DEF EntriesAssumption
    <3> QED BY <1>3, <3>2 DEF ValidIndex, LegalFile, Renders
  <2> QED BY <1>3, <2>2 DEF IndexTexts
<1> QED BY <1>1, <1>2, <1>3

\* A step of one attempt that keeps to these rules keeps everything.
LEMMA AttemptMoves ==
    ASSUME StoreTyped, JobTyped, AttemptsSound,
           NEW w \in Preprocessors, NEW change \in Attempt, NEW kept \in SUBSET Instructions,
           attempt' = [attempt EXCEPT ![w] = change], snapshot' = kept, finished' \in BOOLEAN,
           templateSets' = templateSets,
           snapshot # {} => kept = snapshot,
           \A text \in kept \cup change.choices \cup change.kept \cup change.text : Renders(text),
           change.pc # "unrendered", change.cached <= Len(templateSets),
           change.pc \in {"templates", "select"} => change.kept = {},
           change.pc # "idle" /\ change.kept # {} => change.text = change.kept /\ kept = change.kept
    PROVE  JobTyped' /\ AttemptsSound'
<1>1. JobTyped'
  BY DEF JobTyped
<1>2. /\ DOMAIN attempt = Preprocessors
      /\ \A v \in Preprocessors : attempt'[v] = IF v = w THEN change ELSE attempt[v]
  BY DEF JobTyped
<1>3. ASSUME NEW v \in Preprocessors
      PROVE  /\ attempt'[v].pc # "unrendered"
             /\ attempt'[v].cached <= Len(templateSets')
             /\ \A text \in attempt'[v].choices \cup attempt'[v].kept \cup attempt'[v].text : Renders(text)
             /\ attempt'[v].pc \in {"templates", "select"} => attempt'[v].kept = {}
             /\ attempt'[v].pc # "idle" /\ attempt'[v].kept # {} =>
                  attempt'[v].text = attempt'[v].kept /\ snapshot' = attempt'[v].kept
  <2>1. CASE v = w
    BY <1>2, <2>1
  <2>2. CASE v # w
    <3>1. attempt'[v] = attempt[v]
      BY <1>2, <2>2
    <3> QED BY <3>1 DEF AttemptsSound
  <2> QED BY <2>1, <2>2
<1> QED BY <1>1, <1>3 DEF AttemptsSound

LEMMA JobKeeps ==
    ASSUME StoreTyped, UsableSets, JobTyped, AttemptsSound, JobNext
    PROVE  JobTyped' /\ AttemptsSound' /\ UNCHANGED <<storeVars, templatePage>>
<1>1. PICK w \in Preprocessors :
        \/ CacheFills(w) \/ BeginAttempt(w) \/ TemplatesRead(w) \/ SelectTemplate(w)
        \/ RenderTemplate(w) \/ OptimizePrompt(w) \/ AttemptFails(w)
  BY DEF JobNext
<1> DEFINE old == attempt[w]
<1>2. /\ old \in Attempt /\ old.cached \in Nat /\ snapshot \subseteq Instructions /\ finished \in BOOLEAN
      /\ Len(templateSets) \in Nat /\ Len(templateSets) <= MaxTemplateSets /\ MaxTemplateSets \in Nat
      /\ activeSet \in 0 .. Len(templateSets)
  BY EntriesAssumption DEF JobTyped, Attempt, Versions, StoreTyped, EntriesAssumption
<1>3. /\ old.pc # "unrendered" /\ old.cached <= Len(templateSets)
      /\ \A text \in snapshot \cup old.choices \cup old.kept \cup old.text : Renders(text)
      /\ old.pc \in {"templates", "select"} => old.kept = {}
      /\ old.pc # "idle" /\ old.kept # {} => old.text = old.kept /\ snapshot = old.kept
  BY DEF AttemptsSound
<1>4. templateSets' = templateSets /\ UNCHANGED <<storeVars, templatePage>>
  BY <1>1 DEF CacheFills, BeginAttempt, TemplatesRead, SelectTemplate, RenderTemplate, OptimizePrompt,
              AttemptFails, AttemptAt, storeVars
<1>5. CASE CacheFills(w)
  <2> DEFINE change == [old EXCEPT !.cached = activeSet]
  <2>1. attempt' = [attempt EXCEPT ![w] = change] /\ UNCHANGED <<snapshot, finished>>
    BY <1>5 DEF CacheFills, AttemptAt
  <2>2. /\ change \in Attempt /\ change.pc = old.pc /\ change.cached = activeSet
        /\ change.choices = old.choices /\ change.kept = old.kept /\ change.text = old.text
    BY <1>2 DEF Attempt, Versions
  <2>3. change.cached <= Len(templateSets) /\ snapshot \in SUBSET Instructions /\ snapshot' = snapshot
        /\ finished' \in BOOLEAN
    BY <1>2, <2>1, <2>2
  <2>4. \A text \in snapshot \cup change.choices \cup change.kept \cup change.text : Renders(text)
    BY <1>3, <2>2
  <2>5. /\ change.pc \in {"templates", "select"} => change.kept = {}
        /\ change.pc # "unrendered"
        /\ change.pc # "idle" /\ change.kept # {} => change.text = change.kept /\ snapshot = change.kept
    BY <1>3, <2>2
  <2> HIDE DEF change, old
  <2> QED BY <1>4, <2>1, <2>2, <2>3, <2>4, <2>5, AttemptMoves
<1>6. CASE BeginAttempt(w)
  <2> DEFINE pc == IF snapshot = {} THEN "templates" ELSE "render"
             change == [old EXCEPT !.pc = pc, !.choices = {}, !.kept = snapshot, !.text = snapshot]
  <2>1. attempt' = [attempt EXCEPT ![w] = change] /\ UNCHANGED <<snapshot, finished>>
    BY <1>6 DEF BeginAttempt, AttemptAt
  <2>2. pc \in {"templates", "render"} /\ (pc = "templates" => snapshot = {})
    OBVIOUS
  <2> HIDE DEF pc
  <2>3. /\ change \in Attempt /\ change.pc = pc /\ change.cached = old.cached
        /\ change.choices = {} /\ change.kept = snapshot /\ change.text = snapshot
    BY <1>2, <2>2 DEF Attempt
  <2> HIDE DEF change
  <2> QED BY <1>2, <1>3, <1>4, <2>1, <2>2, <2>3, AttemptMoves
<1>7. CASE TemplatesRead(w)
  <2>1. PICK choices \in {StoredTexts(old.cached), {}}
                         \cup {IndexTexts(items) : items \in {l \in TemplateLists : ValidIndex(l)}} :
          AttemptAt(w, "templates",
              [old EXCEPT !.pc = IF choices = {} THEN "render" ELSE "select", !.choices = choices])
    BY <1>7 DEF TemplatesRead
  <2>2. old.cached \in 0 .. Len(templateSets)
    BY <1>2, <1>3
  <2>3. choices \subseteq Instructions /\ \A text \in choices : Renders(text)
    BY <2>1, <2>2, ChoicesRender
  <2> DEFINE pc == IF choices = {} THEN "render" ELSE "select"
             change == [old EXCEPT !.pc = pc, !.choices = choices]
  <2>4. attempt' = [attempt EXCEPT ![w] = change] /\ UNCHANGED <<snapshot, finished>> /\ old.pc = "templates"
    BY <1>7, <2>1 DEF TemplatesRead, AttemptAt
  <2>5. pc \in {"render", "select"}
    OBVIOUS
  <2> HIDE DEF pc
  <2>6. /\ change \in Attempt /\ change.pc = pc /\ change.cached = old.cached
        /\ change.choices = choices /\ change.kept = old.kept /\ change.text = old.text
    BY <1>2, <2>3, <2>5 DEF Attempt
  <2> HIDE DEF change
  <2> QED BY <1>2, <1>3, <1>4, <2>3, <2>4, <2>5, <2>6, AttemptMoves
<1>8. ASSUME NEW text \in old.choices, old.pc = "select", snapshot' = KeptText(text), finished' = finished,
             attempt' = [attempt EXCEPT ![w] = [old EXCEPT !.pc = "render", !.text = {text}]]
      PROVE  JobTyped' /\ AttemptsSound'
  <2> DEFINE change == [old EXCEPT !.pc = "render", !.text = {text}]
  <2>1. attempt' = [attempt EXCEPT ![w] = change] /\ old.pc = "select"
    BY <1>8
  <2>2. text \in Instructions /\ Renders(text) /\ old.kept = {}
    BY <1>2, <1>3, <2>1 DEF Attempt
  <2>3. /\ change \in Attempt /\ change.pc = "render" /\ change.cached = old.cached
        /\ change.choices = old.choices /\ change.kept = {} /\ change.text = {text}
    BY <1>2, <2>2 DEF Attempt
  <2>4. /\ KeptText(text) \in SUBSET Instructions
        /\ (snapshot # {} => KeptText(text) = snapshot)
        /\ \A t \in KeptText(text) : Renders(t)
    BY <1>2, <1>3, <2>2 DEF KeptText
  <2>5. /\ \A t \in KeptText(text) \cup change.choices \cup change.kept \cup change.text : Renders(t)
        /\ change.cached <= Len(templateSets) /\ finished' \in BOOLEAN
    BY <1>2, <1>3, <1>8, <2>2, <2>3, <2>4
  <2> HIDE DEF change, old
  <2> QED BY <1>4, <1>8, <2>1, <2>3, <2>4, <2>5, AttemptMoves
<1>9. ASSUME old.pc = "select", UNCHANGED <<snapshot, finished>>,
             attempt' = [attempt EXCEPT ![w] = [old EXCEPT !.pc = "render"]]
      PROVE  JobTyped' /\ AttemptsSound'
  <2> DEFINE change == [old EXCEPT !.pc = "render"]
  <2>1. attempt' = [attempt EXCEPT ![w] = change] /\ old.pc = "select"
    BY <1>9
  <2>2. /\ change \in Attempt /\ change.pc = "render" /\ change.cached = old.cached
        /\ change.choices = old.choices /\ change.kept = old.kept /\ change.text = old.text
    BY <1>2 DEF Attempt
  <2> HIDE DEF change
  <2> QED BY <1>2, <1>3, <1>4, <1>9, <2>1, <2>2, AttemptMoves
<1>10. CASE SelectTemplate(w)
  <2>1. finished' = finished
    BY <1>10 DEF SelectTemplate
  <2>2. CASE AttemptAt(w, "select", [attempt[w] EXCEPT !.pc = "render"]) /\ UNCHANGED snapshot
    <3>1. old.pc = "select" /\ attempt' = [attempt EXCEPT ![w] = [old EXCEPT !.pc = "render"]]
      BY <2>2 DEF AttemptAt
    <3> QED BY <1>4, <1>9, <2>1, <2>2, <3>1
  <2>3. ASSUME NEW text \in attempt[w].choices, snapshot' = KeptText(text),
               AttemptAt(w, "select", [attempt[w] EXCEPT !.pc = "render", !.text = {text}])
        PROVE  JobTyped' /\ AttemptsSound'
    <3>1. old.pc = "select" /\ attempt' = [attempt EXCEPT ![w] = [old EXCEPT !.pc = "render", !.text = {text}]]
      BY <2>3 DEF AttemptAt
    <3> QED BY <1>8, <2>1, <2>3, <3>1
  <2> QED BY <1>4, <1>10, <2>2, <2>3 DEF SelectTemplate
<1>11. CASE RenderTemplate(w)
  <2> DEFINE change == [old EXCEPT !.pc = "optimize"]
  <2>1. \A text \in old.text : Renders(text)
    BY <1>3
  <2>2. attempt' = [attempt EXCEPT ![w] = change] /\ UNCHANGED <<snapshot, finished>> /\ old.pc = "render"
    BY <1>11, <2>1 DEF RenderTemplate, AttemptAt
  <2>3. /\ change \in Attempt /\ change.pc = "optimize" /\ change.cached = old.cached
        /\ change.choices = old.choices /\ change.kept = old.kept /\ change.text = old.text
    BY <1>2 DEF Attempt
  <2> HIDE DEF change
  <2> QED BY <1>2, <1>3, <1>4, <2>2, <2>3, AttemptMoves
<1>12. ASSUME OptimizePrompt(w) \/ AttemptFails(w)
       PROVE  JobTyped' /\ AttemptsSound'
  <2> DEFINE change == [old EXCEPT !.pc = "idle"]
  <2>1. attempt' = [attempt EXCEPT ![w] = change] /\ snapshot' = snapshot /\ finished' \in BOOLEAN
    BY <1>2, <1>12 DEF OptimizePrompt, AttemptFails, AttemptAt
  <2>2. /\ change \in Attempt /\ change.pc = "idle" /\ change.cached = old.cached
        /\ change.choices = old.choices /\ change.kept = old.kept /\ change.text = old.text
    BY <1>2 DEF Attempt
  <2> HIDE DEF change
  <2> QED BY <1>2, <1>3, <1>4, <2>1, <2>2, AttemptMoves
<1> QED BY <1>1, <1>4, <1>5, <1>6, <1>7, <1>10, <1>11, <1>12
-----------------------------------------------------------------------------
(* The invariant                                                               *)
\* What is stored is well formed, what the page knows is a version that was made, and what an
\* attempt holds renders.
EntriesInv == StoreTyped /\ UsableSets /\ PageTyped /\ PageSound /\ JobTyped /\ AttemptsSound

LEMMA EntriesInitially ==
    ASSUME EntriesInit
    PROVE  EntriesInv
<1>1. /\ MaxTemplateSets \in Nat /\ MaxSwaps \in Nat /\ templateSets = <<>> /\ activeSet = 0 /\ swaps = 0
      /\ 0 \in Versions /\ NoneSeen \in Seen /\ NoneSeen.set = 0 /\ NoneSeen.swaps = 0
  BY EntriesAssumption DEF EntriesAssumption, EntriesInit, Versions, Seen, NoneSeen
<1>2. StoreTyped /\ UsableSets
  BY <1>1 DEF StoreTyped, UsableSets
<1>3. PageTyped
  BY <1>1 DEF EntriesInit, PageTyped, Page
<1>4. PageSound
  BY <1>1 DEF EntriesInit, PageSound
<1>5. NoAttempt \in Attempt /\ NoAttempt.pc = "idle" /\ NoAttempt.cached = 0
      /\ NoAttempt.choices = {} /\ NoAttempt.kept = {} /\ NoAttempt.text = {}
  BY <1>1 DEF NoAttempt, Attempt
<1>6. JobTyped /\ AttemptsSound
  <2>1. /\ snapshot = {} /\ finished = FALSE /\ attempt = [w \in Preprocessors |-> NoAttempt]
        /\ Len(templateSets) = 0
    BY <1>1 DEF EntriesInit
  <2>2. \A w \in Preprocessors : attempt[w] = NoAttempt
    BY <2>1
  <2>3. JobTyped
    BY <1>5, <2>1 DEF JobTyped
  <2> QED BY <1>5, <2>1, <2>2, <2>3 DEF AttemptsSound
<1> QED BY <1>2, <1>3, <1>4, <1>6 DEF EntriesInv

LEMMA EntriesKept ==
    ASSUME EntriesInv, [EntriesNext]_entryVars
    PROVE  EntriesInv'
<1> USE DEF EntriesInv
<1>1. CASE DoorsNext
  <2>1. StoreTyped' /\ UsableSets' /\ Grown /\ templatePage' = templatePage /\ UNCHANGED jobVars
    BY <1>1, DoorsKeep
  <2> QED BY <2>1, PageUndisturbed, JobUndisturbed
<1>2. CASE EditServed
  <2>1. StoreTyped' /\ UsableSets' /\ Grown /\ PageTyped' /\ PageSound' /\ UNCHANGED jobVars
    BY <1>2, EditMade
  <2> QED BY <2>1, JobUndisturbed
<1>3. ASSUME UNCHANGED <<storeVars, jobVars>>
      PROVE  StoreTyped' /\ UsableSets' /\ JobTyped' /\ AttemptsSound'
  BY <1>3 DEF storeVars, jobVars, StoreTyped, UsableSets, EntriesOf, JobTyped, AttemptsSound
<1>4. CASE PageNext /\ ~ EditServed
  <2>1. \/ RefetchTemplates \/ ReadTemplates \/ ShowTemplates \/ FetchFails
        \/ CloseEntry \/ ConfirmDelete \/ EditFails \/ EditAnswered
        \/ \E s \in {templatePage.shown.set} \ {0} : \E e \in EntriesOf(s) : OpenEntry(e)
        \/ \E item \in TemplateItems : SubmitEntry(item)
    BY <1>4 DEF PageNext
  <2>2. UNCHANGED <<storeVars, jobVars>>
    BY <2>1 DEF RefetchTemplates, ReadTemplates, ShowTemplates, FetchFails, CloseEntry, ConfirmDelete,
                EditFails, EditAnswered, OpenEntry, SubmitEntry, OnlyPage
  <2>3. templateSets' = templateSets /\ swaps' = swaps
    BY <2>2 DEF storeVars
  <2>4. PageTyped' /\ PageSound'
    BY <2>1, <2>3, PageKeeps
  <2> QED BY <1>3, <2>2, <2>4
<1>5. CASE JobNext
  <2>1. JobTyped' /\ AttemptsSound' /\ UNCHANGED <<storeVars, templatePage>>
    BY <1>5, JobKeeps
  <2>2. StoreTyped' /\ UsableSets' /\ PageTyped' /\ PageSound'
    BY <2>1 DEF storeVars, StoreTyped, UsableSets, EntriesOf, PageTyped, PageSound
  <2> QED BY <2>1, <2>2
<1>6. CASE UNCHANGED entryVars
  <2>1. UNCHANGED <<storeVars, jobVars>> /\ templatePage' = templatePage /\ templateSets' = templateSets
        /\ swaps' = swaps
    BY <1>6 DEF entryVars, storeVars
  <2>2. PageTyped' /\ PageSound'
    BY <2>1 DEF PageTyped, PageSound, EntriesOf
  <2> QED BY <1>3, <2>1, <2>2
<1> QED BY <1>1, <1>2, <1>4, <1>5, <1>6 DEF EntriesNext

LEMMA EntriesImplied ==
    ASSUME EntriesInv
    PROVE  TemplateEntriesSound
<1>1. EntriesUsable
  BY DEF EntriesInv, UsableSets, UsableEntries, AttemptsSound, EntriesUsable
<1>2. ExportsReturn
  <2>1. SUFFICES ASSUME NEW s \in DOMAIN templateSets, NEW items \in Exports(EntriesOf(s))
                 PROVE  AcceptedImport(items) /\ ImportedEntries(items) = EntriesOf(s)
    BY DEF ExportsReturn
  <2>2. EntriesOf(s) \in SUBSET TemplateEntry /\ UsableEntries(EntriesOf(s))
    BY EntriesTyped DEF EntriesInv, UsableSets
  <2> QED BY <2>2, ExportReturns
<1>3. PageFollows
  BY DEF EntriesInv, PageSound, PageFollows
<1>4. SnapshotWins
  BY DEF EntriesInv, AttemptsSound, SnapshotWins
<1> QED BY <1>1, <1>2, <1>3, <1>4 DEF TemplateEntriesSound

\* prompt-templates.ts, admin-prompt-templates-view.tsx and preprocessing/index.ts, whatever is
\* imported, activated, edited, fetched and preprocessed meanwhile: every version holds legal
\* entries with names of their own and is let in again as it was exported, the page edits only
\* what it showed and shows what its edit made, and a text that was kept for a job is what its
\* later attempts go by.
THEOREM EntriesStaySound == EntriesSpec => []TemplateEntriesSound
<1>1. EntriesInit => EntriesInv
  BY EntriesInitially
<1>2. EntriesInv /\ [EntriesNext]_entryVars => EntriesInv'
  BY EntriesKept
<1>3. EntriesInv => TemplateEntriesSound
  BY EntriesImplied
<1> QED BY <1>1, <1>2, <1>3, PTL DEF EntriesSpec
=============================================================================
