\* Each service in turn, with two of whatever can race in it.
SPECIFICATION Spec

CONSTANTS
    Tabs = {t1, t2}
    Edits = {x1, x2, x3}
    MaxRevision = 4
    Operators = {o1, o2}
    Probers = {w1}
    Targets = {"a", "b"}
    MaxRequests = 2
    MaxSecrets = 2
    Editors = {a1, a2}
    Plugins = {"p", "q"}
    Secrets = {s1}
    MaxRevisions = 2
    Installers = {i1, i2}
    Loaders = {l1, l2}
    MaxStamp = 4
    SetupRequests = {r1, r2}
    MaxCodes = 2
    MaxAttempts = 2
    Savers = {v1, v2}
    SettingsReaders = {p1}
    Endpoints = {"a"}
    Keys = {"k"}
    MaxConfigRevision = 1
    TemplateEditors = {e1, e2}
    TemplateEdits = {"x", "y"}
    MaxVersion = 4
    Runners = {n1, n2}
    LastMigration = 3
    BaselineMax = 1
    NonTransactional = {1}
    MaxRuns = 3
    People = {u1}
    Visitors = {y1, y2}
    Invitations = {c1}
    MaxAccounts = 2
    MaxBlocks = 1
    MaxOtpCodes = 1
    MaxHops = 1
    MaxTries = 2
    Declarations <- MCDeclarations
    CanonicalNames <- MCCanonicalNames
    TypedValues <- MCTypedValues
    MaxInputs = 2
    MaxStaged = 2
    MaxPicks = 2
    MaxPublishes = 1
    SeedMax = 100
    Offers <- MCOffers
    Stagings <- MCStagings
    Drawings <- MCDrawings
    Replies <- MCReplies
    VendorExtras <- MCVendorExtras
    Uploads <- MCUploads
    MaxPackage = 100
    MaxUnpacked = 40
    MaxArtifact = 20
    MaxText = 6
    MaxIcon = 6
    MaxRatio = 4
    MaxEntries = 6
    MaxEdge = 4
    LowerCase <- MCLowerCase
    ClassOfBase <- MCClassOfBase
    MjsNames = {"plugin.mjs", "lib.mjs"}
    PngNames = {"icon.png", "more.PNG"}
    PluginIds <- MCPluginIds
    PluginVersions <- MCPluginVersions
    BuiltinMedia <- MCBuiltinMedia
    BuiltinLanguage <- MCBuiltinLanguage
    BuiltinProviders <- MCBuiltinProviders
    LastTemplateName = 2
    MaxSortOrder = 1
    MaxTemplates = 2
    MaxInstructionBytes = 2
    MaxFileBytes = 1
    KnownVariables = {"size"}
    Instructions <- MCInstructions
    TemplateItems <- MCTemplateItems
    TemplateLists <- MCTemplateLists
    Preprocessors = {q1, q2}
    MaxTemplateSets = 3
    MaxSwaps = 3

INVARIANTS
    TypeOK
    NoEditLost
    CredentialSound
    LatestNamesPlugin
    PluginStatusHonest
    SetupClosed
    SettingsHonest
    TemplatesConsistent
    MigrationsOrdered
    InvitationsHonoured
    CallsSound
    RefusedForWhatIsMissing
    StoredParametersLegal
    OrderHonoured
    PackageContained
    AcceptedLoads
    TemplateEntriesSound

SYMMETRY Symmetry

\* Bounded requests, codes and revisions run out.
CHECK_DEADLOCK FALSE
