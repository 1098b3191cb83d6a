\* Canvas: two runs and one confirmation; a user's turn and the turns of two job ends, of which one may run.
\* References: two files, two uploads; library: two assets, one of which is searched for.
\* Settings: two pages on one section, each section in turn.
SPECIFICATION WorkspaceSpec

CONSTANTS
    MaxRevision = 2
    Runs = {r1, r2}
    Confirmations = {c1}
    UserMessages = {m1}
    EventMessages = {e1, e2}
    MaxCalls = 2
    MaxRound = 1
    MaxFaults = 1
    MaxJobs = 1
    MaxContinuations = 1
    NoTurn = NoTurn
    NoToken = NoToken
    Capacities = {0, 2}
    GalleryAssets = {g1}
    MaxStagings = 2
    MaxUploadRows = 2
    RetryClicks = 1
    Gallery <- MCGallery
    PageSize = 1
    LibraryWords = {"w"}
    KindTabs = {"all"}
    MaxCached = 2
    MaxBatches = 1
    Consoles = {k1, k2}
    MaxSetting <- MCMaxSetting
    Environment <- MCEnvironment
    MaxSettingsRevision <- MCMaxSettingsRevision

INVARIANTS
    TurnsConsistent
    JobsWanted
    UploadsAccounted
    SelectionInFilter
    SettingsAgree

PROPERTIES
    TurnsStayOver
    DraftsKept

SYMMETRY Symmetry

\* Bounded saves, calls and messages run out.
CHECK_DEADLOCK FALSE
