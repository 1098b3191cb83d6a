------------------------------ MODULE SetupFlow ------------------------------
(***************************************************************************)
(* First-run setup: the singleton onboarding_state with its one-time claim     *)
(* code and its required sections, the setup sessions, and the requests that    *)
(* create the first administrator and complete the setup.  The sections of the   *)
(* settings rows are marked by RuntimeSettings; here they come and go.            *)
(***************************************************************************)
EXTENDS Naturals, FiniteSets

CONSTANTS
    SetupRequests,   \* setup requests under way
    MaxCodes,        \* bound on claim codes installed
    MaxAttempts      \* DEFAULT_SETUP_CLAIM_MAX_ATTEMPTS

ASSUME SetupAssumption == MaxCodes \in Nat /\ MaxAttempts \in Nat

VARIABLES
    onboarding,      \* status and required sections of onboarding_state
    claim,           \* its claim code
    setupSessions,   \* unconsumed, unexpired setup_sessions
    swept,           \* a completion has consumed every session
    admins,          \* active administrators
    setup            \* per request: how far it got

setupVars == <<onboarding, claim, setupSessions, swept, admins, setup>>

SettingsSections == {"plain", "tested"}   \* site and runtime; smtp and storage
RequiredSections == {"bootstrap", "admin"} \cup SettingsSections
Claim == [ state : {"none", "live", "expired", "consumed"}, attempts : 0 .. MaxAttempts,
           codes : 0 .. MaxCodes ]

SetupTypeOK ==
    /\ onboarding \in [complete : BOOLEAN, done : SUBSET RequiredSections]
    /\ claim \in Claim
    /\ setupSessions \in 0 .. MaxCodes /\ swept \in BOOLEAN
    /\ admins \in 0 .. Cardinality(SetupRequests)
    /\ setup \in [SetupRequests -> {"idle", "claim", "admin", "complete", "sweep"}]

SetupInit ==
    /\ onboarding = [complete |-> FALSE, done |-> {}]
    /\ claim = [state |-> "none", attempts |-> 0, codes |-> 0]
    /\ setupSessions = 0 /\ swept = FALSE /\ admins = 0
    /\ setup = [r \in SetupRequests |-> "idle"]

\* A session while onboarding is open, or an administrator.
hasSetupAccess == (setupSessions > 0 /\ ~ onboarding.complete) \/ admins > 0

At(r, from, to) ==
    /\ setup[r] = from
    /\ setup' = [setup EXCEPT ![r] = to]
-----------------------------------------------------------------------------
(* setupStatus                                                                 *)
\* The bootstrap section, when the diagnostics are ready, best effort.
MarkBootstrap ==
    /\ ~ onboarding.complete /\ "bootstrap" \notin onboarding.done
    /\ onboarding' = [onboarding EXCEPT !.done = @ \cup {"bootstrap"}]
    /\ UNCHANGED <<claim, setupSessions, swept, admins, setup>>

\* Under the row lock: no code while one is live, or while a session is valid.
ensureSetupClaim ==
    /\ ~ onboarding.complete
    /\ claim.state # "live"
    /\ claim.state = "consumed" => setupSessions = 0
    /\ claim.codes < MaxCodes
    /\ claim' = [state |-> "live", attempts |-> 0, codes |-> claim.codes + 1]
    /\ UNCHANGED <<onboarding, setupSessions, swept, admins, setup>>

ClaimExpires ==
    /\ claim.state = "live"
    /\ claim' = [claim EXCEPT !.state = "expired"]
    /\ UNCHANGED <<onboarding, setupSessions, swept, admins, setup>>

SetupSessionExpires ==
    /\ setupSessions > 0
    /\ setupSessions' = setupSessions - 1
    /\ UNCHANGED <<onboarding, claim, swept, admins, setup>>
-----------------------------------------------------------------------------
(* setupClaim                                                                  *)
\* The status is read before the transaction, and may change until it runs.
BeginClaim(r) ==
    /\ ~ onboarding.complete
    /\ At(r, "idle", "claim")
    /\ UNCHANGED <<onboarding, claim, setupSessions, swept, admins>>

\* Mutant: the transaction does not look at the status it read with the claim.
OpensSessionAlways == TRUE

\* next.status: a completed onboarding gets no session.
OpensSession == ~ onboarding.complete

\* verifyAndConsumeSetupClaim and createSetupSession, in one transaction that holds the
\* row lock; the claim is consumed with or without a session.
ConsumeClaim(r) ==
    /\ claim.state = "live" /\ claim.attempts < MaxAttempts
    /\ At(r, "claim", "idle")
    /\ claim' = [claim EXCEPT !.state = "consumed"]
    /\ setupSessions' = IF OpensSession THEN setupSessions + 1 ELSE setupSessions
    /\ UNCHANGED <<onboarding, swept, admins>>

\* A wrong code is counted while the claim is live; attempts over the limit are not
\* told apart.
RefuseClaim(r) ==
    /\ At(r, "claim", "idle")
    /\ claim' = IF claim.state = "live" /\ claim.attempts < MaxAttempts
                  THEN [claim EXCEPT !.attempts = @ + 1] ELSE claim
    /\ UNCHANGED <<onboarding, setupSessions, swept, admins>>
-----------------------------------------------------------------------------
(* Sections, the first administrator, and completion                           *)
\* updateSiteSettings and updateRuntimeSettings complete their section; a connection test
\* completes smtp or storage and a later change of the settings reopens it.
MarkSection(s) ==
    /\ hasSetupAccess
    /\ \/ onboarding' = [onboarding EXCEPT !.done = @ \cup {s}]
       \/ s = "tested" /\ onboarding' = [onboarding EXCEPT !.done = @ \ {s}]
    /\ UNCHANGED <<claim, setupSessions, swept, admins, setup>>

\* setupAdminVerify: the code is right and the transaction found no administrator.
BeginAdmin(r) ==
    /\ hasSetupAccess /\ admins = 0
    /\ At(r, "idle", "admin")
    /\ UNCHANGED <<onboarding, claim, setupSessions, swept, admins>>

\* Another transaction may have inserted one since: there is no lock.
CreateAdmin(r) ==
    /\ At(r, "admin", "idle")
    /\ onboarding' = [onboarding EXCEPT !.done = @ \cup {"admin"}]
    /\ admins' = admins + 1
    /\ UNCHANGED <<claim, setupSessions, swept>>

\* Disabled or deleted, which the sections do not notice.
AdminLeaves ==
    /\ admins > 0 /\ admins' = admins - 1
    /\ UNCHANGED <<onboarding, claim, setupSessions, swept, setup>>

BeginComplete(r) ==
    /\ hasSetupAccess
    /\ At(r, "idle", "complete")
    /\ UNCHANGED <<onboarding, claim, setupSessions, swept, admins>>

\* Under the row lock; an onboarding completed before counts as completed.
tryCompleteOnboarding(r) ==
    /\ \/ /\ onboarding.complete \/ (onboarding.done = RequiredSections /\ admins > 0)
          /\ onboarding' = [onboarding EXCEPT !.complete = TRUE]
          /\ At(r, "complete", "sweep")
       \/ /\ ~ onboarding.complete /\ (onboarding.done # RequiredSections \/ admins = 0)
          /\ At(r, "complete", "idle")     \* SETUP_INCOMPLETE
          /\ UNCHANGED onboarding
    /\ UNCHANGED <<claim, setupSessions, swept, admins>>

\* A failed sweep is caught: the sessions that are left expire.
SweepSessions(r) ==
    /\ At(r, "sweep", "idle")
    /\ \/ setupSessions' = 0 /\ swept' = TRUE
       \/ UNCHANGED <<setupSessions, swept>>
    /\ UNCHANGED <<onboarding, claim, admins>>

SetupSteps(r) ==
    \/ BeginClaim(r) \/ ConsumeClaim(r) \/ RefuseClaim(r)
    \/ BeginAdmin(r) \/ CreateAdmin(r)
    \/ BeginComplete(r) \/ tryCompleteOnboarding(r) \/ SweepSessions(r)

SetupNext ==
    \/ MarkBootstrap \/ ensureSetupClaim \/ ClaimExpires \/ SetupSessionExpires \/ AdminLeaves
    \/ \E s \in SettingsSections : MarkSection(s)
    \/ \E r \in SetupRequests : SetupSteps(r)

SetupSpec == SetupInit /\ [][SetupNext]_setupVars
-----------------------------------------------------------------------------
\* handlers.ts: "Sweep every remaining session so no setup access survives completion":
\* once a completion has swept, no claim under way opens another session; and at most one
\* session is ever valid, so one operator holds the setup.
SetupClosed ==
    /\ swept => onboarding.complete /\ setupSessions = 0
    /\ setupSessions <= 1
    /\ claim.state = "live" => setupSessions = 0 \/ onboarding.complete
=============================================================================
