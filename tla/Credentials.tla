----------------------------- MODULE Credentials -----------------------------
(***************************************************************************)
(* One provider credential: administrators change its target and its        *)
(* secret, ask for connectivity tests and delete it; workers claim, probe     *)
(* and settle the tests; an operator's script re-seals the stored secret.     *)
(*                                                                            *)
(* A test request is identified by its timestamp, here by a counter: two      *)
(* requests are at least a millisecond apart.  A secret is identified by the   *)
(* order in which secrets were stored.                                         *)
(***************************************************************************)
EXTENDS Naturals, Sequences

CONSTANTS
    Operators,    \* administrators' requests under way
    Probers,      \* worker processes
    Targets,      \* provider, schema, plugin and endpoint host, taken together
    MaxRequests,  \* bound on connectivity tests
    MaxSecrets    \* bound on secrets entered

ASSUME CredentialAssumption == MaxRequests \in Nat /\ MaxSecrets \in Nat \ {0}

VARIABLES
    credential,   \* the row of provider_credentials
    clicks,       \* test requests made so far
    probe,        \* per worker: the request it claimed and what it found
    awaiting,     \* per operator: the test whose outcome its request polls for
    editing,      \* per operator: the target its update or deletion read
    sealing,      \* the ciphertext the re-encryption script read
    entered,      \* the target each stored secret was entered for
    settled,      \* requests stamped and audited, in that order
    answers       \* [own |-> the request made, of |-> the request settled last]

credentialVars == <<credential, clicks, probe, awaiting, editing, sealing, entered, settled, answers>>

NoRequest == 0
Request == NoRequest .. MaxRequests
Ciphertext == [secret : 0 .. MaxSecrets, key : {"legacy", "current"}]
NoCiphertext == [secret |-> 0, key |-> "current"]
Credential == [ live : BOOLEAN, target : Targets, sealed : Ciphertext, requested : Request,
                claimed : {"no", "fresh", "stale"}, status : {"none", "pending", "success", "failed"} ]
NoProbe == [request |-> NoRequest, result |-> "none"]
Probe == [request : Request, result : {"none", "success", "failed"}]
NotEditing == [doing |-> "nothing", seen |-> {}]
Editing == [doing : {"nothing", "update", "delete"}, seen : SUBSET Targets]

CredentialTypeOK ==
    /\ credential \in Credential
    /\ clicks \in Request
    /\ probe \in [Probers -> Probe]
    /\ awaiting \in [Operators -> Request]
    /\ editing \in [Operators -> Editing]
    /\ sealing \in Ciphertext
    /\ entered \in Seq(Targets) /\ Len(entered) \in 1 .. MaxSecrets
    /\ settled \in Seq(Request)
    /\ answers \subseteq [own : Request, of : Request]

\* createProviderCredential stores target and secret in one row; rows written before the
\* current key existed are under the legacy key.
CredentialInit ==
    /\ \E t \in Targets, k \in {"legacy", "current"} :
         /\ credential = [ live |-> TRUE, target |-> t, sealed |-> [secret |-> 1, key |-> k],
                           requested |-> NoRequest, claimed |-> "no", status |-> "none" ]
         /\ entered = <<t>>
    /\ clicks = 0
    /\ probe = [w \in Probers |-> NoProbe]
    /\ awaiting = [o \in Operators |-> NoRequest]
    /\ editing = [o \in Operators |-> NotEditing]
    /\ sealing = NoCiphertext
    /\ settled = <<>>
    /\ answers = {}
-----------------------------------------------------------------------------
(* Connectivity tests                                                          *)
\* A new request supersedes the open one and frees its claim.
requestProviderCredentialTest(o) ==
    /\ awaiting[o] = NoRequest
    /\ credential.live
    /\ clicks < MaxRequests
    /\ clicks' = clicks + 1
    /\ credential' = [credential EXCEPT !.requested = clicks + 1, !.claimed = "no", !.status = "pending"]
    /\ awaiting' = [awaiting EXCEPT ![o] = clicks + 1]
    /\ UNCHANGED <<probe, editing, sealing, entered, settled, answers>>

claimProviderCredentialTests(w) ==
    /\ probe[w] = NoProbe
    /\ credential.live /\ credential.requested # NoRequest /\ credential.claimed # "fresh"
    /\ credential' = [credential EXCEPT !.claimed = "fresh"]
    /\ probe' = [probe EXCEPT ![w].request = credential.requested]
    /\ UNCHANGED <<clicks, awaiting, editing, sealing, entered, settled, answers>>

\* The probe fails before or at the provider, or succeeds.  A row deleted meanwhile is
\* left alone; an error the probe does not expect leaves the claim to go stale.
probeCredential(w) ==
    /\ probe[w].request # NoRequest /\ probe[w].result = "none"
    /\ \/ /\ credential.live
          /\ \E r \in {"success", "failed"} : probe' = [probe EXCEPT ![w].result = r]
       \/ probe' = [probe EXCEPT ![w] = NoProbe]
    /\ UNCHANGED <<credential, clicks, awaiting, editing, sealing, entered, settled, answers>>

\* Mutant: the outcome is stamped on whatever request is open.
SettlesAnyOpen(w) == credential.live /\ credential.requested # NoRequest

\* WHERE id=$1 AND deleted_at IS NULL AND test_requested_at = $4
Settles(w) == credential.live /\ credential.requested = probe[w].request

recordProviderCredentialTest(w) ==
    /\ probe[w].result # "none"
    /\ probe' = [probe EXCEPT ![w] = NoProbe]
    /\ \/ /\ Settles(w)
          /\ credential' = [credential EXCEPT !.requested = NoRequest, !.claimed = "no",
                                              !.status = probe[w].result]
          /\ settled' = Append(settled, probe[w].request)
       \/ ~ Settles(w) /\ UNCHANGED <<credential, settled>>
    /\ UNCHANGED <<clicks, awaiting, editing, sealing, entered, answers>>

\* CREDENTIAL_TEST_STALE_MS after the claim, its probe under way or not.
ClaimAges ==
    /\ credential.claimed = "fresh"
    /\ credential' = [credential EXCEPT !.claimed = "stale"]
    /\ UNCHANGED <<clicks, probe, awaiting, editing, sealing, entered, settled, answers>>

ProberDies(w) ==
    /\ probe[w] # NoProbe
    /\ probe' = [probe EXCEPT ![w] = NoProbe]
    /\ UNCHANGED <<credential, clicks, awaiting, editing, sealing, entered, settled, answers>>

\* testProviderCredential reads the row every 400 ms, deleted or not, and answers with
\* whatever was settled last; after CREDENTIAL_TEST_WAIT_MS it answers 'pending'.
settledOutcome == credential.requested = NoRequest /\ credential.status \in {"success", "failed"}

testProviderCredential(o) ==
    /\ awaiting[o] # NoRequest
    /\ awaiting' = [awaiting EXCEPT ![o] = NoRequest]
    /\ \/ /\ settledOutcome
          /\ answers' = answers \cup {[own |-> awaiting[o], of |-> settled[Len(settled)]]}
       \/ ~ settledOutcome /\ UNCHANGED answers
    /\ UNCHANGED <<credential, clicks, probe, editing, sealing, entered, settled>>
-----------------------------------------------------------------------------
(* The target and its secret                                                   *)
BeginUpdate(o) ==
    /\ editing[o] = NotEditing
    /\ credential.live
    /\ editing' = [editing EXCEPT ![o] = [doing |-> "update", seen |-> {credential.target}]]
    /\ UNCHANGED <<credential, clicks, probe, awaiting, sealing, entered, settled, answers>>

\* A secret was given: the row gets the target the request names, or the one it read, and
\* the secret, encrypted with the current key.
Retarget(o, t) ==
    /\ editing[o].doing = "update" /\ credential.live
    /\ Len(entered) < MaxSecrets
    /\ entered' = Append(entered, t)
    /\ credential' = [credential EXCEPT !.target = t,
                                        !.sealed = [secret |-> Len(entered) + 1, key |-> "current"]]
    /\ editing' = [editing EXCEPT ![o] = NotEditing]
    /\ UNCHANGED <<clicks, probe, awaiting, sealing, settled, answers>>

\* No secret: a redirected update is answered SECRET_REQUIRED_FOR_REDIRECT, any other
\* writes the name, enabled and the schema version, which the model leaves out; so do
\* inputs that are refused and rows deleted meanwhile.
KeepTarget(o) ==
    /\ editing[o].doing = "update"
    /\ editing' = [editing EXCEPT ![o] = NotEditing]
    /\ UNCHANGED <<credential, clicks, probe, awaiting, sealing, entered, settled, answers>>

\* The look for models that use the credential, and the deletion.
BeginDelete(o) ==
    /\ editing[o] = NotEditing
    /\ editing' = [editing EXCEPT ![o] = [doing |-> "delete", seen |-> {}]]
    /\ UNCHANGED <<credential, clicks, probe, awaiting, sealing, entered, settled, answers>>

deleteProviderCredential(o) ==
    /\ editing[o].doing = "delete"
    /\ \/ credential' = [credential EXCEPT !.live = FALSE]
       \/ UNCHANGED credential     \* CREDENTIAL_IN_USE
    /\ editing' = [editing EXCEPT ![o] = NotEditing]
    /\ UNCHANGED <<clicks, probe, awaiting, sealing, entered, settled, answers>>
-----------------------------------------------------------------------------
(* scripts/reencrypt-provider-credentials.ts, deleted rows included             *)
ReadSealed ==
    /\ sealing = NoCiphertext
    /\ credential.sealed.key = "legacy"
    /\ sealing' = credential.sealed
    /\ UNCHANGED <<credential, clicks, probe, awaiting, editing, entered, settled, answers>>

\* Compare-and-set on the ciphertext and key id that were read; otherwise skipped.
Reseal ==
    /\ sealing # NoCiphertext
    /\ credential' = IF credential.sealed = sealing
                       THEN [credential EXCEPT !.sealed = [secret |-> sealing.secret, key |-> "current"]]
                       ELSE credential
    /\ sealing' = NoCiphertext
    /\ UNCHANGED <<clicks, probe, awaiting, editing, entered, settled, answers>>

CredentialTest(w) == \/ claimProviderCredentialTests(w) \/ probeCredential(w)
                     \/ recordProviderCredentialTest(w) \/ ProberDies(w)
CredentialEdit(o) == \/ BeginUpdate(o) \/ KeepTarget(o) \/ \E t \in Targets : Retarget(o, t)
                     \/ BeginDelete(o) \/ deleteProviderCredential(o)

CredentialNext ==
    \/ \E o \in Operators : \/ requestProviderCredentialTest(o) \/ testProviderCredential(o)
                            \/ CredentialEdit(o)
    \/ \E w \in Probers : CredentialTest(w)
    \/ ClaimAges \/ ReadSealed \/ Reseal

CredentialSpec == CredentialInit /\ [][CredentialNext]_credentialVars
-----------------------------------------------------------------------------
\* service.ts: "A masked secret must never be silently redirected": whatever updates and
\* re-encryptions interleave, the secret in force is the last one entered, and it is sent
\* to the target it was entered for.
SecretNotRedirected ==
    /\ credential.sealed.secret = Len(entered)
    /\ entered[credential.sealed.secret] = credential.target

\* provider-credentials.ts: a request is settled at most once and in order, by its own
\* probe; a row is pending exactly while a request is open; and no administrator is shown
\* an outcome older than the request it made.
OutcomesCurrent ==
    /\ credential.status = "pending" <=> credential.requested # NoRequest
    /\ \A i, j \in DOMAIN settled : i < j => settled[i] < settled[j]
    /\ \A a \in answers : a.own <= a.of

\* A credential's secret and its test outcome are those of its last change: both of the above.
CredentialSound == SecretNotRedirected /\ OutcomesCurrent
=============================================================================
